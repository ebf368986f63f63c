-------------------------------- MODULE Pkgd --------------------------------
(***************************************************************************)
(* The package service: the main thread, which serves the sessions, and    *)
(* the worker, which has the store.  The main thread gives the worker one  *)
(* job at a time through a cell and asks it to drop the open group with a  *)
(* flag; the worker's steps interleave with the handlers of the main       *)
(* thread, and the machine may crash between any two of them.              *)
(***************************************************************************)
EXTENDS PkgStore

CONSTANTS
    Sessions,
    Nobody,         \* no session
    GROUP_MAX       \* packages of a group

ASSUME PkgdAssumption == Nobody \notin Sessions

VARIABLES
    group,      \* GROUP of the worker: owner, staged packages, open receipt
    job,        \* JOB, JOB_STATE, JOB_CODE
    pending,    \* the session whose long operation is under way
    rx,         \* the receipt the main thread feeds
    fed,        \* FED: the whole package came
    cancel,     \* CANCEL
    alive,      \* the sessions that are open
    hasty       \* history: a session dropped its receipt while its begin, which
                \* the worker took already, was not taken by the session

mainVars == <<job, pending, rx, fed, cancel, alive, hasty>>
vars == <<diskVars, stateVars, layerVars, worker, tx, mode, boundVars, ghostVars,
          group, mainVars>>

NoReceipt == [number |-> 0, place |-> 0, rec |-> EMPTY, written |-> FALSE, failed |-> FALSE]
NoGroup == [owner |-> Nobody, staged |-> <<>>, open |-> NoReceipt]
NoRx == [owner |-> Nobody, number |-> 0]
NoJob == [state |-> "IDLE", kind |-> "none", owner |-> Nobody, name |-> "", end |-> FALSE,
          number |-> 0, names |-> {}, ok |-> FALSE]

Init ==
    /\ medium = [b \in Blocks |-> Zero] /\ pend = NoPend
    /\ table = NoTable /\ opened = [copy |-> 0, at |-> 0]
    /\ objects = [i \in LayerPlaces |-> 0] /\ layers = objects
    /\ stuck = {} /\ listed = FALSE /\ entries = {} /\ out = {}
    /\ worker = "off" /\ tx = NoTx /\ mode = "starting"
    /\ made = 0 /\ fails = 0 /\ crashes = 0
    /\ held = BlankState /\ flight = {} /\ sure = "yes"
    /\ group = NoGroup /\ job = NoJob /\ pending = Nobody /\ rx = NoRx
    /\ fed = FALSE /\ cancel = FALSE /\ alive = Sessions /\ hasty = FALSE

\* The machine loses its memory and whatever the device had not flushed.
Crash ==
    /\ worker # "off" /\ crashes < MaxCrash
    /\ medium' \in Kept /\ pend' = NoPend
    /\ table' = NoTable /\ opened' = [copy |-> 0, at |-> 0]
    /\ objects' = [i \in LayerPlaces |-> 0] /\ layers' = objects'
    /\ stuck' = {} /\ listed' = FALSE /\ entries' = {} /\ out' = {}
    /\ worker' = "off" /\ tx' = NoTx /\ mode' = "starting"
    /\ crashes' = crashes + 1
    /\ group' = NoGroup /\ job' = NoJob /\ pending' = Nobody /\ rx' = NoRx
    /\ fed' = FALSE /\ cancel' = FALSE /\ alive' = Sessions /\ hasty' = FALSE
    /\ sure' = IF sure = "yes" THEN "yes" ELSE "lost"
    /\ UNCHANGED <<made, fails, held, flight>>

-----------------------------------------------------------------------------
\* The main thread. A session sends what it likes, while its operation is under
\* way too.
Sends(s) == s \in alive
Gate == mode = "ok"
JobFree == job.state = "IDLE" /\ pending = Nobody

Give(s, j) == job' = [j EXCEPT !.state = "PENDING", !.owner = s] /\ pending' = s

install_begin(s, n) ==
    /\ Sends(s) /\ Gate /\ JobFree /\ rx = NoRx
    /\ group.owner \in {Nobody, s}
    /\ Give(s, [NoJob EXCEPT !.kind = "Begin", !.name = n])
    /\ UNCHANGED <<rx, fed, cancel, alive, hasty>>

\* One FEED brings the whole package, or more than it.
feed(s) ==
    /\ Sends(s) /\ rx.owner = s /\ ~fed
    /\ fed' = TRUE
    /\ UNCHANGED <<job, pending, rx, cancel, alive, hasty>>

\* drop_receipt for session `s`: the receipt and its group go.
DropReceipt(s) ==
    /\ rx' = NoRx /\ cancel' = TRUE
    /\ hasty' = (hasty \/ (job.kind = "Begin" /\ job.state # "PENDING" /\ pending = s))

feed_too_long(s) ==
    /\ Sends(s) /\ rx.owner = s
    /\ DropReceipt(s)
    /\ UNCHANGED <<job, pending, fed, alive>>

install_commit(s, end) ==
    /\ Sends(s) /\ rx.owner = s /\ fed /\ JobFree
    /\ rx' = NoRx
    /\ Give(s, [NoJob EXCEPT !.kind = "Commit", !.end = end, !.number = rx.number])
    /\ UNCHANGED <<fed, cancel, alive, hasty>>

install_cancel(s) ==
    /\ Sends(s) /\ group.owner = s
    /\ DropReceipt(s)
    /\ UNCHANGED <<job, pending, fed, alive>>

change(s, j) ==
    /\ Sends(s) /\ Gate /\ JobFree /\ group.owner = Nobody
    /\ Give(s, j)
    /\ UNCHANGED <<rx, fed, cancel, alive, hasty>>

\* The receipt of a package that began is the session's.
Begun ==
    rx' = IF job.kind = "Begin" /\ job.ok /\ rx = NoRx
          THEN [owner |-> job.owner, number |-> job.number] ELSE rx

\* The notification of a job that is done, for a session that is there.
settle ==
    /\ job.state = "DONE" /\ pending # Nobody
    /\ Begun
    /\ UNCHANGED <<job, pending, fed, cancel, alive, hasty>>

\* Mutant: a job whose session went is only forgotten.
orphanForgotten == FALSE

\* A begin whose session went opened a group that no one owns.
orphan_drops_group == job.kind = "Begin" /\ job.ok

settle_orphan ==
    /\ job.state = "DONE" /\ pending = Nobody
    /\ cancel' = (cancel \/ orphan_drops_group)
    /\ job' = NoJob
    /\ UNCHANGED <<pending, rx, fed, alive, hasty>>

take(s) ==
    /\ pending = s /\ s \in alive /\ job.state = "DONE"
    /\ Begun
    /\ job' = NoJob /\ pending' = Nobody
    /\ UNCHANGED <<fed, cancel, alive, hasty>>

\* The last copy of the session went.
session_gone(s) ==
    /\ s \in alive
    /\ alive' = alive \ {s}
    /\ pending' = IF pending = s THEN Nobody ELSE pending
    /\ rx' = IF rx.owner = s THEN NoRx ELSE rx
    /\ LET ended == job.state = "DONE" /\ pending' = Nobody
       IN /\ cancel' = (cancel \/ group.owner = s \/ pending = s
                          \/ (ended /\ orphan_drops_group))
          /\ job' = IF ended THEN NoJob ELSE job
    /\ UNCHANGED <<fed, hasty>>

Main ==
    /\ \/ \E s \in Sessions :
            \/ \E n \in Names : install_begin(s, n)
            \/ feed(s) \/ feed_too_long(s)
            \/ \E end \in BOOLEAN : install_commit(s, end)
            \/ install_cancel(s) \/ take(s) \/ session_gone(s)
            \/ \E n \in Names : change(s, [NoJob EXCEPT !.kind = "Remove", !.names = {n}])
            \/ change(s, [NoJob EXCEPT !.kind = "Settings"])
            \/ change(s, [NoJob EXCEPT !.kind = "Serial"])
            \/ \E n \in Names : change(s, [NoJob EXCEPT !.kind = "Revoked", !.names = {n}])
       \/ settle \/ settle_orphan
    /\ UNCHANGED <<diskVars, stateVars, layerVars, worker, tx, mode, boundVars, ghostVars, group>>

-----------------------------------------------------------------------------
\* The worker.
quietVars == <<pending, rx, alive, hasty>>

\* drop_group: the objects of the group close, the store is free.
GroupPlaces == {group.staged[k].place : k \in DOMAIN group.staged}
                 \cup IF group.open = NoReceipt THEN {} ELSE {group.open.place}
drop_group ==
    /\ group' = NoGroup /\ fed' = FALSE
    /\ objects' = [i \in LayerPlaces |-> IF i \in GroupPlaces THEN 0 ELSE objects[i]]
KeepGroup == UNCHANGED <<group, fed, objects>>

\* The result of a job: of the arguments only what the main thread looks at is
\* kept, and the code of a job that is no begin goes to its client alone.
Result(ok, number) ==
    job' = [NoJob EXCEPT !.state = "RUNNING", !.owner = job.owner, !.number = number,
              !.kind = IF job.kind = "Begin" THEN "Begin" ELSE "other",
              !.ok = ok /\ job.kind = "Begin"]
Ends(ok) == worker' = "done" /\ Result(ok, 0)

\* The group that the main thread cancelled goes before the next job.
serve_cancel ==
    /\ worker = "serve" /\ cancel
    /\ cancel' = FALSE /\ drop_group
    /\ UNCHANGED <<diskVars, stateVars, layers, stuck, listed, entries, out, worker, tx, mode, boundVars,
                   ghostVars, quietVars, job>>

\* The next job, also after a transaction whose superblock failed: whether that
\* is on the medium is not looked at.
run_job ==
    /\ worker = "serve" /\ ~cancel /\ job.state = "PENDING"
    /\ job' = [job EXCEPT !.state = "RUNNING"]
    /\ worker' = "job"
    /\ sure' = IF flight # {} /\ Alive /\ sure = "yes" THEN "no" ELSE sure
    /\ UNCHANGED <<diskVars, stateVars, layerVars, tx, mode, boundVars, held, flight,
                   quietVars, group, fed, cancel>>

\* The bytes that came go to the extent of the receipt, whether the worker
\* waits for a job or runs the commit of the receipt.
Pumps ==
    /\ worker = "serve" \/ (worker = "job" /\ job.kind = "Commit")
    /\ group.open # NoReceipt /\ fed /\ ~cancel
    /\ ~group.open.written /\ ~group.open.failed

pump_feed ==
    /\ Pumps
    /\ Write(group.open.rec.ext, Data(group.open.rec.data))
    /\ group' = [group EXCEPT !.open.written = TRUE]
    /\ UNCHANGED <<stateVars, layerVars, worker, tx, made, crashes, ghostVars, mainVars>>

pump_fails ==
    /\ Pumps /\ WriteFails(group.open.rec.ext, Data(group.open.rec.data))
    /\ group' = [group EXCEPT !.open.failed = TRUE]
    /\ UNCHANGED <<stateVars, layerVars, worker, tx, made, crashes, ghostVars, mainVars>>

\* INSTALL_BEGIN: a place and an extent clear of the table and of the group.
Job(kind) == worker = "job" /\ job.kind = kind
Staged == {group.staged[k].rec : k \in DOMAIN group.staged}
FreePlaces == {i \in Places : table.recs[i] = EMPTY} \ GroupPlaces
BeginExtent == extent_for({r.ext : r \in Staged})

\* No other session holds the store and no receipt is open; BUSY otherwise.
CanBegin == group.owner \in {Nobody, job.owner} /\ group.open = NoReceipt

\* A repository the table does not know, or BUSY: the group stays as it is.
begin_invalid ==
    /\ Job("Begin")
    /\ Ends(FALSE) /\ KeepGroup
    /\ UNCHANGED <<diskVars, stateVars, layers, stuck, listed, entries, out, tx, mode, boundVars,
                   ghostVars, quietVars, cancel>>

\* A name twice in a group, a full group, table or disk, or no memory for the
\* object: the whole group goes.
begin_refused ==
    /\ Job("Begin") /\ CanBegin
    /\ Ends(FALSE) /\ drop_group
    /\ UNCHANGED <<diskVars, stateVars, layers, stuck, listed, entries, out, tx, mode, boundVars, ghostVars,
                   quietVars, cancel>>

begin ==
    /\ Job("Begin") /\ CanBegin
    /\ Len(group.staged) < GROUP_MAX
    /\ job.name \notin {r.name : r \in Staged}
    /\ FreePlaces # {} /\ BeginExtent # 0
    /\ made < MaxMade /\ made' = made + 1
    /\ LET place == Min(FreePlaces)
           rec == [EMPTY EXCEPT !.name = job.name, !.ext = BeginExtent, !.data = made + 1]
       IN /\ group' = [group EXCEPT !.owner = job.owner,
                         !.open = [NoReceipt EXCEPT !.number = made + 1, !.place = place,
                                     !.rec = rec]]
          /\ objects' = [objects EXCEPT ![place] = made + 1]
    /\ fed' = FALSE
    /\ worker' = "done" /\ Result(TRUE, made + 1)
    /\ UNCHANGED <<diskVars, stateVars, layers, stuck, listed, entries, out, tx, mode, fails, crashes,
                   ghostVars, quietVars, cancel>>

\* INSTALL_COMMIT. The group went, or the receipt is another one.
commit_invalid ==
    /\ Job("Commit")
    /\ group.owner # job.owner \/ group.open.number # job.number
    /\ Ends(FALSE) /\ KeepGroup
    /\ UNCHANGED <<diskVars, stateVars, layers, stuck, listed, entries, out, tx, mode, boundVars, ghostVars,
                   quietVars, cancel>>

CanCommit == Job("Commit") /\ group.owner = job.owner /\ group.open.number = job.number

\* A write failed, a cancel stopped the writes, or the package does not pass.
commit_refused ==
    /\ CanCommit
    /\ Ends(FALSE) /\ drop_group
    /\ UNCHANGED <<diskVars, stateVars, layers, stuck, listed, entries, out, tx, mode, boundVars, ghostVars,
                   quietVars, cancel>>

Passes ==
    /\ CanCommit /\ group.open.written
    /\ listed => group.open.rec.name \notin table.barred
Stage == Append(group.staged, [place |-> group.open.place, rec |-> group.open.rec])

\* More packages of the group are to come: this one is flushed and waits.
commit_stage ==
    /\ Passes /\ ~job.end
    /\ Flush
    /\ group' = [group EXCEPT !.staged = Stage, !.open = NoReceipt]
    /\ fed' = FALSE
    /\ Ends(TRUE)
    /\ UNCHANGED <<stateVars, layerVars, tx, made, crashes, ghostVars, quietVars, cancel>>

commit_stage_fails ==
    /\ Passes /\ ~job.end
    /\ FlushFails
    /\ Ends(FALSE) /\ drop_group
    /\ UNCHANGED <<stateVars, layers, stuck, listed, entries, out, tx, made, crashes, ghostVars, quietVars, cancel>>

Transacts(kind, next, go, come) ==
    /\ table.gen < MaxGen
    /\ NewTx(kind, next, go, come)
    /\ flight' = flight \cup {Promise(next)}
    /\ worker' = "f1"
    /\ UNCHANGED <<stateVars, layers, stuck, listed, entries, out, crashes, held, sure, quietVars,
                   cancel>>

commit_group ==
    /\ Passes /\ job.end
    /\ Transacts("Install", GroupTable(Stage),
                 UNION {Find(table, Stage[k].rec.name) : k \in DOMAIN Stage},
                 {Stage[k].place : k \in DOMAIN Stage})
    /\ group' = [group EXCEPT !.staged = Stage, !.open = NoReceipt]
    /\ fed' = FALSE
    /\ UNCHANGED <<diskVars, mode, objects, made, fails, job>>

\* A change of the store that is not an installation and is refused: a name
\* that is not there, a blob that breaks the rules, no room, a serial that is
\* too low; a serial the table holds already changes nothing.
Changes == worker = "job" /\ job.kind \in {"Remove", "Settings", "Serial", "Revoked"}
change_refused ==
    /\ Changes
    /\ Ends(FALSE) /\ KeepGroup
    /\ UNCHANGED <<diskVars, stateVars, layers, stuck, listed, entries, out, tx, mode, boundVars, ghostVars,
                   quietVars, cancel>>

remove ==
    /\ Changes /\ job.kind = "Remove"
    /\ \A n \in job.names : Find(table, n) # {}
    /\ LET places == UNION {Find(table, n) : n \in job.names}
       IN Transacts("Remove", RemoveTable(places), places, {})
    /\ KeepGroup /\ UNCHANGED <<diskVars, mode, made, fails, job>>

serial_set ==
    /\ Changes /\ job.kind = "Serial"
    /\ Transacts("Serial", SerialTable(table.serial + 1), {}, {})
    /\ KeepGroup /\ UNCHANGED <<diskVars, mode, made, fails, job>>

\* A blob goes into a free extent before its transaction.
write_blob ==
    /\ extent_for({}) # 0
    /\ made < MaxMade /\ made' = made + 1
    /\ Write(extent_for({}), Data(made + 1))

blob_fails ==
    /\ Changes /\ job.kind \in {"Settings", "Revoked"}
    /\ extent_for({}) # 0 /\ made < MaxMade /\ made' = made + 1
    /\ WriteFails(extent_for({}), Data(made + 1))
    /\ Ends(FALSE) /\ KeepGroup
    /\ UNCHANGED <<stateVars, layers, stuck, listed, entries, out, tx, crashes, ghostVars, quietVars, cancel>>

settings_set ==
    /\ Changes /\ job.kind = "Settings"
    /\ write_blob
    /\ objects' = [objects EXCEPT ![SETTINGS_NEW] = made + 1]
    /\ Transacts("Settings", SettingsTable(extent_for({}), made + 1),
                 IF objects[SETTINGS_SLOT] # 0 THEN {SETTINGS_SLOT} ELSE {}, {SETTINGS_NEW})
    /\ UNCHANGED <<group, fed, job>>

revoked_set ==
    /\ Changes /\ job.kind = "Revoked"
    /\ write_blob
    /\ LET next == RevokedTable(extent_for({}), made + 1, job.names)
       IN Transacts("Revoked", next,
                    {i \in Places : next.recs[i].revoked /\ layers[i] # 0}, {})
    /\ KeepGroup /\ UNCHANGED job

\* The transaction did not become the state: a group goes, and so does the
\* object of new settings.
after_refused ==
    /\ worker = "refused"
    /\ IF tx.kind = "Install" THEN drop_group
       ELSE objects' = [objects EXCEPT ![SETTINGS_NEW] = 0] /\ UNCHANGED <<group, fed>>
    /\ tx' = NoTx /\ Ends(FALSE)
    /\ UNCHANGED <<diskVars, stateVars, layers, stuck, listed, entries, out, mode, boundVars, ghostVars,
                   quietVars, cancel>>

\* It did: the state is published, and the group, if there was one, is over.
after_made ==
    /\ publish /\ Ends(TRUE)
    /\ group' = NoGroup /\ fed' = FALSE
    /\ UNCHANGED <<quietVars, cancel>>

job_done ==
    /\ worker = "done"
    /\ worker' = "serve" /\ job' = [job EXCEPT !.state = "DONE"]
    /\ UNCHANGED <<diskVars, stateVars, layerVars, tx, mode, boundVars, ghostVars,
                   quietVars, group, fed, cancel>>

Worker ==
    \/ (open \/ format \/ format_done \/ transact) /\ UNCHANGED <<group, mainVars>>
    \/ serve_cancel \/ run_job \/ pump_feed \/ pump_fails
    \/ begin_invalid \/ begin_refused \/ begin
    \/ commit_invalid \/ commit_refused \/ commit_stage \/ commit_stage_fails \/ commit_group
    \/ change_refused \/ blob_fails \/ remove \/ serial_set \/ settings_set \/ revoked_set
    \/ after_refused \/ after_made \/ job_done

Next == Main \/ Worker \/ Crash

Spec == Init /\ [][Next]_vars

-----------------------------------------------------------------------------
\* The store is whole across every crash: a start finds the state a client was
\* told of last or the one under way, with the data of every record. This is so
\* until the worker goes on after a superblock whose write failed, and again once
\* the next change is made; a start that could not read the newer copy may open
\* the older.
Abstract == INSTANCE AtomicStore WITH Blank <- BlankState, Lost <- LostState,
                up <- worker # "off"
Atomic == Abstract!Spec

\* Between jobs LAYER_OF shows the accepted state: each package of the table
\* and the settings have their layer (but those known to be out), nothing else
\* has one, and a package whose key the list revokes, when the list was read,
\* has none. What the tree shows besides are the layers a detach gave up.
LayersMatch ==
    worker = "serve" =>
        \A i \in LayerPlaces :
            /\ layers[i] = IF i = SETTINGS_NEW \/ i \in out THEN 0 ELSE table.recs[i].data
            /\ i \in Places /\ listed /\ Barred(table, i) => layers[i] = 0

\* A receipt the main thread feeds is the one the worker has open, so that its
\* object is mapped.
FedIsOpen == rx # NoRx => group.open.number = rx.number /\ group.owner = rx.owner

\* The store is not held for a session that went: its group is about to be
\* dropped, or the begin that opens it will be found without its session.
NotHeldForGood ==
    group.owner \in Sessions \ alive =>
        cancel \/ (job.kind = "Begin" /\ pending = Nobody)

\* A job the main thread gave finds the store as the main thread saw it.
NeverBusy ==
    /\ Job("Begin") => CanBegin
    /\ Changes => group = NoGroup

\* The cell, the flag and the owner are read and written by two threads
\* without a lock, and stay in step; the receipt that is fed is the open one
\* until a session drops its receipt while a begin of its own is under way.
HandOff == (hasty \/ FedIsOpen) /\ NotHeldForGood /\ NeverBusy
=============================================================================
