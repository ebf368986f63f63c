----------------------------- MODULE PkgdProofs -----------------------------
(***************************************************************************)
(* Proofs about Pkgd, for any names, sessions, places, extents, contents,  *)
(* crashes and failures: the store implements AtomicStore, LAYER_OF has the*)
(* layers of the accepted state, and the two threads stay in step.         *)
(***************************************************************************)
EXTENDS Pkgd, SequenceTheorems, WellFoundedInduction, TLAPS

-----------------------------------------------------------------------------
(* Where the worker stands.                                                *)

Serving == {"serve", "job", "done"}
TxAt == {"f1", "table", "f2", "attach", "super", "f3"}
Ending == {"refused", "made"}
Formatting == {"format", "format_flush", "format_super", "format_last", "stopped"}
Changing == {"Remove", "Settings", "Serial", "Revoked"}

-----------------------------------------------------------------------------
(* The job, the group and the worker, whatever the sessions send.          *)

Rec == [name : Names \cup {"", "settings", "revoked"}, ext : Blocks, data : Nat, revoked : BOOLEAN]
JobType == [state : {"IDLE", "PENDING", "RUNNING", "DONE"},
            kind : {"none", "other", "Begin", "Commit"} \cup Changing,
            owner : Sessions \cup {Nobody}, name : Names \cup {""}, end : BOOLEAN,
            number : Nat, names : SUBSET Names, ok : BOOLEAN]
Staging == [place : Nat, rec : Rec]
Receipt == [number : Nat, place : Nat, rec : Rec, written : BOOLEAN, failed : BOOLEAN]
GroupType == [owner : Sessions \cup {Nobody}, staged : Seq(Staging), open : Receipt]
RxType == [owner : Sessions \cup {Nobody}, number : Nat]

HandType ==
    /\ job \in JobType /\ group \in GroupType /\ rx \in RxType
    /\ tx = [kind |-> tx.kind, next |-> tx.next, detach |-> tx.detach, attach |-> tx.attach,
             at |-> tx.at]
    /\ pending \in Sessions \cup {Nobody} /\ alive \subseteq Sessions
    /\ fed \in BOOLEAN /\ cancel \in BOOLEAN /\ made \in Nat

\* The worker takes part in what its job and its transaction say.
WorkerOK ==
    /\ worker \in Serving \cup TxAt \cup Ending \cup Formatting \cup {"off"}
    /\ job.state = "RUNNING" <=> worker \in {"job", "done"} \cup TxAt \cup Ending
    /\ worker \in Serving => tx = NoTx
    /\ worker \in TxAt \cup Ending =>
         /\ job.kind \in {"Commit"} \cup Changing
         /\ tx.kind = IF job.kind = "Commit" THEN "Install" ELSE job.kind

\* Before the store is there, and when it is damaged, nothing is under way.
Quiet ==
    job = NoJob /\ group = NoGroup /\ rx = NoRx /\ pending = Nobody /\ tx = NoTx /\ mode # "ok"
ModeOK ==
    /\ mode \in {"starting", "ok", "damaged", "nostore"}
    /\ worker \in {"off"} \cup Formatting \/ mode = "damaged" => Quiet
    /\ mode = "damaged" => worker = "serve"
    /\ mode = "starting" <=> worker \in {"off"} \cup (Formatting \ {"stopped"})

\* The cell of the job.
CellOK ==
    /\ job.state = "IDLE" <=> job = NoJob
    /\ job.state = "IDLE" => pending = Nobody
    /\ job.state # "IDLE" => job.owner \in Sessions
    /\ job.state = "PENDING" \/ worker = "job" => job.kind \in {"Begin", "Commit"} \cup Changing
    /\ job.kind = "Begin" /\ (job.state = "PENDING" \/ worker = "job") => job.name \in Names
    /\ worker = "done" \/ job.state = "DONE" => job.kind \in {"Begin", "other"}

\* A change of the store that is no installation meets no group, and a group
\* that is installed has no open receipt.
OwnOK ==
    /\ group.owner = Nobody <=> group = NoGroup
    /\ job.kind \in Changing => group = NoGroup
    /\ worker \in TxAt \cup Ending => group.open = NoReceipt

HandBase == HandType /\ WorkerOK /\ ModeOK /\ CellOK /\ OwnOK

-----------------------------------------------------------------------------
(* Free places and extents.                                                *)

Less == {ss \in Nat \X Nat : ss[1] < ss[2]}
LEMMA LessWellFounded == IsWellFoundedOn(Less, Nat)
  BY NatLessThanWellFounded, Zenon DEF OpToRel, Less

\* A set of numbers has a least one.
LEMMA MinIn ==
  ASSUME NEW S, S \subseteq Nat, S # {}
  PROVE Min(S) \in S
  <1>1. PICK x \in S : \A y \in S : ~ (<<y, x>> \in Less)
    BY LessWellFounded, WFMin
  <1>2. ASSUME NEW y \in S PROVE x <= y
    <2>1. x \in Nat /\ y \in Nat
      OBVIOUS
    <2>2. y < x => <<y, x>> \in Less
      BY <2>1 DEF Less
    <2> QED
      BY <1>1, <2>1, <2>2
  <1> QED
    BY <1>2 DEF Min

LEMMA Sizes ==
  /\ PACKAGES \in Nat /\ LastExtent \in Nat /\ PACKAGES > 0 /\ LastExtent > 2
  /\ Extents \subseteq Blocks /\ Blocks \subseteq Nat /\ Places \subseteq Nat
  /\ 0 \in Blocks /\ 1 \in Blocks /\ SUPERS \in Extents /\ 0 \notin Extents /\ 1 \notin Extents
  /\ Places \subseteq Records /\ SETTINGS_SLOT \in Records \ Places /\ REVOKED_SLOT \in Records \ Places
  /\ SETTINGS_SLOT # REVOKED_SLOT /\ SETTINGS_NEW \notin Records
  <1>1. PACKAGES \in Nat /\ LastExtent \in Nat /\ PACKAGES > 0 /\ LastExtent > 2
    <2>1. PACKAGES \in Nat \ {0} /\ LastExtent \in Nat \ {0, 1, 2}
      BY StoreAssumption, Zenon
    <2> QED
      BY <2>1
  <1>2. /\ Extents \subseteq Blocks /\ Blocks \subseteq Nat
        /\ 0 \in Blocks /\ 1 \in Blocks /\ SUPERS \in Extents /\ 0 \notin Extents /\ 1 \notin Extents
    BY <1>1 DEF Extents, Blocks, SUPERS
  <1>3. /\ Places \subseteq Nat /\ Places \subseteq Records
        /\ SETTINGS_SLOT \in Records \ Places /\ REVOKED_SLOT \in Records \ Places
        /\ SETTINGS_SLOT # REVOKED_SLOT /\ SETTINGS_NEW \notin Records
    BY <1>1 DEF Places, Records, SETTINGS_SLOT, REVOKED_SLOT, SETTINGS_NEW
  <1> QED
    BY <1>1, <1>2, <1>3

LEMMA FreeExtent ==
  ASSUME NEW taken, find_free(taken) # 0
  PROVE find_free(taken) \in Extents \ taken
  <1> DEFINE free == Extents \ taken
  <1>1. free # {} /\ find_free(taken) = Min(free)
    BY DEF find_free
  <1>2. free \subseteq Nat
    BY Sizes
  <1> HIDE DEF free
  <1>3. Min(free) \in free
    BY <1>1, <1>2, MinIn
  <1> QED
    BY <1>1, <1>3 DEF free

LEMMA FreePlace ==
  ASSUME FreePlaces # {}
  PROVE Min(FreePlaces) \in FreePlaces
  <1>1. FreePlaces \subseteq Nat
    BY Sizes DEF FreePlaces
  <1> QED
    BY <1>1, MinIn

-----------------------------------------------------------------------------
(* The handlers of the main thread keep the job, the group and the worker  *)
(* in step.                                                                *)

LEMMA Blanks ==
  /\ EMPTY \in Rec /\ NoJob \in JobType /\ NoReceipt \in Receipt /\ NoGroup \in GroupType /\ NoRx \in RxType
  /\ NoJob.state = "IDLE" /\ NoJob.kind = "none" /\ ~NoJob.ok
  /\ NoReceipt.number = 0 /\ ~NoReceipt.written
  /\ NoGroup.owner = Nobody /\ NoGroup.staged = <<>> /\ NoGroup.open = NoReceipt
  /\ NoRx.owner = Nobody
  <1>1. EMPTY \in Rec
    BY Sizes DEF EMPTY, Rec
  <1>2. NoReceipt \in Receipt
    BY <1>1 DEF NoReceipt, Receipt
  <1>3. NoGroup \in GroupType
    BY <1>2 DEF NoGroup, GroupType
  <1>4. NoJob \in JobType /\ NoRx \in RxType
    BY DEF NoJob, JobType, NoRx, RxType
  <1>5. NoJob.state = "IDLE" /\ NoJob.kind = "none" /\ ~NoJob.ok
    BY DEF NoJob
  <1> QED
    BY <1>1, <1>2, <1>3, <1>4, <1>5 DEF NoReceipt, NoGroup, NoRx

\* What the main thread leaves alone.
Apart ==
    UNCHANGED <<diskVars, stateVars, layerVars, worker, tx, mode, boundVars, ghostVars, group>>

\* A job of a session.
LEMMA GivenStep ==
  ASSUME HandBase, Apart, NEW s \in Sessions, NEW j \in JobType, Give(s, j), JobFree,
         j.kind \in {"Begin", "Commit"} \cup Changing, j.kind = "Begin" => j.name \in Names,
         j.kind \in Changing => group.owner = Nobody,
         mode = "ok" \/ rx # NoRx,
         rx' \in {rx, NoRx}, UNCHANGED <<fed, cancel, alive>>
  PROVE HandBase'
  <1>1. /\ job' \in JobType /\ job'.state = "PENDING" /\ job'.kind = j.kind /\ job'.owner = s
        /\ job'.name = j.name
    BY DEF Give, JobType
  <1>2. worker = "serve" /\ mode # "damaged"
    BY Blanks DEF HandBase, WorkerOK, ModeOK, Quiet, JobFree, Serving, Formatting, TxAt, Ending, CellOK
  <1>3. HandType'
    BY <1>1, Blanks DEF HandBase, HandType, Apart, Give, boundVars
  <1>4. WorkerOK' /\ ModeOK'
    BY <1>1, <1>2 DEF HandBase, WorkerOK, ModeOK, Apart, Serving, TxAt, Ending, Formatting
  <1>5. CellOK' /\ OwnOK'
    BY <1>1, <1>2, Blanks DEF HandBase, CellOK, OwnOK, Apart, Serving, TxAt, Ending
  <1> QED
    BY <1>3, <1>4, <1>5 DEF HandBase

\* The job stays, or is done and goes.
LEMMA TakenStep ==
  ASSUME HandBase, Apart, alive' \subseteq Sessions, fed' \in BOOLEAN, cancel' \in BOOLEAN,
         rx' \in RxType, rx' = NoRx \/ rx' = rx \/ job.state = "DONE",
         \/ job' = job /\ pending' \in {pending, Nobody}
         \/ job.state = "DONE" /\ job' = NoJob /\ pending' = Nobody
  PROVE HandBase'
  <1>1. job.state = "DONE" => worker = "serve" /\ mode # "damaged"
    BY Blanks DEF HandBase, WorkerOK, ModeOK, Quiet, Serving, Formatting, TxAt, Ending, CellOK
  <1>2. HandType'
    BY Blanks DEF HandBase, HandType, Apart, boundVars
  <1>3. WorkerOK'
    BY <1>1, Blanks DEF HandBase, WorkerOK, Apart, Serving, TxAt, Ending
  <1>4. ModeOK'
    BY <1>1, Blanks DEF HandBase, ModeOK, Quiet, Apart, Formatting
  <1>5. CellOK' /\ OwnOK'
    BY <1>1, Blanks DEF HandBase, CellOK, OwnOK, Apart, Serving, TxAt, Ending, Changing
  <1> QED
    BY <1>2, <1>3, <1>4, <1>5 DEF HandBase

LEMMA MainHand == HandBase /\ Main => HandBase'
  <1> SUFFICES ASSUME HandBase, Main PROVE HandBase'
    OBVIOUS
  <1>0. Apart /\ HandType
    BY DEF Main, Apart, HandBase
  <1>1. ASSUME NEW s \in Sessions, NEW n \in Names, install_begin(s, n) PROVE HandBase'
    <2>0. /\ [NoJob EXCEPT !.kind = "Begin", !.name = n] \in JobType
          /\ [NoJob EXCEPT !.kind = "Begin", !.name = n].kind = "Begin"
          /\ [NoJob EXCEPT !.kind = "Begin", !.name = n].name = n
      BY DEF NoJob, JobType
    <2>1. PICK j \in JobType : j = [NoJob EXCEPT !.kind = "Begin", !.name = n] /\ j.kind = "Begin" /\ j.name = n
      BY <2>0, Zenon
    <2>2. Give(s, j) /\ JobFree /\ mode = "ok" /\ UNCHANGED <<rx, fed, cancel, alive>>
      BY <1>1, <2>1 DEF install_begin, Gate
    <2>3. "Begin" \notin Changing
      BY DEF Changing
    <2> QED
      BY <1>0, <2>1, <2>2, <2>3, GivenStep
  <1>2. ASSUME NEW s \in Sessions, feed(s) \/ feed_too_long(s) \/ install_cancel(s) PROVE HandBase'
    BY <1>0, <1>2, TakenStep, Blanks DEF feed, feed_too_long, install_cancel, DropReceipt, HandType
  <1>3. ASSUME NEW s \in Sessions, NEW e \in BOOLEAN, install_commit(s, e) PROVE HandBase'
    <2>0. rx.number \in Nat /\ rx # NoRx
      BY <1>0, <1>3, Blanks, PkgdAssumption DEF HandType, RxType, install_commit
    <2>4. /\ [NoJob EXCEPT !.kind = "Commit", !.end = e, !.number = rx.number] \in JobType
          /\ [NoJob EXCEPT !.kind = "Commit", !.end = e, !.number = rx.number].kind = "Commit"
      BY <2>0 DEF NoJob, JobType
    <2>1. PICK j \in JobType : /\ j = [NoJob EXCEPT !.kind = "Commit", !.end = e, !.number = rx.number]
                               /\ j.kind = "Commit"
      BY <2>4, Zenon
    <2>2. Give(s, j) /\ JobFree /\ rx' = NoRx /\ UNCHANGED <<fed, cancel, alive>>
      BY <1>3, <2>1 DEF install_commit
    <2>3. "Commit" \notin Changing
      BY DEF Changing
    <2> QED
      BY <1>0, <2>0, <2>1, <2>2, <2>3, GivenStep
  <1>4. ASSUME NEW s \in Sessions, NEW j \in JobType, j.kind \in Changing, change(s, j) PROVE HandBase'
    <2>1. Give(s, j) /\ JobFree /\ mode = "ok" /\ group.owner = Nobody /\ UNCHANGED <<rx, fed, cancel, alive>>
      BY <1>4 DEF change, Gate
    <2>2. "Begin" \notin Changing
      BY DEF Changing
    <2> QED
      BY <1>0, <1>4, <2>1, <2>2, GivenStep
  <1>5. ASSUME NEW s \in Sessions, take(s) PROVE HandBase'
    <2>1. rx' \in RxType
      BY <1>0, <1>5 DEF take, Begun, RxType, HandType, JobType
    <2> QED
      BY <1>0, <1>5, <2>1, TakenStep DEF take, HandType
  <1>6. ASSUME settle PROVE HandBase'
    <2>1. rx' \in RxType
      BY <1>0, <1>6 DEF settle, Begun, RxType, HandType, JobType
    <2> QED
      BY <1>0, <1>6, <2>1, TakenStep DEF settle, HandType
  <1>7. ASSUME settle_orphan PROVE HandBase'
    BY <1>0, <1>7, TakenStep DEF settle_orphan, HandType
  <1>8. ASSUME NEW s \in Sessions, session_gone(s) PROVE HandBase'
    <2>1. /\ alive' \subseteq Sessions /\ fed' \in BOOLEAN /\ cancel' \in BOOLEAN
          /\ rx' \in RxType /\ rx' \in {rx, NoRx} /\ pending' \in {pending, Nobody}
      BY <1>0, <1>8, Blanks DEF session_gone, HandType
    <2>2. job' = job \/ (job.state = "DONE" /\ job' = NoJob /\ pending' = Nobody)
      BY <1>8 DEF session_gone
    <2> QED
      BY <1>0, <2>1, <2>2, TakenStep
  <1>9. ASSUME NEW s \in Sessions, NEW n \in Names, NEW kind \in Changing,
               change(s, [NoJob EXCEPT !.kind = kind, !.names = {n}])
        PROVE HandBase'
    <2>0. /\ [NoJob EXCEPT !.kind = kind, !.names = {n}] \in JobType
          /\ [NoJob EXCEPT !.kind = kind, !.names = {n}].kind \in Changing
      BY DEF NoJob, JobType
    <2>1. PICK j \in JobType : j = [NoJob EXCEPT !.kind = kind, !.names = {n}] /\ j.kind \in Changing
      BY <2>0, Zenon
    <2> QED
      BY <1>4, <1>9, <2>1
  <1>10. ASSUME NEW s \in Sessions, NEW kind \in Changing, change(s, [NoJob EXCEPT !.kind = kind])
         PROVE HandBase'
    <2>0. [NoJob EXCEPT !.kind = kind] \in JobType /\ [NoJob EXCEPT !.kind = kind].kind \in Changing
      BY DEF NoJob, JobType
    <2>1. PICK j \in JobType : j = [NoJob EXCEPT !.kind = kind] /\ j.kind \in Changing
      BY <2>0, Zenon
    <2> QED
      BY <1>4, <1>10, <2>1
  <1>11. /\ "Remove" \in Changing /\ "Settings" \in Changing /\ "Serial" \in Changing /\ "Revoked" \in Changing
    BY DEF Changing
  <1> QED
    BY <1>1, <1>2, <1>3, <1>5, <1>6, <1>7, <1>8, <1>9, <1>10, <1>11 DEF Main

-----------------------------------------------------------------------------
(* So do the steps of the worker.                                          *)

\* mode changes only when the disk service dies.
LEMMA FailsMode ==
  ASSUME NEW left, Fails(left)
  PROVE mode' \in {mode, "nostore"} /\ medium' = medium /\ (mode = "nostore" => pend' = pend)
        /\ (mode # "nostore" => pend' \in left)
  BY DEF Fails

\* A step of a transaction.
LEMMA TxStep ==
  ASSUME HandBase, worker \in TxAt, worker' \in TxAt \cup Ending, mode' \in {mode, "nostore"},
         UNCHANGED <<group, mainVars, made>>, tx' = tx \/ \E a : tx' = [tx EXCEPT !.at = a]
  PROVE HandBase' /\ tx'.kind = tx.kind
  <1>1. /\ tx'.kind = tx.kind
        /\ tx' = [kind |-> tx'.kind, next |-> tx'.next, detach |-> tx'.detach, attach |-> tx'.attach,
                  at |-> tx'.at]
    <2>1. tx = [kind |-> tx.kind, next |-> tx.next, detach |-> tx.detach, attach |-> tx.attach,
                at |-> tx.at]
      BY DEF HandBase, HandType
    <2>2. tx = [tx EXCEPT !.at = tx.at]
      BY <2>1
    <2>3. PICK a : tx' = [tx EXCEPT !.at = a]
      BY <2>2
    <2>4. tx' = [kind |-> tx.kind, next |-> tx.next, detach |-> tx.detach, attach |-> tx.attach, at |-> a]
      BY <2>1, <2>3
    <2> QED
      BY <2>4
  <1>2. HandType'
    BY <1>1 DEF HandBase, HandType, mainVars
  <1>3. mode # "damaged" /\ mode # "starting"
    BY DEF HandBase, ModeOK, TxAt, Formatting
  <1>4. WorkerOK' /\ ModeOK'
    BY <1>1, <1>3 DEF HandBase, WorkerOK, ModeOK, mainVars, Serving, TxAt, Ending, Formatting
  <1>5. CellOK' /\ OwnOK'
    BY <1>1 DEF HandBase, CellOK, OwnOK, mainVars, TxAt, Ending
  <1> QED
    BY <1>1, <1>2, <1>4, <1>5 DEF HandBase

\* The end of a job.
LEMMA EndStep ==
  ASSUME HandBase, worker \in {"job"} \cup Ending, worker' = "done", mode' \in {mode, "nostore"},
         NEW ok \in BOOLEAN, NEW k \in Nat, Result(ok, k),
         group' \in GroupType, group'.owner = Nobody <=> group' = NoGroup,
         tx' = NoTx, made' \in Nat, fed' \in BOOLEAN, UNCHANGED <<quietVars, cancel>>
  PROVE /\ HandBase' /\ job'.owner = job.owner /\ job'.number = k /\ job'.state = "RUNNING"
        /\ job'.kind = (IF job.kind = "Begin" THEN "Begin" ELSE "other")
        /\ job'.ok = (ok /\ job.kind = "Begin")
  <1>1. /\ job'.state = "RUNNING" /\ job'.kind = (IF job.kind = "Begin" THEN "Begin" ELSE "other")
        /\ job'.owner = job.owner /\ job'.number = k /\ job'.ok = (ok /\ job.kind = "Begin")
    BY DEF Result, NoJob
  <1>2. job' \in JobType
    <2>1. job.owner \in Sessions \cup {Nobody} /\ (ok /\ job.kind = "Begin") \in BOOLEAN
      BY DEF HandBase, HandType, JobType
    <2> QED
      BY <2>1 DEF Result, NoJob, JobType
  <1>3. mode # "damaged" /\ mode # "starting"
    BY DEF HandBase, ModeOK, Ending, Formatting
  <1>4. job.owner \in Sessions /\ job.state = "RUNNING"
    BY Blanks DEF HandBase, WorkerOK, CellOK, Ending, TxAt
  <1>5. HandType'
    BY <1>2 DEF HandBase, HandType, quietVars, NoTx
  <1>6. WorkerOK' /\ ModeOK'
    BY <1>1, <1>3 DEF HandBase, WorkerOK, ModeOK, Serving, TxAt, Ending, Formatting
  <1>7. CellOK' /\ OwnOK'
    BY <1>1, <1>4, Blanks DEF HandBase, CellOK, OwnOK, quietVars, TxAt, Ending, Changing
  <1> QED
    BY <1>1, <1>5, <1>6, <1>7 DEF HandBase

\* A job becomes a transaction.
LEMMA StartStep ==
  ASSUME HandBase, worker = "job", NEW kind, NEW next, NEW go, NEW come, Transacts(kind, next, go, come),
         job.kind \in {"Commit"} \cup Changing, kind = IF job.kind = "Commit" THEN "Install" ELSE job.kind,
         job' = job, mode' = mode, made' \in Nat, fed' \in BOOLEAN,
         group' \in GroupType, group'.owner = group.owner, group'.open = NoReceipt,
         group = NoGroup => group' = group, group # NoGroup => job.kind = "Commit"
  PROVE /\ HandBase' /\ tx'.kind = kind /\ tx'.next = next /\ tx'.detach = go /\ tx'.attach = come
        /\ worker' = "f1"
  <1>1. /\ tx'.kind = kind /\ tx'.next = next /\ tx'.detach = go /\ tx'.attach = come
        /\ tx' = [kind |-> tx'.kind, next |-> tx'.next, detach |-> tx'.detach, attach |-> tx'.attach,
                  at |-> tx'.at]
    BY DEF Transacts, NewTx
  <1>2. worker' = "f1" /\ UNCHANGED <<quietVars, cancel>>
    BY DEF Transacts
  <1>3. mode # "damaged" /\ mode # "starting"
    BY DEF HandBase, ModeOK, Ending, Formatting
  <1>4. HandType'
    BY <1>1, <1>2 DEF HandBase, HandType, quietVars
  <1>5. WorkerOK' /\ ModeOK'
    BY <1>1, <1>2, <1>3 DEF HandBase, WorkerOK, ModeOK, Serving, TxAt, Ending, Formatting
  <1>6. CellOK' /\ OwnOK'
    BY <1>1, <1>2, Blanks DEF HandBase, CellOK, OwnOK, quietVars, TxAt, Ending, Changing
  <1> QED
    BY <1>1, <1>2, <1>4, <1>5, <1>6 DEF HandBase

\* The group goes, or stays.
LEMMA GroupGoes ==
  ASSUME HandBase, drop_group \/ KeepGroup
  PROVE group' \in GroupType /\ (group'.owner = Nobody <=> group' = NoGroup) /\ fed' \in BOOLEAN
  BY Blanks DEF HandBase, HandType, OwnOK, drop_group, KeepGroup

LEMMA TransactHand ==
  ASSUME HandBase, transact, UNCHANGED <<group, mainVars>>
  PROVE HandBase' /\ worker \in TxAt /\ worker' \in TxAt \cup Ending /\ tx'.kind = tx.kind
  <1>1. worker \in TxAt /\ worker' \in TxAt \cup Ending
    BY DEF transact, DataFlushed, EarlyIo, NoSpace, write_table, TableFlushed, attach, AttachRefused,
           write_super, LastIo, Committed, StepTx, TxAt, Ending
  <1>2. mode' \in {mode, "nostore"} /\ made' = made
    BY FailsMode DEF transact, DataFlushed, EarlyIo, NoSpace, write_table, TableFlushed, attach, AttachRefused,
           write_super, LastIo, Committed, Flush, Write, WriteFails, FlushFails, boundVars
  <1>3. tx' = tx \/ \E a : tx' = [tx EXCEPT !.at = a]
    BY DEF transact, DataFlushed, EarlyIo, NoSpace, write_table, TableFlushed, attach, AttachRefused,
           write_super, LastIo, Committed
  <1> QED
    BY <1>1, <1>2, <1>3, TxStep

\* The start and the format.
LEMMA StartHand ==
  ASSUME HandBase, open \/ format \/ format_done, UNCHANGED <<group, mainVars>>
  PROVE HandBase'
  <1>1. worker \in {"off"} \cup Formatting
    BY DEF open, format, format_done, FormatStep, FormatFails, Formatting
  <1>2. Quiet /\ made' = made /\ tx' = tx
    BY <1>1 DEF HandBase, ModeOK, open, format, format_done, FormatStep, FormatFails, boundVars
  <1>3. /\ worker' \in Formatting \cup {"serve"}
        /\ worker' = "serve" => mode' \in {"ok", "damaged", "nostore"}
        /\ mode' = "starting" <=> worker' \in Formatting \ {"stopped"}
        /\ mode' = "ok" => worker' = "serve"
        /\ mode' = "damaged" => worker' = "serve"
        /\ mode' \in {"starting", "ok", "damaged", "nostore"}
    <2>1. CASE open
      BY <2>1 DEF open, Opens, Formatting
    <2>2. CASE format_done
      BY <2>2 DEF format_done, Formatting
    <2>3. CASE format
      <3>1. worker # "stopped" => mode = "starting"
        BY <1>1 DEF HandBase, ModeOK
      <3> QED
        BY <2>3, <3>1 DEF format, FormatStep, FormatFails, Formatting, Write, Flush
    <2> QED
      BY <2>1, <2>2, <2>3
  <1>4. HandType'
    BY <1>2 DEF HandBase, HandType, mainVars
  <1>5. WorkerOK'
    BY <1>2, <1>3, Blanks DEF WorkerOK, Quiet, mainVars, Formatting, Serving, TxAt, Ending
  <1>6. ModeOK'
    BY <1>2, <1>3 DEF ModeOK, Quiet, mainVars, Formatting
  <1>7. CellOK' /\ OwnOK'
    BY <1>2, <1>3, Blanks DEF CellOK, OwnOK, Quiet, mainVars, Formatting, TxAt, Ending, Changing
  <1> QED
    BY <1>4, <1>5, <1>6, <1>7 DEF HandBase

\* The worker between its jobs.
LEMMA ServeHand ==
  ASSUME HandBase, serve_cancel \/ run_job \/ pump_feed \/ pump_fails \/ job_done
  PROVE HandBase'
  <1>1. CASE serve_cancel
    <2>1. group' \in GroupType /\ (group'.owner = Nobody <=> group' = NoGroup) /\ fed' \in BOOLEAN /\ group' = NoGroup
      BY <1>1, GroupGoes DEF serve_cancel, drop_group
    <2>2. worker' = worker /\ tx' = tx /\ mode' = mode /\ job' = job /\ worker = "serve" /\ cancel' \in BOOLEAN
          /\ UNCHANGED quietVars /\ made' = made
      BY <1>1 DEF serve_cancel, boundVars
    <2>3. HandType'
      BY <2>1, <2>2 DEF HandBase, HandType, quietVars
    <2>4. WorkerOK' /\ ModeOK'
      BY <2>1, <2>2 DEF HandBase, WorkerOK, ModeOK, Quiet, quietVars
    <2>5. CellOK' /\ OwnOK'
      BY <2>1, <2>2, Blanks DEF HandBase, CellOK, OwnOK, quietVars, TxAt, Ending
    <2> QED
      BY <2>3, <2>4, <2>5 DEF HandBase
  <1>2. CASE run_job
    <2>1. job \in JobType /\ job' = [job EXCEPT !.state = "RUNNING"] /\ job.state = "PENDING"
      BY <1>2 DEF run_job, HandBase, HandType
    <2>2. /\ job' \in JobType /\ job'.state = "RUNNING" /\ job'.kind = job.kind /\ job'.owner = job.owner
          /\ job'.name = job.name
      BY <2>1 DEF JobType
    <2>3. /\ worker = "serve" /\ worker' = "job" /\ UNCHANGED <<tx, mode, quietVars, group, fed, cancel>>
          /\ made' = made
      BY <1>2 DEF run_job, boundVars
    <2>4. mode # "damaged" /\ mode # "starting"
      BY <2>1, <2>3, Blanks DEF HandBase, ModeOK, Quiet, Formatting
    <2>5. HandType'
      BY <2>2, <2>3 DEF HandBase, HandType, quietVars
    <2>6. WorkerOK' /\ ModeOK'
      BY <2>2, <2>3, <2>4 DEF HandBase, WorkerOK, ModeOK, Serving, TxAt, Ending, Formatting
    <2>7. CellOK' /\ OwnOK'
      BY <2>1, <2>2, <2>3, Blanks DEF HandBase, CellOK, OwnOK, quietVars, TxAt, Ending
    <2> QED
      BY <2>5, <2>6, <2>7 DEF HandBase
  <1>3. CASE pump_feed \/ pump_fails
    <2>1. /\ Pumps /\ UNCHANGED <<worker, tx, mainVars>> /\ made' = made
          /\ group' = [group EXCEPT !.open.written = TRUE] \/ group' = [group EXCEPT !.open.failed = TRUE]
          /\ mode' \in {mode, "nostore"}
      BY <1>3, FailsMode DEF pump_feed, pump_fails, Write, WriteFails
    <2>2. group \in GroupType /\ group.open \in Receipt
      BY DEF HandBase, HandType, GroupType
    <2>3. group' \in GroupType /\ group'.owner = group.owner
      BY <2>1, <2>2 DEF GroupType, Receipt
    <2>4. group.open # NoReceipt /\ worker \in {"serve", "job"} /\ (worker = "job" => job.kind = "Commit")
      BY <2>1 DEF Pumps
    <2>5. group.owner # Nobody
      BY <2>4, Blanks DEF HandBase, OwnOK
    <2>6. mode # "damaged" /\ mode # "starting"
      BY <2>4, <2>5, Blanks DEF HandBase, ModeOK, Quiet, Formatting
    <2>7. HandType'
      BY <2>1, <2>3 DEF HandBase, HandType, mainVars
    <2>8. WorkerOK' /\ ModeOK'
      BY <2>1, <2>4, <2>6 DEF HandBase, WorkerOK, ModeOK, mainVars, Formatting
    <2>9. CellOK' /\ OwnOK'
      BY <2>1, <2>3, <2>4, <2>5, Blanks DEF HandBase, CellOK, OwnOK, mainVars, TxAt, Ending, Changing
    <2> QED
      BY <2>7, <2>8, <2>9 DEF HandBase
  <1>4. CASE job_done
    <2>1. job \in JobType /\ job' = [job EXCEPT !.state = "DONE"]
      BY <1>4 DEF job_done, HandBase, HandType
    <2>2. /\ job' \in JobType /\ job'.state = "DONE" /\ job'.kind = job.kind /\ job'.owner = job.owner
      BY <2>1 DEF JobType
    <2>3. /\ worker = "done" /\ worker' = "serve" /\ UNCHANGED <<tx, mode, quietVars, group, fed, cancel>>
          /\ made' = made
      BY <1>4 DEF job_done, boundVars
    <2>4. mode # "damaged" /\ mode # "starting" /\ job.state = "RUNNING" /\ job.owner \in Sessions
      BY <2>3, Blanks DEF HandBase, ModeOK, WorkerOK, CellOK, Formatting
    <2>5. HandType'
      BY <2>2, <2>3 DEF HandBase, HandType, quietVars
    <2>6. WorkerOK' /\ ModeOK'
      BY <2>2, <2>3, <2>4 DEF HandBase, WorkerOK, ModeOK, Serving, TxAt, Ending, Formatting
    <2>7. CellOK' /\ OwnOK'
      BY <2>1, <2>2, <2>3, <2>4, Blanks DEF HandBase, CellOK, OwnOK, quietVars, TxAt, Ending
    <2> QED
      BY <2>5, <2>6, <2>7 DEF HandBase
  <1> QED
    BY <1>1, <1>2, <1>3, <1>4

\* The names of the jobs that end at once.
Refusals ==
    begin_invalid \/ begin_refused \/ commit_invalid \/ commit_refused \/ commit_stage_fails \/ change_refused \/ blob_fails

\* What a refusal does.
LEMMA RefusalIs ==
  ASSUME HandBase, Refusals
  PROVE /\ worker = "job" /\ worker' = "done" /\ Result(FALSE, 0) /\ (drop_group \/ KeepGroup)
        /\ mode' \in {mode, "nostore"} /\ tx' = tx /\ made' \in Nat
        /\ UNCHANGED <<stateVars, layers, stuck, listed, entries, out, crashes, ghostVars, quietVars, cancel>>
  <1>1. made \in Nat
    BY DEF HandBase, HandType
  <1>2. CASE begin_refused
    BY <1>1, <1>2 DEF begin_refused, Ends, Job, boundVars
  <1>8. CASE begin_invalid
    BY <1>1, <1>8 DEF begin_invalid, Ends, Job, boundVars
  <1>3. CASE commit_invalid
    BY <1>1, <1>3 DEF commit_invalid, Ends, Job, boundVars
  <1>4. CASE commit_refused
    BY <1>1, <1>4 DEF commit_refused, CanCommit, Ends, Job, boundVars
  <1>5. CASE commit_stage_fails
    BY <1>1, <1>5, FailsMode DEF commit_stage_fails, Passes, CanCommit, Ends, Job, FlushFails
  <1>6. CASE change_refused
    BY <1>1, <1>6 DEF change_refused, Changes, Ends, boundVars
  <1>7. CASE blob_fails
    <2>1. made' \in Nat
      BY <1>1, <1>7 DEF blob_fails
    <2>2. mode' \in {mode, "nostore"}
      BY <1>7, FailsMode DEF blob_fails, WriteFails
    <2> QED
      BY <1>7, <2>1, <2>2 DEF blob_fails, Changes, Ends
  <1> QED
    BY <1>2, <1>3, <1>4, <1>5, <1>6, <1>7, <1>8 DEF Refusals

\* The job's worker has no transaction yet.
LEMMA AtJob ==
  ASSUME HandBase, worker = "job"
  PROVE tx = NoTx /\ job.owner \in Sessions /\ job.state = "RUNNING" /\ mode # "damaged" /\ mode # "starting"
  BY Blanks DEF HandBase, WorkerOK, ModeOK, CellOK, Serving, Formatting

LEMMA RefusalHand ==
  ASSUME HandBase, Refusals
  PROVE HandBase'
  BY RefusalIs, AtJob, GroupGoes, EndStep

\* A record and a receipt of a package.
LEMMA NewRec ==
  ASSUME NEW e \in Rec, NEW n \in Names \cup {"", "settings", "revoked"}, NEW x \in Blocks, NEW d \in Nat
  PROVE /\ [e EXCEPT !.name = n, !.ext = x, !.data = d] \in Rec
        /\ [e EXCEPT !.name = n, !.ext = x, !.data = d].name = n
        /\ [e EXCEPT !.name = n, !.ext = x, !.data = d].ext = x
        /\ [e EXCEPT !.name = n, !.ext = x, !.data = d].data = d
  BY DEF Rec

LEMMA NewReceipt ==
  ASSUME NEW e \in Receipt, NEW r \in Rec, NEW p \in Nat, NEW d \in Nat
  PROVE /\ [e EXCEPT !.number = d, !.place = p, !.rec = r] \in Receipt
        /\ [e EXCEPT !.number = d, !.place = p, !.rec = r].number = d
        /\ [e EXCEPT !.number = d, !.place = p, !.rec = r].place = p
        /\ [e EXCEPT !.number = d, !.place = p, !.rec = r].rec = r
        /\ [e EXCEPT !.number = d, !.place = p, !.rec = r].written = e.written
  BY DEF Receipt

\* A package is begun.
LEMMA BeginIs ==
  ASSUME HandBase, begin
  PROVE /\ worker = "job" /\ worker' = "done" /\ Result(TRUE, made + 1) /\ made' = made + 1 /\ made \in Nat
        /\ job.kind = "Begin" /\ job.name \in Names
        /\ Min(FreePlaces) \in FreePlaces /\ BeginExtent \in Extents
        /\ group' \in GroupType /\ group'.owner = job.owner /\ group'.staged = group.staged
        /\ group'.open = [NoReceipt EXCEPT !.number = made + 1, !.place = Min(FreePlaces), !.rec =
              [EMPTY EXCEPT !.name = job.name, !.ext = BeginExtent, !.data = made + 1]]
        /\ group.open = NoReceipt
        /\ fed' = FALSE /\ tx' = tx /\ mode' = mode
        /\ UNCHANGED <<diskVars, stateVars, layers, stuck, listed, entries, out, ghostVars, quietVars, cancel>>
  <1>1. /\ worker = "job" /\ worker' = "done" /\ Result(TRUE, made + 1) /\ made' = made + 1 /\ made \in Nat
        /\ job.kind = "Begin" /\ job.name \in Names /\ FreePlaces # {} /\ BeginExtent # 0
        /\ group.open = NoReceipt /\ fed' = FALSE /\ tx' = tx /\ mode' = mode
        /\ UNCHANGED <<diskVars, stateVars, layers, stuck, listed, entries, out, ghostVars, quietVars, cancel>>
    BY DEF begin, Job, CanBegin, HandBase, HandType, CellOK
  <1>2. Min(FreePlaces) \in FreePlaces /\ BeginExtent \in Extents
    BY <1>1, FreePlace, FreeExtent DEF BeginExtent, extent_for
  <1>3. Min(FreePlaces) \in Nat /\ BeginExtent \in Blocks
    BY <1>2, Sizes DEF FreePlaces
  <1>0. made + 1 \in Nat
    BY <1>1
  <1> DEFINE r == [EMPTY EXCEPT !.name = job.name, !.ext = BeginExtent, !.data = made + 1]
  <1> DEFINE o == [NoReceipt EXCEPT !.number = made + 1, !.place = Min(FreePlaces), !.rec = r]
  <1>4. r \in Rec
    <2>1. job.name \in Names \cup {"", "settings", "revoked"} /\ BeginExtent \in Blocks
      BY <1>1, <1>3
    <2> QED
      BY <1>0, <2>1, Blanks, NewRec
  <1> HIDE DEF r
  <1>5. o \in Receipt
    BY <1>0, <1>1, <1>3, <1>4, Blanks, NewReceipt
  <1>6. group' = [group EXCEPT !.owner = job.owner, !.open = o]
    BY DEF begin, r
  <1> HIDE DEF o
  <1>7. group \in GroupType /\ job.owner \in Sessions
    BY <1>1, AtJob DEF HandBase, HandType
  <1>8. group' \in GroupType /\ group'.owner = job.owner /\ group'.staged = group.staged /\ group'.open = o
    BY <1>5, <1>6, <1>7 DEF GroupType
  <1> QED
    BY <1>1, <1>2, <1>8 DEF o, r

LEMMA BeginHand ==
  ASSUME HandBase, begin
  PROVE HandBase'
  <1>1. job.owner \in Sessions /\ tx' = NoTx
    BY BeginIs, AtJob
  <1>2. group'.owner = Nobody <=> group' = NoGroup
    BY <1>1, BeginIs, Blanks, PkgdAssumption
  <1>3. made' \in Nat /\ made + 1 \in Nat
    BY BeginIs
  <1> QED
    BY <1>1, <1>2, <1>3, BeginIs, EndStep

\* The group with its open package staged.
LEMMA StageIs ==
  ASSUME HandBase, Passes
  PROVE /\ Stage \in Seq(Staging) /\ [group EXCEPT !.staged = Stage, !.open = NoReceipt] \in GroupType
        /\ [group EXCEPT !.staged = Stage, !.open = NoReceipt].owner = group.owner
        /\ [group EXCEPT !.staged = Stage, !.open = NoReceipt].staged = Stage
        /\ [group EXCEPT !.staged = Stage, !.open = NoReceipt].open = NoReceipt
        /\ group.owner \in Sessions /\ group # NoGroup /\ worker = "job" /\ job.kind = "Commit"
        /\ group.open # NoReceipt /\ group.open \in Receipt
  <1>1. worker = "job" /\ group.owner = job.owner /\ job.kind = "Commit" /\ group.open.written
    BY DEF Passes, CanCommit, Job
  <1>2. group \in GroupType /\ group.open \in Receipt /\ group.staged \in Seq(Staging)
    BY DEF HandBase, HandType, GroupType
  <1>3. [place |-> group.open.place, rec |-> group.open.rec] \in Staging
    BY <1>2 DEF Receipt, Staging
  <1>4. Stage \in Seq(Staging)
    BY <1>2, <1>3 DEF Stage
  <1>5. /\ [group EXCEPT !.staged = Stage, !.open = NoReceipt] \in GroupType
        /\ [group EXCEPT !.staged = Stage, !.open = NoReceipt].owner = group.owner
        /\ [group EXCEPT !.staged = Stage, !.open = NoReceipt].staged = Stage
        /\ [group EXCEPT !.staged = Stage, !.open = NoReceipt].open = NoReceipt
    BY <1>2, <1>4, Blanks DEF GroupType
  <1>6. group.owner \in Sessions /\ group # NoGroup /\ group.open # NoReceipt
    BY <1>1, AtJob, Blanks, PkgdAssumption
  <1> QED
    BY <1>1, <1>2, <1>4, <1>5, <1>6

LEMMA StageHand ==
  ASSUME HandBase, commit_stage
  PROVE HandBase'
  <1>1. /\ Passes /\ worker' = "done" /\ Result(TRUE, 0) /\ mode' = mode /\ made' = made
        /\ group' = [group EXCEPT !.staged = Stage, !.open = NoReceipt]
        /\ fed' = FALSE /\ tx' = tx /\ UNCHANGED <<quietVars, cancel>>
    BY DEF commit_stage, Ends, Flush
  <1>2. worker = "job" /\ tx' = NoTx /\ made' \in Nat
    BY <1>1, StageIs, AtJob DEF HandBase, HandType
  <1>3. group' \in GroupType /\ (group'.owner = Nobody <=> group' = NoGroup)
    BY <1>1, StageIs, Blanks, PkgdAssumption
  <1> QED
    BY <1>1, <1>2, <1>3, EndStep

\* A group is committed.
LEMMA CommitHand ==
  ASSUME HandBase, commit_group
  PROVE /\ HandBase' /\ worker' = "f1" /\ tx'.kind = "Install" /\ tx'.next = GroupTable(Stage)
        /\ tx'.detach = UNION {Find(table, Stage[k].rec.name) : k \in DOMAIN Stage}
        /\ tx'.attach = {Stage[k].place : k \in DOMAIN Stage}
        /\ group'.staged = Stage /\ group'.open = NoReceipt
  <1>1. /\ Passes /\ job' = job /\ mode' = mode /\ made' = made /\ fed' = FALSE
        /\ group' = [group EXCEPT !.staged = Stage, !.open = NoReceipt]
        /\ Transacts("Install", GroupTable(Stage),
                 UNION {Find(table, Stage[k].rec.name) : k \in DOMAIN Stage},
                 {Stage[k].place : k \in DOMAIN Stage})
    BY DEF commit_group
  <1>2. /\ group' \in GroupType /\ group'.owner = group.owner /\ group'.open = NoReceipt /\ group # NoGroup
        /\ worker = "job" /\ job.kind = "Commit" /\ group'.staged = Stage
    BY <1>1, StageIs
  <1>3. made' \in Nat /\ fed' \in BOOLEAN
    BY <1>1 DEF HandBase, HandType
  <1> QED
    BY <1>1, <1>2, <1>3, StartStep

\* The other changes.
LEMMA ChangeHand ==
  ASSUME HandBase, NEW kind \in Changing, NEW next, NEW go, NEW come, Changes, job.kind = kind,
         Transacts(kind, next, go, come), UNCHANGED <<group, fed, job, mode>>, made' \in Nat
  PROVE /\ HandBase' /\ tx'.kind = kind /\ tx'.next = next /\ tx'.detach = go /\ tx'.attach = come
        /\ worker' = "f1" /\ group = NoGroup
  <1>1. worker = "job" /\ group = NoGroup /\ group \in GroupType /\ fed \in BOOLEAN /\ kind # "Commit"
    BY DEF Changes, HandBase, OwnOK, Changing, HandType
  <1>2. kind = IF job.kind = "Commit" THEN "Install" ELSE job.kind
    BY <1>1
  <1> QED
    BY <1>1, <1>2, Blanks, StartStep

Change == remove \/ serial_set \/ settings_set \/ revoked_set

LEMMA ChangesHand ==
  ASSUME HandBase, Change
  PROVE HandBase' /\ worker' = "f1" /\ group = NoGroup /\ group' = group /\ worker = "job"
  <1>0. made \in Nat /\ (Changes => worker = "job") /\ "Remove" \in Changing /\ "Serial" \in Changing
        /\ "Settings" \in Changing /\ "Revoked" \in Changing
    BY DEF HandBase, HandType, Changes, Changing
  <1>1. CASE remove
    <2>1. Changes /\ job.kind = "Remove" /\ UNCHANGED <<group, fed, job, mode>> /\ made' \in Nat
      BY <1>0, <1>1 DEF remove, KeepGroup
    <2>2. PICK next, go : Transacts("Remove", next, go, {})
      BY <1>1 DEF remove
    <2> QED
      BY <1>0, <2>1, <2>2, ChangeHand
  <1>2. CASE serial_set
    <2>1. Changes /\ job.kind = "Serial" /\ UNCHANGED <<group, fed, job, mode>> /\ made' \in Nat
      BY <1>0, <1>2 DEF serial_set, KeepGroup
    <2>2. PICK next : Transacts("Serial", next, {}, {})
      BY <1>2 DEF serial_set
    <2> QED
      BY <1>0, <2>1, <2>2, ChangeHand
  <1>3. CASE settings_set
    <2>1. Changes /\ job.kind = "Settings" /\ UNCHANGED <<group, fed, job, mode>> /\ made' \in Nat
      BY <1>0, <1>3 DEF settings_set, write_blob, Write
    <2>2. PICK next, go, come : Transacts("Settings", next, go, come)
      BY <1>3 DEF settings_set
    <2> QED
      BY <1>0, <2>1, <2>2, ChangeHand
  <1>4. CASE revoked_set
    <2>1. Changes /\ job.kind = "Revoked" /\ UNCHANGED <<group, fed, job, mode>> /\ made' \in Nat
      BY <1>0, <1>4 DEF revoked_set, write_blob, Write, KeepGroup
    <2>2. PICK next, go : Transacts("Revoked", next, go, {})
      BY <1>4 DEF revoked_set
    <2> QED
      BY <1>0, <2>1, <2>2, ChangeHand
  <1> QED
    BY <1>1, <1>2, <1>3, <1>4 DEF Change

\* The job after its transaction.
LEMMA AfterHand ==
  ASSUME HandBase, after_refused \/ after_made
  PROVE HandBase' /\ job'.kind = "other" /\ job'.state = "RUNNING" /\ group' = NoGroup
  <1>1. CASE after_refused
    <2>1. /\ worker = "refused" /\ worker' = "done" /\ Result(FALSE, 0) /\ mode' = mode /\ made' = made
          /\ tx' = NoTx /\ UNCHANGED <<quietVars, cancel>>
          /\ (IF tx.kind = "Install" THEN drop_group ELSE UNCHANGED <<group, fed>>)
      BY <1>1 DEF after_refused, Ends, boundVars
    <2>2. job.kind # "Begin" /\ made' \in Nat /\ (tx.kind # "Install" => group = NoGroup)
      BY <2>1 DEF HandBase, HandType, WorkerOK, OwnOK, Ending, Changing
    <2>3. group' = NoGroup /\ fed' \in BOOLEAN
      BY <2>1, <2>2 DEF drop_group, HandBase, HandType
    <2>4. HandBase' /\ job'.state = "RUNNING" /\ job'.kind = (IF job.kind = "Begin" THEN "Begin" ELSE "other")
      <3>1. worker \in {"job"} \cup Ending
        BY <2>1 DEF Ending
      <3>2. group' \in GroupType /\ (group'.owner = Nobody <=> group' = NoGroup)
        BY <2>3, Blanks
      <3> QED
        BY <2>1, <2>2, <2>3, <3>1, <3>2, EndStep
    <2> QED
      BY <2>2, <2>3, <2>4
  <1>2. CASE after_made
    <2>1. /\ worker = "made" /\ worker' = "done" /\ Result(TRUE, 0) /\ mode' = mode /\ made' = made
          /\ tx' = NoTx /\ UNCHANGED <<quietVars, cancel>> /\ group' = NoGroup /\ fed' = FALSE
      BY <1>2 DEF after_made, publish, Ends, boundVars
    <2>2. job.kind # "Begin" /\ made' \in Nat
      BY <2>1 DEF HandBase, HandType, WorkerOK, Ending, Changing
    <2>4. HandBase' /\ job'.state = "RUNNING" /\ job'.kind = (IF job.kind = "Begin" THEN "Begin" ELSE "other")
      <3>1. worker \in {"job"} \cup Ending
        BY <2>1 DEF Ending
      <3>2. group' \in GroupType /\ (group'.owner = Nobody <=> group' = NoGroup) /\ fed' \in BOOLEAN
        BY <2>1, Blanks
      <3> QED
        BY <2>1, <2>2, <3>1, <3>2, EndStep
    <2> QED
      BY <2>1, <2>2, <2>4
  <1> QED
    BY <1>1, <1>2

\* The machine starts anew.
LEMMA CrashHand ==
  ASSUME HandBase, Crash
  PROVE HandBase'
  <1>1. /\ worker' = "off" /\ mode' = "starting" /\ Quiet' /\ fed' = FALSE /\ cancel' = FALSE
        /\ alive' = Sessions /\ made' = made
    BY DEF Crash, Quiet
  <1>2. HandType'
    BY <1>1, Blanks DEF HandBase, HandType, Quiet, NoTx
  <1>3. WorkerOK' /\ ModeOK' /\ CellOK' /\ OwnOK'
    BY <1>1, Blanks DEF WorkerOK, ModeOK, CellOK, OwnOK, Quiet, Serving, TxAt, Ending, Formatting, Changing
  <1> QED
    BY <1>2, <1>3 DEF HandBase

LEMMA InitHand == Init => HandBase
  <1> SUFFICES ASSUME Init PROVE HandBase
    OBVIOUS
  <1>1. /\ worker = "off" /\ mode = "starting" /\ Quiet /\ fed = FALSE /\ cancel = FALSE
        /\ alive = Sessions /\ made = 0
    BY DEF Init, Quiet
  <1>2. HandType
    BY <1>1, Blanks DEF HandType, Quiet, NoTx
  <1>3. WorkerOK /\ ModeOK /\ CellOK /\ OwnOK
    BY <1>1, Blanks DEF WorkerOK, ModeOK, CellOK, OwnOK, Quiet, Serving, TxAt, Ending, Formatting, Changing
  <1> QED
    BY <1>2, <1>3 DEF HandBase

\* The steps of the worker, by what they do.
LEMMA WorkerSteps ==
  ASSUME Worker
  PROVE \/ (open \/ format \/ format_done) /\ UNCHANGED <<group, mainVars>>
        \/ transact /\ UNCHANGED <<group, mainVars>>
        \/ serve_cancel \/ run_job \/ pump_feed \/ pump_fails \/ job_done
        \/ Refusals \/ begin \/ commit_stage \/ commit_group \/ Change \/ after_refused \/ after_made
  BY DEF Worker, Refusals, Change

\* Every step keeps them in step.
LEMMA HandStep == HandBase /\ [Next]_vars => HandBase'
  <1> SUFFICES ASSUME HandBase, [Next]_vars PROVE HandBase'
    OBVIOUS
  <1>1. CASE UNCHANGED vars
    BY <1>1 DEF vars, mainVars, boundVars, HandBase, HandType, WorkerOK, ModeOK, CellOK, OwnOK, Quiet
  <1>2. CASE Main
    BY <1>2, MainHand
  <1>3. CASE Crash
    BY <1>3, CrashHand
  <1>4. CASE Worker
    BY <1>4, WorkerSteps, StartHand, TransactHand, ServeHand, RefusalHand, BeginHand, StageHand, CommitHand,
       ChangesHand, AfterHand
  <1> QED
    BY <1>1, <1>2, <1>3, <1>4 DEF Next

-----------------------------------------------------------------------------
(* The hand-off between the two threads.                                   *)

\* The session that waits is there, and the job is its own.
Awaited == pending # Nobody => pending \in alive /\ job.owner = pending

\* The package of a receipt is open and nothing is about to drop it, or a hasty
\* session dropped it.
Matches(owner, number) ==
    \/ hasty /\ (cancel \/ group = NoGroup)
    \/ ~cancel /\ group.owner = owner /\ group.open.number = number

\* The receipt that is fed is the open one, and no job takes it away.
Feeding ==
    rx # NoRx =>
        /\ rx.owner \in alive
        /\ Matches(rx.owner, rx.number)
        /\ job.kind # "Commit"
        /\ job.kind = "Begin" => job.state = "DONE" /\ pending = rx.owner
        /\ hasty \/ job.kind \in {"none", "Begin"}

\* A begin finds the store free; the package it begins is not dropped while its
\* session waits, unless the session is hasty.
Beginning ==
    job.kind = "Begin" =>
        /\ group.owner \in {Nobody, job.owner}
        /\ job.state \in {"RUNNING", "DONE"} /\ pending # Nobody => hasty \/ ~cancel
        /\ job.ok /\ pending # Nobody => Matches(job.owner, job.number)
        /\ (worker = "done" \/ job.state = "DONE") /\ ~job.ok => group.open = NoReceipt
        /\ job.ok => worker = "done" \/ job.state = "DONE"
        /\ job.state = "PENDING" => cancel \/ group.open = NoReceipt
        /\ worker = "job" => group.open = NoReceipt

\* A commit finds its own receipt, or a group that was dropped or is about to be.
Committing ==
    job.kind = "Commit" /\ (job.state = "PENDING" \/ worker = "job") =>
        \/ job.state = "PENDING" /\ cancel
        \/ group = NoGroup
        \/ group.owner = job.owner /\ group.open.number = job.number

\* An open receipt is fed, about to be fed, committed or about to be dropped.
Opened ==
    group.open # NoReceipt =>
        cancel \/ rx # NoRx \/ (job.kind = "Begin" /\ job.ok) \/ job.kind = "Commit"

\* The group of a session that went is about to be dropped, or its begin is done
\* and will be found without its session.
Orphaned ==
    group.owner \in Sessions \ alive =>
        cancel \/ (job.kind = "Begin" /\ job.ok /\ pending = Nobody)

HandInductive == Awaited /\ Feeding /\ Beginning /\ Committing /\ Opened /\ Orphaned

\* The facts of HandBase these proofs use.
LEMMA HandFacts ==
  ASSUME HandBase
  PROVE /\ job.state \in {"IDLE", "PENDING", "RUNNING", "DONE"} /\ cancel \in BOOLEAN /\ job.ok \in BOOLEAN
        /\ job.state = "IDLE" => job = NoJob /\ pending = Nobody
        /\ job.state # "IDLE" => job.owner \in Sessions /\ job.owner # Nobody
        /\ group.owner = Nobody <=> group = NoGroup
        /\ rx # NoRx => rx.owner \in Sessions \cup {Nobody}
        /\ job.state = "DONE" \/ job.state = "PENDING" \/ job.state = "IDLE" =>
             worker \in {"serve", "off"} \cup Formatting
        /\ worker = "job" \/ job.state = "PENDING" => job.kind \in {"Begin", "Commit"} \cup Changing
        /\ worker = "done" \/ job.state = "DONE" => job.kind \in {"Begin", "other"}
        /\ job.kind \in Changing => group = NoGroup
        /\ pending \in Sessions \cup {Nobody} /\ alive \subseteq Sessions
        /\ worker \in {"job", "done"} => job.state = "RUNNING"
        /\ worker \in {"job"} \cup Ending => job.kind \in {"Begin", "Commit"} \cup Changing
        /\ job.kind = "none" => pending = Nobody
  BY PkgdAssumption, Blanks DEF HandBase, HandType, CellOK, OwnOK, WorkerOK, JobType, RxType, Serving, TxAt, Ending, Formatting, Changing

LEMMA MainOff ==
  ASSUME HandBase, HandInductive, Main
  PROVE HandInductive'
  <1>0. /\ UNCHANGED <<worker, group>> /\ Awaited /\ Feeding /\ Beginning /\ Committing /\ Opened /\ Orphaned
    BY DEF Main, HandInductive
  <1>n. /\ NoJob.state = "IDLE" /\ NoJob.kind = "none" /\ NoRx.owner = Nobody /\ NoGroup.open = NoReceipt
        /\ Nobody \notin Sessions
    BY Blanks, PkgdAssumption
  <1>1. ASSUME NEW s \in Sessions, NEW n \in Names, install_begin(s, n) PROVE HandInductive'
    <2>1. /\ s \in alive /\ job = NoJob /\ pending = Nobody /\ rx = NoRx /\ group.owner \in {Nobody, s}
          /\ pending' = s /\ UNCHANGED <<rx, cancel, alive, hasty>>
      BY <1>1, HandFacts DEF install_begin, JobFree, Sends, Give
    <2>2. job'.state = "PENDING" /\ job'.owner = s /\ job'.kind = "Begin" /\ ~job'.ok
      BY <1>1 DEF install_begin, Give, NoJob
    <2>3. worker \notin {"job", "done"}
      BY <1>n, <2>1, HandFacts DEF Formatting
    <2> QED
      BY <1>0, <1>n, <2>1, <2>2, <2>3 DEF HandInductive, Awaited, Matches, Feeding, Beginning, Committing, Opened, Orphaned
  <1>2. ASSUME NEW s \in Sessions, feed(s) PROVE HandInductive'
    BY <1>0, <1>2 DEF feed, HandInductive, Awaited, Matches, Feeding, Beginning, Committing, Opened, Orphaned
  <1>3. ASSUME NEW s \in Sessions, feed_too_long(s) \/ install_cancel(s) PROVE HandInductive'
    <2>1. /\ s \in alive /\ s # Nobody /\ rx' = NoRx /\ cancel' = TRUE /\ UNCHANGED <<job, pending, alive>>
          /\ hasty' = (hasty \/ (job.kind = "Begin" /\ job.state # "PENDING" /\ pending = s))
          /\ (rx # NoRx /\ rx.owner = s) \/ group.owner = s
      BY <1>3, <1>n DEF feed_too_long, install_cancel, DropReceipt, Sends
    <2>2. job.kind = "Begin" /\ job.state # "PENDING" /\ pending # Nobody => hasty'
      BY <1>0, <1>n, <2>1 DEF Awaited, Beginning, Feeding
    <2>3. hasty => hasty'
      BY <2>1
    <2>4. Awaited' /\ Feeding' /\ Committing' /\ Opened' /\ Orphaned'
      BY <1>0, <1>n, <2>1 DEF Awaited, Feeding, Committing, Opened, Orphaned
    <2>5. Beginning'
      <3>1. job.kind = "Begin" /\ job.ok => job.state # "PENDING"
        BY <1>0, HandFacts DEF Beginning
      <3> QED
        BY <1>0, <1>n, <2>1, <2>2, <2>3, <3>1 DEF Beginning, Matches
    <2> QED
      BY <2>4, <2>5 DEF HandInductive
  <1>4. ASSUME NEW s \in Sessions, NEW e \in BOOLEAN, install_commit(s, e) PROVE HandInductive'
    <2>1. /\ s \in alive /\ job = NoJob /\ pending = Nobody /\ rx.owner = s /\ rx # NoRx
          /\ pending' = s /\ rx' = NoRx /\ UNCHANGED <<cancel, alive, hasty>>
      BY <1>4, <1>n, HandFacts DEF install_commit, JobFree, Sends, Give
    <2>2. job'.state = "PENDING" /\ job'.owner = s /\ job'.kind = "Commit" /\ job'.number = rx.number
      BY <1>4 DEF install_commit, Give, NoJob
    <2>3. worker \notin {"job", "done"}
      BY <1>n, <2>1, HandFacts DEF Formatting
    <2> QED
      BY <1>0, <1>n, <2>1, <2>2, <2>3 DEF HandInductive, Awaited, Matches, Feeding, Beginning, Committing, Opened, Orphaned
  <1>5. ASSUME NEW s \in Sessions, NEW j, change(s, j), job'.kind \in Changing PROVE HandInductive'
    <2>1. /\ s \in alive /\ job = NoJob /\ pending = Nobody /\ group = NoGroup /\ group.owner = Nobody
          /\ pending' = s /\ UNCHANGED <<rx, cancel, alive, hasty>>
      BY <1>5, HandFacts DEF change, JobFree, Sends, Give
    <2>2. job'.kind \notin {"Begin", "Commit"}
      BY <1>5 DEF Changing
    <2>3. rx = NoRx \/ hasty
      BY <1>0, <1>n, <2>1, HandFacts DEF Feeding, Matches
    <2>4. job'.owner = s
      BY <1>5 DEF change, Give
    <2> QED
      BY <1>0, <1>n, <2>1, <2>2, <2>3, <2>4 DEF HandInductive, Awaited, Matches, Feeding, Beginning, Committing, Opened, Orphaned
  <1>6. ASSUME NEW s \in Sessions, take(s) PROVE HandInductive'
    BY <1>0, <1>6, <1>n, HandFacts DEF take, Begun, HandInductive, Awaited, Matches, Feeding, Beginning, Committing, Opened, Orphaned
  <1>7. ASSUME settle PROVE HandInductive'
    BY <1>0, <1>7, <1>n, HandFacts DEF settle, Begun, HandInductive, Awaited, Matches, Feeding, Beginning, Committing, Opened, Orphaned
  <1>8. ASSUME settle_orphan PROVE HandInductive'
    BY <1>0, <1>8, <1>n, HandFacts DEF settle_orphan, orphan_drops_group, HandInductive, Awaited, Matches, Feeding, Beginning, Committing, Opened, Orphaned
  <1>9. ASSUME NEW s \in Sessions, session_gone(s) PROVE HandInductive'
    <2>1. /\ s \in alive /\ alive' = alive \ {s} /\ hasty' = hasty
          /\ pending' = (IF pending = s THEN Nobody ELSE pending)
          /\ rx' = (IF rx.owner = s THEN NoRx ELSE rx)
          /\ cancel' = (cancel \/ group.owner = s \/ pending = s
                         \/ (job.state = "DONE" /\ pending' = Nobody /\ job.kind = "Begin" /\ job.ok))
          /\ job' = (IF job.state = "DONE" /\ pending' = Nobody THEN NoJob ELSE job)
      BY <1>9 DEF session_gone, orphan_drops_group
    <2>2. Awaited' /\ Orphaned'
      BY <1>0, <1>n, <2>1, HandFacts DEF Awaited, Orphaned
    <2>3. Feeding'
      BY <1>0, <1>n, <2>1, HandFacts DEF Feeding, Matches, Awaited
    <2>4. Beginning' /\ Committing'
      BY <1>0, <1>n, <2>1, HandFacts DEF Beginning, Committing, Matches, Awaited
    <2>5. Opened'
      BY <1>0, <1>n, <2>1, HandFacts DEF Opened, Feeding, Matches, Beginning
    <2> QED
      BY <2>2, <2>3, <2>4, <2>5 DEF HandInductive
  <1>10. ASSUME NEW s \in Sessions, NEW n \in Names, NEW kind \in Changing,
                change(s, [NoJob EXCEPT !.kind = kind, !.names = {n}])
         PROVE HandInductive'
    <2>1. job'.kind = kind
      BY <1>10 DEF change, Give, NoJob
    <2> QED
      BY <1>5, <1>10, <2>1
  <1>11. ASSUME NEW s \in Sessions, NEW kind \in Changing, change(s, [NoJob EXCEPT !.kind = kind])
         PROVE HandInductive'
    <2>1. job'.kind = kind
      BY <1>11 DEF change, Give, NoJob
    <2> QED
      BY <1>5, <1>11, <2>1
  <1>12. /\ "Remove" \in Changing /\ "Settings" \in Changing /\ "Serial" \in Changing /\ "Revoked" \in Changing
    BY DEF Changing
  <1> QED
    BY <1>1, <1>2, <1>3, <1>4, <1>6, <1>7, <1>8, <1>9, <1>10, <1>11, <1>12 DEF Main

\* No receipt is fed while the worker has a job, so what ends a job with its
\* group keeps the hand-off.
LEMMA EndOff ==
  ASSUME HandBase, HandInductive, worker \in {"job"} \cup Ending, worker' = "done",
         UNCHANGED <<quietVars, cancel>>, job'.owner = job.owner, job'.state = "RUNNING",
         job'.kind = IF job.kind = "Begin" THEN "Begin" ELSE "other",
         \/ group' = NoGroup /\ job'.ok = FALSE
         \/ job.kind # "Begin" /\ group' = group /\ group.open = NoReceipt
         \/ job.kind = "Commit" /\ group'.owner = group.owner /\ group'.open = NoReceipt
         \/ job.kind = "Begin" /\ job'.ok = FALSE /\ group' = group /\ group.open = NoReceipt
         \/ job.kind = "Begin" /\ job'.ok = TRUE /\ group'.owner = job.owner /\ group'.open.number = job'.number
  PROVE HandInductive'
  <1>1. job.state = "RUNNING"
    BY DEF HandBase, WorkerOK, Ending, TxAt
  <1>2. (rx = NoRx \/ (hasty /\ job.kind \in Changing /\ group = NoGroup)) /\ job.owner \in Sessions /\ job.owner # Nobody
    BY <1>1, HandFacts DEF HandInductive, Feeding, Changing
  <1>3. NoGroup.owner = Nobody /\ NoGroup.open = NoReceipt /\ Nobody \notin Sessions
    BY Blanks, PkgdAssumption
  <1>4. /\ Awaited /\ Feeding /\ Beginning /\ Committing /\ Opened /\ Orphaned
        /\ job'.kind \in {"Begin", "other"} /\ job.kind # "other" /\ (job.kind = "Begin" => ~job.ok)
        /\ UNCHANGED <<pending, rx, alive, hasty, cancel>>
    BY <1>1, HandFacts DEF HandInductive, quietVars, Beginning, Changing, Ending
  <1>5. Awaited' /\ Committing' /\ Orphaned'
    BY <1>1, <1>2, <1>3, <1>4 DEF Awaited, Committing, Orphaned, Beginning
  <1>6. Feeding'
    BY <1>1, <1>2, <1>3, <1>4 DEF Feeding, Matches, Changing
  <1>7. Beginning'
    BY <1>1, <1>2, <1>3, <1>4 DEF Beginning, Matches
  <1>8. Opened'
    BY <1>1, <1>2, <1>3, <1>4 DEF Opened
  <1> QED
    BY <1>5, <1>6, <1>7, <1>8 DEF HandInductive

\* A step of the worker that leaves the cell and the group alone.
LEMMA StillOff ==
  ASSUME HandInductive, UNCHANGED <<group, mainVars>>, worker' \notin {"job", "done"}, job.kind # "Begin"
  PROVE HandInductive'
  BY DEF HandInductive, Awaited, Matches, Feeding, Beginning, Committing, Opened, Orphaned, mainVars

LEMMA ServeOff ==
  ASSUME HandBase, HandInductive, serve_cancel \/ run_job \/ pump_feed \/ pump_fails \/ job_done
  PROVE HandInductive'
  <1>0. /\ Awaited /\ Feeding /\ Beginning /\ Committing /\ Opened /\ Orphaned
        /\ NoGroup.owner = Nobody /\ NoGroup.open = NoReceipt /\ Nobody \notin Sessions
    BY Blanks, PkgdAssumption DEF HandInductive
  <1>1. CASE serve_cancel
    <2>1. group' = NoGroup /\ cancel /\ cancel' = FALSE /\ UNCHANGED <<worker, job, quietVars>> /\ worker = "serve"
      BY <1>1 DEF serve_cancel, drop_group
    <2> QED
      BY <1>0, <2>1, HandFacts DEF HandInductive, Awaited, Matches, Feeding, Beginning, Committing, Opened, Orphaned, quietVars
  <1>2. CASE run_job
    <2>1. /\ ~cancel /\ job.state = "PENDING" /\ worker' = "job" /\ UNCHANGED <<quietVars, group, cancel>>
          /\ job' = [job EXCEPT !.state = "RUNNING"] /\ job \in JobType
      BY <1>2 DEF run_job, HandBase, HandType
    <2>2. /\ job'.state = "RUNNING" /\ job'.kind = job.kind /\ job'.owner = job.owner
          /\ job'.number = job.number /\ job'.ok = job.ok
      BY <2>1 DEF JobType
    <2> QED
      BY <1>0, <2>1, <2>2, HandFacts DEF Formatting, HandInductive, Awaited, Matches, Feeding, Beginning, Committing, Opened, Orphaned, quietVars
  <1>3. CASE pump_feed \/ pump_fails
    <2>1. /\ Pumps /\ UNCHANGED <<worker, mainVars>>
          /\ group' = [group EXCEPT !.open.written = TRUE] \/ group' = [group EXCEPT !.open.failed = TRUE]
      BY <1>3 DEF pump_feed, pump_fails
    <2>2. group \in GroupType /\ group.open \in Receipt /\ group.open # NoReceipt
      BY <2>1 DEF HandBase, HandType, GroupType, Pumps
    <2>3. group'.owner = group.owner /\ group'.open.number = group.open.number
      BY <2>1, <2>2 DEF GroupType, Receipt
    <2>4. group # NoGroup
      BY <1>0, <2>2
    <2>5. job.kind = "Begin" => (worker # "job" /\ (job.state = "PENDING" => cancel) /\ job.state # "PENDING")
          /\ ~((worker = "done" \/ job.state = "DONE") /\ ~job.ok)
      BY <1>0, <2>1, <2>2, <2>4 DEF Beginning, Pumps
    <2> QED
      BY <1>0, <2>1, <2>2, <2>3, <2>4, <2>5 DEF HandInductive, Awaited, Matches, Feeding, Beginning, Committing, Opened, Orphaned, mainVars
  <1>4. CASE job_done
    <2>1. /\ worker = "done" /\ worker' = "serve" /\ UNCHANGED <<quietVars, group, cancel>>
          /\ job' = [job EXCEPT !.state = "DONE"] /\ job \in JobType
      BY <1>4 DEF job_done, HandBase, HandType
    <2>2. /\ job'.state = "DONE" /\ job'.kind = job.kind /\ job'.owner = job.owner
          /\ job'.number = job.number /\ job'.ok = job.ok
      BY <2>1 DEF JobType
    <2>3. job.state = "RUNNING"
      BY <2>1 DEF HandBase, WorkerOK
    <2> QED
      BY <1>0, <2>1, <2>2, <2>3, HandFacts DEF HandInductive, Awaited, Matches, Feeding, Beginning, Committing, Opened, Orphaned, quietVars
  <1> QED
    BY <1>1, <1>2, <1>3, <1>4

LEMMA RefusalOff ==
  ASSUME HandBase, HandInductive, Refusals
  PROVE HandInductive'
  <1>1. /\ worker = "job" /\ worker' = "done" /\ Result(FALSE, 0) /\ UNCHANGED <<quietVars, cancel>>
        /\ tx' = tx /\ mode' \in {mode, "nostore"} /\ made' \in Nat /\ (drop_group \/ KeepGroup)
    BY RefusalIs
  <1>2. /\ job'.owner = job.owner /\ job'.state = "RUNNING" /\ job'.ok = FALSE
        /\ job'.kind = IF job.kind = "Begin" THEN "Begin" ELSE "other"
    BY <1>1 DEF Result, NoJob
  <1>3. \/ group' = NoGroup
        \/ job.kind = "Begin" /\ group' = group /\ group.open = NoReceipt
    <2>0. CASE begin_invalid
      BY <2>0 DEF begin_invalid, Job, KeepGroup, HandInductive, Beginning
    <2>1. CASE drop_group
      BY <2>1 DEF drop_group
    <2>2. CASE begin_refused \/ commit_refused \/ commit_stage_fails
      BY <2>2 DEF begin_refused, commit_refused, commit_stage_fails, drop_group
    <2>3. CASE commit_invalid
      <3>1. job.kind = "Commit" /\ (group.owner # job.owner \/ group.open.number # job.number) /\ group' = group
        BY <2>3 DEF commit_invalid, Job, KeepGroup
      <3> QED
        BY <1>1, <3>1, AtJob DEF HandInductive, Committing
    <2>4. CASE change_refused \/ blob_fails
      <3>1. job.kind \in Changing /\ group' = group
        BY <2>4 DEF change_refused, blob_fails, Changes, KeepGroup, Changing
      <3> QED
        BY <3>1, HandFacts
    <2> QED
      BY <2>0, <2>2, <2>3, <2>4 DEF Refusals
  <1> QED
    BY <1>1, <1>2, <1>3, EndOff

LEMMA JobOff ==
  ASSUME HandBase, HandInductive,
         begin \/ commit_stage \/ commit_group \/ Change \/ after_refused \/ after_made
  PROVE HandInductive'
  <1>1. CASE begin
    <2>1. /\ job'.owner = job.owner /\ job'.state = "RUNNING" /\ job'.ok = TRUE /\ job'.kind = "Begin"
          /\ job'.number = made + 1
      BY <1>1, BeginIs DEF Result, NoJob
    <2>2. group'.open.number = made + 1
      <3>1. PICK r, p : group'.open = [NoReceipt EXCEPT !.number = made + 1, !.place = p, !.rec = r]
        BY <1>1, BeginIs
      <3> QED
        BY <3>1 DEF NoReceipt
    <2> QED
      BY <1>1, <2>1, <2>2, BeginIs, EndOff
  <1>2. CASE commit_stage
    <2>1. /\ Passes /\ worker' = "done" /\ Result(TRUE, 0) /\ UNCHANGED <<quietVars, cancel>>
          /\ group' = [group EXCEPT !.staged = Stage, !.open = NoReceipt]
      BY <1>2 DEF commit_stage, Ends
    <2>2. worker = "job" /\ job.kind = "Commit" /\ group'.owner = group.owner /\ group'.open = NoReceipt
      BY <2>1, StageIs
    <2>3. job'.owner = job.owner /\ job'.state = "RUNNING" /\ job'.kind = "other"
      BY <2>1, <2>2 DEF Result, NoJob
    <2> QED
      BY <2>1, <2>2, <2>3, EndOff
  <1>3. CASE commit_group
    <2>1. /\ worker' = "f1" /\ UNCHANGED <<job, quietVars, cancel>> /\ Passes
          /\ group' = [group EXCEPT !.staged = Stage, !.open = NoReceipt]
      BY <1>3 DEF commit_group, Transacts
    <2>2. worker = "job" /\ job.kind = "Commit" /\ group'.owner = group.owner /\ group'.open = NoReceipt
      BY <2>1, StageIs
    <2>3. job.state = "RUNNING"
      BY <2>2, AtJob
    <2> QED
      BY <2>1, <2>2, <2>3 DEF HandInductive, Awaited, Matches, Feeding, Beginning, Committing, Opened, Orphaned, quietVars
  <1>4. CASE Change
    <2>1. worker' = "f1" /\ group' = group /\ worker = "job"
      BY <1>4, ChangesHand
    <2>2. UNCHANGED <<job, quietVars, cancel>>
      BY <1>4 DEF Change, remove, serial_set, settings_set, revoked_set, Transacts
    <2>3. job.kind \in Changing /\ job.kind # "Begin"
      BY <1>4 DEF Change, remove, serial_set, settings_set, revoked_set, Changing
    <2> QED
      BY <2>1, <2>2, <2>3 DEF HandInductive, Awaited, Matches, Feeding, Beginning, Committing, Opened, Orphaned, quietVars
  <1>5. CASE after_refused \/ after_made
    <2>1. HandBase' /\ job'.kind = "other" /\ job'.state = "RUNNING" /\ group' = NoGroup
      BY <1>5, AfterHand
    <2>2. /\ worker \in Ending /\ worker' = "done" /\ UNCHANGED <<quietVars, cancel>>
      BY <1>5 DEF after_refused, after_made, publish, Ends, Ending
    <2>3. job'.owner = job.owner
      BY <1>5 DEF after_refused, after_made, Ends, Result, NoJob
    <2>4. job.kind # "Begin"
      BY <2>2 DEF HandBase, WorkerOK, Ending, Changing
    <2>5. group.open = NoReceipt /\ group'.open = NoReceipt
      BY <2>1, <2>2, Blanks DEF HandBase, OwnOK
    <2>6. job'.ok = FALSE
      BY <1>5, <2>4 DEF after_refused, after_made, Ends, Result, NoJob
    <2> QED
      BY <2>1, <2>2, <2>3, <2>4, <2>6, EndOff
  <1> QED
    BY <1>1, <1>2, <1>3, <1>4, <1>5

LEMMA OffStep ==
  ASSUME HandBase, HandInductive, [Next]_vars
  PROVE HandInductive'
  <1>1. CASE UNCHANGED vars
    BY <1>1 DEF vars, mainVars, HandInductive, Awaited, Matches, Feeding, Beginning, Committing, Opened, Orphaned
  <1>2. CASE Main
    BY <1>2, MainOff
  <1>3. CASE Crash
    <2>1. /\ job' = NoJob /\ group' = NoGroup /\ rx' = NoRx /\ pending' = Nobody /\ worker' = "off"
          /\ alive' = Sessions
      BY <1>3 DEF Crash
    <2> QED
      BY <2>1, Blanks DEF HandInductive, Awaited, Matches, Feeding, Beginning, Committing, Opened, Orphaned
  <1>4. CASE Worker
    <2>1. CASE (open \/ format \/ format_done) /\ UNCHANGED <<group, mainVars>>
      <3>1. worker' \notin {"job", "done"} /\ worker \in {"off"} \cup Formatting
        BY <2>1 DEF open, Opens, format, format_done, FormatStep, FormatFails, Formatting
      <3>2. job = NoJob
        BY <3>1 DEF HandBase, ModeOK, Quiet
      <3> QED
        BY <2>1, <3>1, <3>2, Blanks, StillOff
    <2>2. CASE transact /\ UNCHANGED <<group, mainVars>>
      <3>1. worker \in TxAt /\ worker' \notin {"job", "done"}
        BY <2>2, TransactHand DEF TxAt, Ending
      <3>2. job.kind # "Begin"
        BY <3>1 DEF HandBase, WorkerOK, Changing
      <3> QED
        BY <2>2, <3>1, <3>2, StillOff
    <2> QED
      BY <1>4, <2>1, <2>2, WorkerSteps, ServeOff, RefusalOff, JobOff
  <1> QED
    BY <1>1, <1>2, <1>3, <1>4 DEF Next

\* The two threads of the package service stay in step: a receipt that is fed is
\* the one the worker has open until a session drops its receipt while a begin of
\* its own is under way (main.rs:696-707 takes that request); the store is never
\* held for a session that went, and a job finds the store as the main thread saw
\* it, whatever the sessions send.
THEOREM ThreadsInStep == Spec => []HandOff
  <1>1. Init => HandBase /\ HandInductive
    <2>1. ASSUME Init PROVE HandInductive
      <3>1. /\ job = NoJob /\ group = NoGroup /\ rx = NoRx /\ pending = Nobody /\ worker = "off"
            /\ alive = Sessions
        BY <2>1 DEF Init
      <3> QED
        BY <3>1, Blanks DEF HandInductive, Awaited, Matches, Feeding, Beginning, Committing, Opened, Orphaned
    <2> QED
      BY <2>1, InitHand
  <1>2. (HandBase /\ HandInductive) /\ [Next]_vars => (HandBase /\ HandInductive)'
    BY HandStep, OffStep
  <1>3. HandBase /\ HandInductive => HandOff
    <2>1. ASSUME HandBase, HandInductive PROVE HandOff
      <3>1. (hasty \/ FedIsOpen) /\ NotHeldForGood
        BY <2>1 DEF HandInductive, Feeding, Matches, FedIsOpen, Orphaned, NotHeldForGood
      <3>2. Job("Begin") => CanBegin
        BY <2>1 DEF HandInductive, Beginning, Job, CanBegin
      <3>3. Changes => group = NoGroup
        BY <2>1, HandFacts DEF Changes, Changing
      <3> QED
        BY <3>1, <3>2, <3>3 DEF HandOff, NeverBusy
    <2> QED
      BY <2>1
  <1> QED
    BY <1>1, <1>2, <1>3, PTL DEF Spec


-----------------------------------------------------------------------------
(* The disk.  A state of the store is a copy of the superblock, the table  *)
(* it names and the data of the table's records; the other copy is no      *)
(* superblock or an older one.  What is written and not flushed lies clear *)
(* of the accepted state.                                                  *)

Tab == [kind : {"table"}, gen : Nat, recs : [Records -> Rec], serial : Nat, barred : SUBSET Names]
TableOK(t) ==
    /\ t \in Tab
    /\ \A i \in Records : t.recs[i] # EMPTY =>
         t.recs[i].ext \in Extents /\ t.recs[i].data # 0 /\ (i \in Places => t.recs[i].name \in Names)
    /\ t.recs[REVOKED_SLOT] = EMPTY => t.barred = {}

\* A superblock, wherever it lies, names a table as a transaction makes it.
Sound(x) == x.kind = "super" => x.at \in Extents /\ TableOK(x.sha) /\ x = Super(x.at, x.sha)

Run(s) == \E n \in Nat : s = [i \in 1..n |-> s[i]]
DiskType ==
    /\ medium = [b \in Blocks |-> medium[b]]
    /\ pend = [b \in Blocks |-> pend[b]]
    /\ \A b \in Blocks : Run(pend[b]) /\ Sound(medium[b]) /\ \A x \in ToSet(pend[b]) : Sound(x)

\* A state of the store; its data are there unless a start may have found what
\* the worker did not know of, and the other copy is older while the worker
\* knows what the disk holds.
On(m, t) == \A i \in Records : t.recs[i] # EMPTY => m[t.recs[i].ext] = Data(t.recs[i].data)
Has(m, t) == sure # "lost" => On(m, t)
Elder(m, c, t) == m[c].kind = "super" => m[c].sha.gen \in Nat /\ m[c].sha.gen < t.gen
State(m, c, at, t) ==
    /\ m[c] = Super(at, t) /\ at \in Extents /\ m[at] = t
    /\ TableOK(t) /\ Has(m, t)
    /\ sure = "yes" => Elder(m, 1 - c, t)
Still(B) == \A b \in B : pend[b] = <<>>
Based ==
    /\ opened \in [copy : {0, 1}, at : Extents]
    /\ State(medium, opened.copy, opened.at, table)
    /\ Still({opened.copy} \cup Occupied(table, opened.at))

\* The machine is off, or the store is out of reach: the state made last or one
\* under way, a disk of zeros, or the first superblock torn.
OffOK ==
    /\ pend = NoPend /\ sure \in {"yes", "lost"}
    /\ sure = "lost" => medium[0] # Zero \/ medium[1] # Zero
    /\ sure = "yes" =>
         \/ \E c \in {0, 1} :
              /\ State(medium, c, medium[c].at, medium[c].sha)
              /\ Promise(medium[c].sha) \in {held} \cup flight
         \/ medium[0] = Zero /\ medium[1] = Zero /\ held = BlankState
         \/ medium[0] = Torn /\ medium[1] = Zero /\ held \in {BlankState, LostState}

FormatOK ==
    /\ medium[0] = Zero /\ medium[1] = Zero /\ pend[1] = <<>> /\ held = BlankState /\ sure = "yes"
    /\ worker = "format" => pend = NoPend /\ flight = {}
    /\ worker \in {"format_flush", "format_super", "format_last"} => flight = {Promise(First)}
    /\ worker \in {"format_flush", "format_super"} => pend[0] = <<>>
    /\ worker = "format_flush" => Flushed[SUPERS] = First
    /\ worker \in {"format_super", "format_last"} => medium[SUPERS] = First /\ pend[SUPERS] = <<>>
    /\ worker = "format_last" => pend[0] = <<Super(SUPERS, First)>>
    /\ worker = "stopped" =>
         \/ pend[0] = <<>>
         \/ /\ pend[0] = <<Super(SUPERS, First)>> /\ flight = {Promise(First)}
            /\ medium[SUPERS] = First /\ pend[SUPERS] = <<>>

\* The next state is whole on the medium or in its last write.
NextState(at, t) ==
    /\ at \in Extents /\ medium[at] = t /\ TableOK(t) /\ Has(medium, t) /\ t.gen = table.gen + 1
    /\ Still(Blocks \ {Copy})
    /\ Promise(t) \in flight

\* The write of its superblock failed: nothing more is written before the next
\* job, and nothing at all once the disk is gone.
Late ==
    /\ worker \in Serving => group = NoGroup
    /\ worker = "job" => mode = "nostore"
    /\ worker \in Serving /\ mode = "nostore" => job.kind \in {"none", "other", "Commit"}
    /\ \E at, t :
         NextState(at, t) /\ flight = {Promise(t)} /\ pend[Copy] \in {<<>>, <<Super(at, t)>>}
Settled == flight = {} /\ pend[Copy] = <<>>

\* A transaction on its way to the superblock.
TxOK ==
    /\ TableOK(tx.next) /\ tx.next.gen = table.gen + 1 /\ Promise(tx.next) \in flight
    /\ sure = "yes" => flight = {Promise(tx.next)}
    /\ worker # "f3" /\ (worker = "f1" => sure = "yes") => pend[Copy] = <<>>
    /\ worker = "f1" => Has(Flushed, tx.next)
    /\ worker # "f1" => Has(medium, tx.next)
    /\ worker \in {"table", "attach", "super"} => pend = NoPend
    /\ worker = "f2" =>
         /\ tx.at \in Extents /\ tx.at \notin Occupied(table, opened.at) \cup Occupied(tx.next, opened.at)
         /\ Still(Blocks \ {tx.at}) /\ Flushed[tx.at] = tx.next
    /\ worker \in {"attach", "super", "f3"} => NextState(tx.at, tx.next)
    /\ worker = "f3" => pend[Copy] = <<NextSuper>>

MadeOK ==
    /\ opened \in [copy : {0, 1}, at : Extents]
    /\ State(medium, Copy, tx.at, tx.next)
    /\ pend = NoPend /\ flight = {} /\ sure \in {"yes", "lost"}
    /\ sure # "lost" => held = Promise(tx.next)

RunningOK ==
    /\ Based /\ (sure # "lost" => held = Promise(table))
    /\ worker \in Serving \cup {"refused"} /\ sure = "yes" => Settled \/ Late
    /\ worker \in TxAt => TxOK

DiskOK ==
    /\ DiskType /\ sure \in {"yes", "no", "lost"}
    /\ worker = "off" => OffOK
    /\ worker \in Formatting => FormatOK
    /\ mode = "damaged" => OffOK
    /\ worker = "made" => MadeOK
    /\ worker \in Serving \cup TxAt \cup {"refused"} /\ mode # "damaged" => RunningOK

\* The packages of the group: each has a free place and a free extent of its
\* own, and its data, once they are written, wait for a flush or are there.
Claim(place, rec) ==
    /\ place \in Places /\ table.recs[place] = EMPTY
    /\ rec.name \in Names /\ rec.ext \in Extents /\ rec.data # 0
    /\ rec.ext \notin Occupied(table, opened.at)
StagedOK ==
    \A k \in DOMAIN group.staged :
        /\ Claim(group.staged[k].place, group.staged[k].rec)
        /\ Flushed[group.staged[k].rec.ext] = Data(group.staged[k].rec.data)
        /\ listed => group.staged[k].rec.name \notin table.barred
OpenOK ==
    group.open # NoReceipt =>
        /\ Claim(group.open.place, group.open.rec)
        /\ \A k \in DOMAIN group.staged :
             group.staged[k].rec.ext # group.open.rec.ext /\ group.staged[k].place # group.open.place
        /\ group.open.written => Flushed[group.open.rec.ext] = Data(group.open.rec.data)
GroupOK == worker \in Serving => StagedOK /\ OpenOK

StoreInv == HandBase /\ DiskOK /\ GroupOK

-----------------------------------------------------------------------------
(* The device.                                                             *)

\* What is no superblock, and a superblock of a table, are sound.
LEMMA SoundIs ==
  /\ Sound(Zero) /\ Sound(Torn) /\ \A n : Sound(Data(n))
  /\ \A t \in Tab : Sound(t)
  /\ \A at \in Extents : \A t : TableOK(t) => Sound(Super(at, t))
  <1>1. Sound(Zero) /\ Sound(Torn) /\ \A n : Sound(Data(n))
    BY DEF Sound, Zero, Torn, Data
  <1>2. \A t \in Tab : Sound(t)
    BY DEF Sound, Tab
  <1>3. ASSUME NEW at \in Extents, NEW t, TableOK(t) PROVE Sound(Super(at, t))
    <2>1. Super(at, t).at = at /\ Super(at, t).sha = t
      BY DEF Super
    <2> QED
      BY <1>3, <2>1 DEF Sound
  <1> QED
    BY <1>1, <1>2, <1>3

\* A sequence of writes and one write more.
LEMMA OneMore ==
  ASSUME NEW s, Run(s), NEW c
  PROVE /\ Run(Append(s, c)) /\ Last(Append(s, c)) = c /\ Append(s, c) # <<>> /\ (s = <<>> => Append(s, c) = <<c>>)
        /\ ToSet(Append(s, c)) = ToSet(s) \cup {c}
  <1>1. PICK n \in Nat : s = [i \in 1..n |-> s[i]]
    BY DEF Run
  <1> DEFINE S == {s[i] : i \in 1..n} \cup {c}
  <1>2. s \in Seq(S) /\ c \in S /\ Len(s) = n
    BY <1>1
  <1>3. Append(s, c) \in Seq(S) /\ Len(Append(s, c)) = n + 1 /\ Append(s, c)[n + 1] = c
    BY <1>2
  <1> HIDE DEF S
  <1>4. ASSUME NEW q \in Seq(S) PROVE Run(q)
    <2>1. Len(q) \in Nat /\ q = [i \in 1..Len(q) |-> q[i]]
      OBVIOUS
    <2> QED
      BY <2>1 DEF Run
  <1>5. Run(Append(s, c))
    BY <1>3, <1>4
  <1>6. s = <<>> => Append(s, c) = <<c>>
    OBVIOUS
  <1>7. Append(s, c) # <<>>
    BY <1>3
  <1>8. ToSet(Append(s, c)) = ToSet(s) \cup {c}
    <2>1. \A i \in 1..n : Append(s, c)[i] = s[i]
      BY <1>2
    <2>2. DOMAIN s = 1..n /\ DOMAIN Append(s, c) = 1..(n + 1)
      BY <1>1, <1>3
    <2>3. 1..(n + 1) = 1..n \cup {n + 1}
      OBVIOUS
    <2> QED
      BY <1>3, <2>1, <2>2, <2>3 DEF ToSet
  <1> QED
    BY <1>3, <1>5, <1>6, <1>7, <1>8 DEF Last

\* The last of the writes is one of them.
LEMMA LastIn ==
  ASSUME NEW s, Run(s), s # <<>>
  PROVE Last(s) \in ToSet(s)
  <1>1. PICK n \in Nat : s = [i \in 1..n |-> s[i]]
    BY DEF Run
  <1>2. n # 0
    BY <1>1
  <1>3. n \in 1..n /\ DOMAIN s = 1..n /\ Len(s) = n
    BY <1>1, <1>2
  <1> QED
    BY <1>3 DEF Last, ToSet

LEMMA OneWrite ==
  ASSUME NEW c
  PROVE /\ <<c>> # <<>> /\ Last(<<c>>) = c /\ ToSet(<<c>>) = {c} /\ Run(<<c>>)
        /\ Run(<<>>) /\ ToSet(<<>>) = {}
  BY DEF Last, ToSet, Run

\* What a flush would leave.
LEMMA FlushedIs ==
  ASSUME NEW b \in Blocks
  PROVE Flushed[b] = IF pend[b] = <<>> THEN medium[b] ELSE Last(pend[b])
  BY DEF Flushed

LEMMA FlushedSound ==
  ASSUME DiskType, NEW b \in Blocks
  PROVE Sound(Flushed[b])
  <1>1. pend[b] # <<>> => Last(pend[b]) \in ToSet(pend[b])
    BY LastIn DEF DiskType
  <1> QED
    BY <1>1, FlushedIs DEF DiskType

\* A write changes its block alone.
LEMMA WriteIs ==
  ASSUME DiskType, NEW b \in Blocks, NEW c, Sound(c), pend' = Written(b, c), medium' = medium
  PROVE /\ DiskType' /\ pend'[b] = Append(pend[b], c) /\ Flushed'[b] = c
        /\ pend[b] = <<>> => pend'[b] = <<c>>
        /\ \A x \in Blocks : x # b => pend'[x] = pend[x] /\ Flushed'[x] = Flushed[x]
  <1>1. pend' = [pend EXCEPT ![b] = Append(pend[b], c)]
    BY DEF Written
  <1>2. /\ pend' = [x \in Blocks |-> pend'[x]] /\ pend'[b] = Append(pend[b], c)
        /\ \A x \in Blocks : x # b => pend'[x] = pend[x]
    BY <1>1 DEF DiskType
  <1>3. Run(pend[b])
    BY DEF DiskType
  <1>4. /\ Run(Append(pend[b], c)) /\ Last(Append(pend[b], c)) = c /\ Append(pend[b], c) # <<>>
        /\ (pend[b] = <<>> => Append(pend[b], c) = <<c>>)
        /\ ToSet(Append(pend[b], c)) = ToSet(pend[b]) \cup {c}
    BY <1>3, OneMore
  <1>5. DiskType'
    <2>1. ASSUME NEW x \in Blocks PROVE Run(pend'[x]) /\ \A y \in ToSet(pend'[x]) : Sound(y)
      BY <1>2, <1>4 DEF DiskType
    <2>2. \A x \in Blocks : Sound(medium'[x])
      BY DEF DiskType
    <2> QED
      BY <1>2, <2>1, <2>2 DEF DiskType
  <1>6. Flushed'[b] = c
    BY <1>2, <1>4 DEF Flushed
  <1>7. \A x \in Blocks : x # b => Flushed'[x] = Flushed[x]
    BY <1>2 DEF Flushed
  <1> QED
    BY <1>2, <1>4, <1>5, <1>6, <1>7

\* A flush.
LEMMA FlushIs ==
  ASSUME DiskType, medium' = Flushed, pend' = NoPend
  PROVE /\ DiskType'
        /\ \A b \in Blocks : /\ pend'[b] = <<>> /\ medium'[b] = Flushed[b] /\ Flushed'[b] = Flushed[b]
                             /\ (pend[b] = <<>> => medium'[b] = medium[b])
  <1>1. medium' = [b \in Blocks |-> medium'[b]] /\ pend' = [b \in Blocks |-> pend'[b]]
    BY DEF Flushed, NoPend
  <1>2. ASSUME NEW b \in Blocks
        PROVE /\ pend'[b] = <<>> /\ medium'[b] = Flushed[b] /\ Flushed'[b] = Flushed[b]
              /\ (pend[b] = <<>> => medium'[b] = medium[b])
    BY DEF Flushed, NoPend
  <1>3. Run(<<>>) /\ ToSet(<<>>) = {} /\ \A b \in Blocks : Sound(Flushed[b])
    BY OneWrite, FlushedSound
  <1>4. DiskType'
    BY <1>1, <1>2, <1>3 DEF DiskType
  <1> QED
    BY <1>2, <1>4

\* A call that fails leaves the medium, and of the blocks that wait for nothing
\* touches the one it writes alone.
LEMMA WriteFailsIs ==
  ASSUME DiskType, NEW b \in Blocks, NEW c, Sound(c), WriteFails(b, c)
  PROVE /\ DiskType' /\ medium' = medium /\ mode' \in {mode, "nostore"}
        /\ pend' = pend \/ pend' = Written(b, c)
        /\ mode = "nostore" => pend' = pend
        /\ \A x \in Blocks : x # b => pend'[x] = pend[x] /\ Flushed'[x] = Flushed[x]
        /\ pend[b] = <<>> => pend'[b] \in {<<>>, <<c>>}
  <1>1. /\ mode' \in {mode, "nostore"} /\ medium' = medium /\ (mode = "nostore" => pend' = pend)
        /\ (mode # "nostore" => pend' \in {pend, Written(b, c)})
    BY FailsMode DEF WriteFails
  <1>2. CASE pend' = pend
    BY <1>1, <1>2 DEF DiskType, Flushed
  <1>3. CASE pend' = Written(b, c)
    BY <1>1, <1>3, WriteIs
  <1> QED
    BY <1>1, <1>2, <1>3

LEMMA FlushFailsIs ==
  ASSUME DiskType, FlushFails
  PROVE /\ DiskType' /\ medium' = medium /\ mode' \in {mode, "nostore"}
        /\ pend' = pend \/ pend' = NoPend
        /\ mode = "nostore" => pend' = pend
        /\ \A x \in Blocks : pend[x] = <<>> => pend'[x] = <<>>
  <1>1. /\ mode' \in {mode, "nostore"} /\ medium' = medium /\ (mode = "nostore" => pend' = pend)
        /\ (mode # "nostore" => pend' \in {pend, NoPend})
    BY FailsMode DEF FlushFails
  <1>2. CASE pend' = pend
    BY <1>1, <1>2 DEF DiskType
  <1>3. CASE pend' = NoPend
    <2>1. \A b \in Blocks : pend'[b] = <<>>
      BY <1>3 DEF NoPend
    <2>2. DiskType'
      BY <1>1, <1>3, <2>1, OneWrite DEF DiskType, NoPend
    <2> QED
      BY <1>1, <1>3, <2>1, <2>2
  <1> QED
    BY <1>1, <1>2, <1>3

\* A crash keeps the blocks that wait for nothing.
LEMMA KeptIs ==
  ASSUME NEW m \in Kept
  PROVE /\ m = [b \in Blocks |-> m[b]]
        /\ \A b \in Blocks : pend[b] = <<>> => m[b] = medium[b]
        /\ \A b \in Blocks : pend[b] # <<>> => m[b] \in {medium[b], Torn} \cup ToSet(pend[b])
  <1>1. PICK f \in [Dirty -> UNION {After(b) : b \in Dirty}] :
           /\ \A b \in Dirty : f[b] \in After(b)
           /\ m = [b \in Blocks |-> IF b \in Dirty THEN f[b] ELSE medium[b]]
    BY DEF Kept
  <1>2. \A b \in Blocks : After(b) \subseteq {medium[b], Torn} \cup ToSet(pend[b])
    BY DEF After
  <1> QED
    BY <1>1, <1>2 DEF Dirty

-----------------------------------------------------------------------------
(* States of the store.                                                    *)

LEMMA Kinds ==
  /\ Zero.kind = "zero" /\ Torn.kind = "torn"
  /\ \A at, t : Super(at, t).kind = "super" /\ Super(at, t).at = at /\ Super(at, t).sha = t
  BY DEF Zero, Torn, Super

\* The table of a new store.
LEMMA FirstOK ==
  /\ TableOK(First) /\ First.gen = 1 /\ (\A i \in Records : First.recs[i] = EMPTY) /\ \A m : On(m, First)
  /\ First.barred = {}
  <1>1. NoTable \in Tab
    BY Blanks DEF NoTable, Tab
  <1>2. First \in Tab /\ First.gen = 1 /\ First.recs = [i \in Records |-> EMPTY] /\ First.barred = {}
    BY <1>1 DEF First, NoTable, Tab
  <1> QED
    BY <1>2 DEF TableOK, On

LEMMA Holds ==
  ASSUME NEW t, TableOK(t), NEW at \in Extents
  PROVE /\ Occupied(t, at) \subseteq Extents /\ at \in Occupied(t, at) /\ Occupied(t, at) \subseteq Blocks
        /\ 0 \notin Occupied(t, at) /\ 1 \notin Occupied(t, at)
        /\ \A i \in Records : t.recs[i] # EMPTY => t.recs[i].ext \in Occupied(t, at)
  BY Sizes DEF TableOK, Occupied

LEMMA OnSame ==
  ASSUME NEW t, NEW at, NEW m, NEW n, On(m, t), \A b \in Occupied(t, at) : n[b] = m[b]
  PROVE On(n, t)
  BY DEF On, Occupied

LEMMA HasSame ==
  ASSUME NEW t, NEW at, NEW m, NEW n, Has(m, t), \A b \in Occupied(t, at) : n[b] = m[b]
  PROVE Has(n, t)
  BY OnSame DEF Has

\* The state of the store does not depend on the other blocks; the other copy
\* may be torn.
LEMMA SameState ==
  ASSUME NEW m, NEW n, NEW c \in {0, 1}, NEW at, NEW t, State(m, c, at, t),
         \A b \in {c} \cup Occupied(t, at) : n[b] = m[b],
         n[1 - c] \in {m[1 - c], Torn}
  PROVE State(n, c, at, t)
  <1>1. n[c] = Super(at, t) /\ at \in Extents /\ n[at] = t /\ TableOK(t)
    BY DEF State, Occupied
  <1>2. Has(n, t)
    BY HasSame DEF State
  <1>3. sure = "yes" => Elder(n, 1 - c, t)
    BY Kinds DEF State, Elder
  <1> QED
    BY <1>1, <1>2, <1>3 DEF State

\* The next state over the accepted one.
LEMMA NewState ==
  ASSUME NEW m, NEW c \in {0, 1}, NEW at \in Extents, NEW t, NEW x, NEW u,
         m[c] = Super(at, t), m[at] = t, TableOK(t), Has(m, t),
         m[1 - c] = Super(x, u), TableOK(u), t.gen = u.gen + 1
  PROVE State(m, c, at, t) /\ Elder(m, 1 - c, t)
  <1>1. m[1 - c].sha = u
    BY Kinds
  <1>2. u.gen \in Nat
    BY DEF TableOK, Tab
  <1>3. u.gen < t.gen
    BY <1>2
  <1> QED
    BY <1>1, <1>2, <1>3 DEF State, Elder

\* What a start reads of a state is what it promises.
LEMMA ReadBackIs ==
  ASSUME NEW t, On(medium, t)
  PROVE ReadBack(t) = Promise(t)
  <1>1. \A i \in Records : Whole(t.recs[i])
    BY DEF On, Whole
  <1> DEFINE f == [i \in Records |-> IF Whole(t.recs[i]) THEN t.recs[i].data ELSE -1]
  <1>2. f = [i \in Records |-> t.recs[i].data]
    BY <1>1
  <1>3. ReadBack(t) = [Promise(t) EXCEPT !.data = f]
    BY DEF ReadBack
  <1> HIDE DEF f
  <1> QED
    BY <1>2, <1>3 DEF Promise

\* A start that reads every block finds the state there is.
LEMMA ChosenIs ==
  ASSUME NEW c \in {0, 1}, sure = "yes", State(medium, c, medium[c].at, medium[c].sha)
  PROVE Chosen({}) = {c}
  <1>1. Loads(c, {})
    BY Kinds DEF Loads, Good, State
  <1>2. Good(1 - c, {}) => medium[1 - c].sha.gen \in Nat /\ medium[1 - c].sha.gen < medium[c].sha.gen
    BY DEF State, Good, Elder
  <1>3. medium[c].sha.gen \in Nat /\ Good(c, {})
    BY Kinds DEF State, TableOK, Tab, Good
  <1>4. Good(1 - c, {}) => Order({})[1] = c
    <2>1. CASE c = 0
      <3>1. ~(Good(0, {}) /\ Good(1, {}) /\ medium[1].sha.gen > medium[0].sha.gen)
        BY <1>2, <1>3, <2>1
      <3> QED
        BY <2>1, <3>1 DEF Order
    <2>2. CASE c = 1
      BY <1>2, <1>3, <2>2 DEF Order
    <2> QED
      BY <2>1, <2>2
  <1>5. Loads(1 - c, {}) => Good(1 - c, {})
    BY DEF Loads
  <1>6. \A d \in {0, 1} : d = c \/ d = 1 - c
    OBVIOUS
  <1>7. 1 - (1 - c) = c /\ c # 1 - c /\ 1 - c \in {0, 1}
    OBVIOUS
  <1> QED
    BY <1>1, <1>4, <1>5, <1>6, <1>7 DEF Chosen

\* Whatever it reads, it opens a copy that is good and whose table is whole.
LEMMA ChosenLoads ==
  ASSUME NEW bad, NEW c \in Chosen(bad)
  PROVE c \in {0, 1} /\ medium[c].kind = "super" /\ medium[medium[c].at] = medium[c].sha
  BY DEF Chosen, Loads, Good

LEMMA NoneChosen ==
  ASSUME medium[0] \in {Zero, Torn}, medium[1] \in {Zero, Torn}, NEW bad
  PROVE Chosen(bad) = {}
  <1>1. ~Loads(0, bad) /\ ~Loads(1, bad)
    BY Kinds DEF Loads, Good
  <1> QED
    BY <1>1 DEF Chosen

LEMMA StateIs ==
  ASSUME NEW m, NEW c, NEW at, NEW t, State(m, c, at, t)
  PROVE m[c].at = at /\ m[c].sha = t /\ State(m, c, m[c].at, m[c].sha)
  BY Kinds DEF State

\* A crash while the store runs, with nothing under way in the other copy or
\* with the superblock of the next state.
LEMMA RunningCrash ==
  ASSUME Based, sure = "yes", held = Promise(table), NEW m \in Kept,
         \/ pend[Copy] = <<>>
         \/ \E at, t : NextState(at, t) /\ pend[Copy] = <<Super(at, t)>>
  PROVE \E c \in {0, 1} : State(m, c, m[c].at, m[c].sha) /\ Promise(m[c].sha) \in {held} \cup flight
  <1>1. opened.copy \in {0, 1} /\ Copy \in {0, 1} /\ Copy = 1 - opened.copy /\ opened.copy = 1 - Copy
        /\ opened.copy # Copy /\ opened.at \in Extents
    BY DEF Based, Copy
  <1>2. State(medium, opened.copy, opened.at, table) /\ TableOK(table)
    BY DEF Based, State
  <1>3. \A b \in {opened.copy} \cup Occupied(table, opened.at) : m[b] = medium[b]
    <2>1. \A b \in {opened.copy} \cup Occupied(table, opened.at) : b \in Blocks /\ pend[b] = <<>>
      BY <1>1, <1>2, Holds, Sizes DEF Based, Still
    <2> QED
      BY <2>1, KeptIs
  <1>4. CASE m[Copy] \in {medium[Copy], Torn}
    <2>1. State(m, opened.copy, opened.at, table)
      BY <1>1, <1>2, <1>3, <1>4, SameState
    <2> QED
      BY <1>1, <2>1, StateIs
  <1>5. CASE m[Copy] \notin {medium[Copy], Torn}
    <2>1. pend[Copy] # <<>> /\ m[Copy] \in ToSet(pend[Copy])
      BY <1>1, <1>5, KeptIs, Sizes
    <2>2. PICK at, t : NextState(at, t) /\ pend[Copy] = <<Super(at, t)>>
      BY <2>1
    <2>3. m[Copy] = Super(at, t)
      BY <2>1, <2>2, OneWrite
    <2>4. at \in Extents /\ medium[at] = t /\ TableOK(t) /\ Has(medium, t) /\ t.gen = table.gen + 1
          /\ Still(Blocks \ {Copy}) /\ Promise(t) \in flight
      BY <2>2 DEF NextState
    <2>5. \A b \in Occupied(t, at) : m[b] = medium[b]
      <3>1. \A b \in Occupied(t, at) : b \in Blocks /\ b # Copy
        BY <1>1, <2>4, Holds
      <3> QED
        BY <2>4, <3>1, KeptIs DEF Still
    <2>6. Has(m, t) /\ m[at] = t
      BY <2>4, <2>5, HasSame, Holds
    <2>7. m[opened.copy] = Super(opened.at, table)
      BY <1>2, <1>3 DEF State
    <2>8. State(m, Copy, at, t)
      BY <1>1, <1>2, <2>3, <2>4, <2>6, <2>7, NewState
    <2> QED
      BY <1>1, <2>4, <2>8, StateIs
  <1> QED
    BY <1>4, <1>5

\* After a crash the medium is not blank if a superblock was there to stay.
LEMMA NotBlank ==
  ASSUME Based, NEW m \in Kept
  PROVE m[0] # Zero \/ m[1] # Zero
  <1>1. opened.copy \in {0, 1} /\ pend[opened.copy] = <<>> /\ medium[opened.copy] = Super(opened.at, table)
    BY DEF Based, State, Still
  <1>2. m[opened.copy] = medium[opened.copy]
    BY <1>1, KeptIs, Sizes
  <1> QED
    BY <1>1, <1>2, Kinds

LEMMA CrashDisk ==
  ASSUME StoreInv, Crash
  PROVE DiskOK'
  <1>1. PICK m \in Kept : medium' = m
    BY DEF Crash
  <1>2. /\ pend' = NoPend /\ UNCHANGED <<held, flight>> /\ worker' = "off" /\ mode' = "starting" /\ worker # "off"
        /\ sure' = IF sure = "yes" THEN "yes" ELSE "lost"
    BY DEF Crash
  <1>0. DiskType
    BY DEF StoreInv, DiskOK
  <1>3. DiskType'
    <2>1. Run(<<>>) /\ ToSet(<<>>) = {}
      BY OneWrite
    <2>2. ASSUME NEW b \in Blocks PROVE Sound(m[b])
      BY <1>0, KeptIs, SoundIs DEF DiskType
    <2> QED
      BY <1>1, <1>2, <2>1, <2>2, KeptIs DEF DiskType, NoPend
  <1>4. ASSUME sure = "yes"
        PROVE \/ \E c \in {0, 1} : State(m, c, m[c].at, m[c].sha) /\ Promise(m[c].sha) \in {held} \cup flight
              \/ m[0] = Zero /\ m[1] = Zero /\ held = BlankState
              \/ m[0] = Torn /\ m[1] = Zero /\ held \in {BlankState, LostState}
    <2>1. CASE worker \in Formatting
      <3>1. FormatOK
        BY <2>1 DEF StoreInv, DiskOK
      <3>2. m[1] = Zero /\ medium[0] = Zero /\ held = BlankState
        BY <3>1, KeptIs, Sizes DEF FormatOK
      <3>3. \/ pend[0] = <<>>
            \/ /\ pend[0] = <<Super(SUPERS, First)>> /\ flight = {Promise(First)}
               /\ medium[SUPERS] = First /\ pend[SUPERS] = <<>>
        BY <2>1, <3>1, Sizes DEF FormatOK, Formatting, NoPend
      <3>4. CASE pend[0] = <<>> \/ m[0] \in {Zero, Torn}
        BY <3>2, <3>4, KeptIs, Sizes
      <3>5. CASE pend[0] # <<>> /\ m[0] \notin {Zero, Torn}
        <4>0. ToSet(pend[0]) = {Super(SUPERS, First)}
          BY <3>3, <3>5, OneWrite
        <4>1. m[0] = Super(SUPERS, First)
          BY <3>2, <3>5, <4>0, KeptIs, Sizes
        <4>2. m[SUPERS] = First
          BY <3>3, <3>5, KeptIs, Sizes
        <4>3. TableOK(First) /\ Has(m, First)
          BY FirstOK DEF Has
        <4>4. Elder(m, 1, First)
          BY <3>2, Kinds DEF Elder
        <4>5. State(m, 0, SUPERS, First)
          BY <4>1, <4>2, <4>3, <4>4, Sizes DEF State
        <4> QED
          BY <3>3, <3>5, <4>5, StateIs
      <3> QED
        BY <3>4, <3>5
    <2>2. CASE mode = "damaged"
      <3>1. OffOK
        BY <2>2 DEF StoreInv, DiskOK
      <3>2. \A b \in Blocks : m[b] = medium[b]
        BY <3>1, KeptIs DEF OffOK, NoPend
      <3>3. m = medium
        BY <1>0, <3>2, KeptIs DEF DiskType
      <3> QED
        BY <1>4, <3>1, <3>3 DEF OffOK
    <2>3. CASE worker = "made"
      <3>1. MadeOK
        BY <2>3 DEF StoreInv, DiskOK
      <3>2. \A b \in Blocks : m[b] = medium[b]
        BY <3>1, KeptIs DEF MadeOK, NoPend
      <3>3. m = medium
        BY <1>0, <3>2, KeptIs DEF DiskType
      <3>4. Copy \in {0, 1} /\ held = Promise(tx.next)
        BY <1>4, <3>1 DEF MadeOK, Copy
      <3> QED
        BY <3>1, <3>3, <3>4, StateIs DEF MadeOK
    <2>4. CASE worker \in Serving \cup TxAt \cup {"refused"} /\ mode # "damaged"
      <3>1. RunningOK
        BY <2>4 DEF StoreInv, DiskOK
      <3>2. \/ pend[Copy] = <<>>
            \/ \E at, t : NextState(at, t) /\ pend[Copy] = <<Super(at, t)>>
        <4>1. CASE worker \in TxAt
          BY <1>4, <3>1, <4>1 DEF RunningOK, TxOK, NextSuper
        <4>2. CASE worker \notin TxAt
          BY <1>4, <2>4, <3>1, <4>2 DEF RunningOK, Settled, Late
        <4> QED
          BY <4>1, <4>2
      <3> QED
        BY <1>4, <3>1, <3>2, RunningCrash DEF RunningOK
    <2> QED
      BY <1>2, <2>1, <2>2, <2>3, <2>4 DEF StoreInv, HandBase, WorkerOK, Ending
  <1>5. ASSUME sure # "yes" PROVE m[0] # Zero \/ m[1] # Zero
    <2>1. CASE worker \in Formatting
      BY <1>5, <2>1 DEF StoreInv, DiskOK, FormatOK
    <2>2. CASE mode = "damaged"
      <3>1. pend = NoPend /\ (medium[0] # Zero \/ medium[1] # Zero)
        BY <1>5, <2>2 DEF StoreInv, DiskOK, OffOK
      <3> QED
        BY <3>1, KeptIs, Sizes DEF NoPend
    <2>3. CASE worker = "made"
      <3>1. Copy \in {0, 1} /\ pend = NoPend /\ medium[Copy] = Super(tx.at, tx.next)
        BY <2>3 DEF StoreInv, DiskOK, MadeOK, Copy, State
      <3>2. Copy \in Blocks /\ pend[Copy] = <<>>
        BY <3>1, Sizes DEF NoPend
      <3>3. m[Copy] = Super(tx.at, tx.next)
        BY <3>1, <3>2, KeptIs
      <3> QED
        BY <3>1, <3>3, Kinds
    <2>4. CASE worker \in Serving \cup TxAt \cup {"refused"} /\ mode # "damaged"
      BY <2>4, NotBlank DEF StoreInv, DiskOK, RunningOK
    <2> QED
      BY <1>2, <2>1, <2>2, <2>3, <2>4 DEF StoreInv, HandBase, WorkerOK, Ending
  <1>6. OffOK'
    BY <1>1, <1>2, <1>4, <1>5 DEF OffOK, State, Has, Elder
  <1> QED
    BY <1>2, <1>3, <1>6 DEF DiskOK, Serving, TxAt, Formatting

-----------------------------------------------------------------------------
(* The start and the format.                                               *)

LEMMA NoGroupOK ==
  ASSUME group' = NoGroup PROVE GroupOK'
  BY Blanks DEF GroupOK, StagedOK, OpenOK

LEMMA NoPendIs == \A b \in Blocks : NoPend[b] = <<>>
  BY DEF NoPend

LEMMA StillAll ==
  ASSUME pend = NoPend, NEW B, B \subseteq Blocks PROVE Still(B)
  BY NoPendIs DEF Still

\* A start that reads every block finds the state that was made last or one
\* under way, while the worker knew what the disk holds.
LEMMA OpenSure ==
  ASSUME OffOK, sure = "yes", NEW c \in Chosen({})
  PROVE /\ c \in {0, 1} /\ State(medium, c, medium[c].at, medium[c].sha)
        /\ Promise(medium[c].sha) \in {held} \cup flight
        /\ ReadBack(medium[c].sha) = Promise(medium[c].sha)
  <1>1. PICK d \in {0, 1} : State(medium, d, medium[d].at, medium[d].sha)
                            /\ Promise(medium[d].sha) \in {held} \cup flight
    BY NoneChosen DEF OffOK
  <1>2. c = d
    BY <1>1, ChosenIs
  <1>3. On(medium, medium[d].sha)
    BY <1>1 DEF State, Has
  <1> QED
    BY <1>1, <1>2, <1>3, ReadBackIs

\* What every start opens is a superblock and its table.
LEMMA OpenSound ==
  ASSUME DiskType, NEW bad, NEW c \in Chosen(bad)
  PROVE /\ c \in {0, 1} /\ medium[c].at \in Extents /\ TableOK(medium[c].sha)
        /\ medium[c] = Super(medium[c].at, medium[c].sha) /\ medium[medium[c].at] = medium[c].sha
  <1>1. c \in {0, 1} /\ medium[c].kind = "super" /\ medium[medium[c].at] = medium[c].sha
    BY ChosenLoads
  <1>2. Sound(medium[c])
    BY <1>1, Sizes DEF DiskType
  <1> QED
    BY <1>1, <1>2 DEF Sound

\* A start that opens nothing and says so: what is on the disk stays.
LEMMA OpenDamaged ==
  ASSUME OffOK, medium' = medium, pend' = pend, sure' = sure,
         NEW bad, NEW died \in BOOLEAN, (Chosen(bad) = {} /\ ~BlankDisk(bad)) \/ died,
         IF bad = {} /\ ~died THEN held' = LostState /\ flight' = {} ELSE UNCHANGED <<held, flight>>
  PROVE OffOK'
  <1>1. CASE ~(bad = {} /\ ~died) \/ sure = "lost"
    BY <1>1 DEF OffOK, State, Has, Elder
  <1>2. CASE bad = {} /\ ~died /\ sure = "yes"
    <2>1. Chosen({}) = {} /\ ~(medium[0] = Zero /\ medium[1] = Zero)
      BY <1>2 DEF BlankDisk
    <2>2. medium[0] = Torn /\ medium[1] = Zero
      BY <1>2, <2>1, ChosenIs DEF OffOK
    <2> QED
      BY <1>2, <2>2 DEF OffOK
  <1> QED
    BY <1>1, <1>2 DEF OffOK

LEMMA OpenDisk ==
  ASSUME StoreInv, open, UNCHANGED <<group, mainVars>>
  PROVE DiskOK' /\ GroupOK'
  <1>1. worker = "off" /\ OffOK /\ DiskType /\ group = NoGroup /\ pend = NoPend
    BY DEF open, StoreInv, DiskOK, OffOK, HandBase, ModeOK, Quiet
  <1>2. medium' = medium /\ pend' = pend /\ group' = NoGroup
    BY <1>1 DEF open, diskVars
  <1>3. DiskType'
    BY <1>1, <1>2 DEF DiskType
  <1>4. GroupOK'
    BY <1>2, NoGroupOK
  <1>5. ASSUME NEW bad, NEW c \in Chosen(bad), NEW shown, Opens(c, bad, shown), mode' \in {"ok", "nostore"}
        PROVE DiskOK'
    <2>0. /\ opened' = [copy |-> c, at |-> medium[c].at] /\ table' = medium[c].sha
          /\ held' = ReadBack(medium[c].sha) /\ flight' = {} /\ worker' = "serve"
          /\ sure' = IF c \in Chosen({}) THEN sure ELSE "lost"
      BY <1>5 DEF Opens
    <2>1. /\ c \in {0, 1} /\ medium[c].at \in Extents /\ TableOK(medium[c].sha)
          /\ medium[c] = Super(medium[c].at, medium[c].sha) /\ medium[medium[c].at] = medium[c].sha
      BY <1>1, OpenSound
    <2>2. opened' \in [copy : {0, 1}, at : Extents] /\ opened'.copy = c /\ opened'.at = medium[c].at
      BY <2>0, <2>1
    <2>s. sure \in {"yes", "lost"} /\ sure' \in {"yes", "lost"}
      BY <1>1, <2>0 DEF OffOK
    <2>3. State(medium, opened.copy, opened.at, table)' /\ (sure' # "lost" => held' = Promise(table'))
      <3>1. CASE sure' = "lost"
        BY <1>2, <2>0, <2>1, <2>2, <3>1 DEF State, Has
      <3>2. CASE sure' = "yes"
        <4>1. sure = "yes" /\ c \in Chosen({})
          BY <2>0, <3>2
        <4>2. State(medium, c, medium[c].at, medium[c].sha) /\ ReadBack(medium[c].sha) = Promise(medium[c].sha)
          BY <1>1, <4>1, OpenSure
        <4> QED
          BY <1>2, <2>0, <2>2, <3>2, <4>1, <4>2 DEF State, Has, Elder
      <3> QED
        BY <2>s, <3>1, <3>2
    <2>4. Still({opened.copy} \cup Occupied(table, opened.at))'
      <3>1. {opened'.copy} \cup Occupied(table', opened'.at) \subseteq Blocks
        <4>1. Occupied(table', opened'.at) \subseteq Blocks
          BY <2>0, <2>1, <2>2, Holds
        <4> QED
          BY <2>1, <2>2, <4>1, Sizes
      <3> QED
        BY <1>1, <1>2, <3>1, NoPendIs DEF Still
    <2>5. Based'
      BY <2>2, <2>3, <2>4 DEF Based
    <2>6. Settled'
      BY <1>1, <1>2, <2>0, <2>1, <2>2, NoPendIs, Sizes DEF Settled, Copy
    <2>7. RunningOK'
      BY <2>0, <2>3, <2>5, <2>6 DEF RunningOK, TxAt
    <2> QED
      BY <1>3, <1>5, <2>0, <2>s, <2>7 DEF DiskOK, Formatting
  <1>6. ASSUME NEW bad, BlankDisk(bad), held' = BlankState, flight' = {}, worker' = "format",
               mode' = "starting", sure' = sure
        PROVE DiskOK'
    <2>0. medium[0] = Zero /\ medium[1] = Zero /\ sure = "yes"
      BY <1>1, <1>6 DEF BlankDisk, OffOK
    <2>1. FormatOK'
      BY <1>1, <1>2, <1>6, <2>0, NoPendIs, Sizes DEF FormatOK
    <2> QED
      BY <1>3, <1>6, <2>0, <2>1 DEF DiskOK, Serving, TxAt, Formatting
  <1>7. ASSUME OffOK', worker' = "serve", mode' = "damaged"
        PROVE DiskOK'
    <2>1. sure' \in {"yes", "lost"}
      BY <1>7 DEF OffOK
    <2> QED
      BY <1>3, <1>7, <2>1 DEF DiskOK, Formatting
  <1>8. PICK bad \in SUBSET Blocks, refused \in SUBSET Fixed, died \in BOOLEAN :
        \/ /\ mode' = IF died THEN "nostore" ELSE "ok"
           /\ \E c \in Chosen(bad) :
                   Opens(c, bad, {i \in Fixed : Takes(medium[c].sha, i, bad)} \ refused)
        \/ /\ BlankDisk(bad) /\ ~died
           /\ worker' = "format" /\ mode' = "starting"
           /\ held' = BlankState /\ flight' = {} /\ sure' = sure
        \/ /\ (Chosen(bad) = {} /\ ~BlankDisk(bad)) \/ died
           /\ worker' = "serve" /\ mode' = "damaged"
           /\ IF bad = {} /\ ~died THEN held' = LostState /\ flight' = {}
              ELSE UNCHANGED <<held, flight>>
           /\ sure' = sure
    BY DEF open
  <1> QED
    BY <1>1, <1>2, <1>4, <1>5, <1>6, <1>7, <1>8, OpenDamaged

\* The steps of the format.
LEMMA FormatDisk ==
  ASSUME StoreInv, format, UNCHANGED <<group, mainVars>>
  PROVE DiskOK' /\ GroupOK'
  <1>1. worker \in Formatting /\ FormatOK /\ DiskType /\ group = NoGroup
    BY DEF format, FormatStep, FormatFails, StoreInv, DiskOK, HandBase, ModeOK, Quiet, Formatting
  <1>2. GroupOK'
    BY <1>1, NoGroupOK
  <1>3. SUPERS \in Blocks /\ 0 \in Blocks /\ 1 \in Blocks /\ SUPERS # 0 /\ SUPERS # 1
    BY Sizes
  <1>s. Sound(First) /\ Sound(Super(SUPERS, First))
    BY FirstOK, SoundIs, Sizes DEF TableOK
  <1>4. SUFFICES /\ worker' \in Formatting /\ DiskType' /\ FormatOK' /\ mode' # "damaged"
    BY <1>2 DEF DiskOK, FormatOK, Formatting, Serving, TxAt
  <1>5. mode # "damaged"
    BY <1>1 DEF StoreInv, HandBase, ModeOK, Formatting
  <1>6. CASE /\ FormatStep("format", "format_flush", Write(SUPERS, First))
             /\ flight' = {Promise(First)} /\ UNCHANGED <<held, sure>>
    <2>1. worker = "format" /\ worker' = "format_flush" /\ pend' = Written(SUPERS, First) /\ UNCHANGED <<medium, mode>>
      BY <1>6 DEF FormatStep, Write
    <2>2. DiskType' /\ Flushed'[SUPERS] = First /\ pend'[0] = pend[0] /\ pend'[1] = pend[1]
      BY <1>1, <1>3, <1>s, <2>1, WriteIs
    <2> QED
      BY <1>1, <1>3, <1>5, <1>6, <2>1, <2>2, NoPendIs DEF FormatOK, Formatting
  <1>7. CASE FormatStep("format_flush", "format_super", Flush) /\ UNCHANGED ghostVars
    <2>1. worker = "format_flush" /\ worker' = "format_super" /\ medium' = Flushed /\ pend' = NoPend /\ mode' = mode
      BY <1>7 DEF FormatStep, Flush
    <2>2. /\ DiskType' /\ medium'[SUPERS] = Flushed[SUPERS]
          /\ \A b \in Blocks : pend'[b] = <<>> /\ (pend[b] = <<>> => medium'[b] = medium[b])
      BY <1>1, <1>3, <2>1, FlushIs
    <2> QED
      BY <1>1, <1>3, <1>5, <1>7, <2>1, <2>2 DEF FormatOK, Formatting, ghostVars
  <1>8. CASE /\ FormatStep("format_super", "format_last", Write(0, Super(SUPERS, First)))
             /\ UNCHANGED ghostVars
    <2>1. /\ worker = "format_super" /\ worker' = "format_last" /\ pend' = Written(0, Super(SUPERS, First))
          /\ UNCHANGED <<medium, mode>>
      BY <1>8 DEF FormatStep, Write
    <2>2. /\ DiskType' /\ pend'[SUPERS] = pend[SUPERS] /\ pend'[1] = pend[1]
          /\ (pend[0] = <<>> => pend'[0] = <<Super(SUPERS, First)>>)
      BY <1>1, <1>3, <1>s, <2>1, WriteIs
    <2> QED
      BY <1>1, <1>3, <1>5, <1>8, <2>1, <2>2 DEF FormatOK, Formatting, ghostVars
  <1>9. CASE FormatFails("format", WriteFails(SUPERS, First))
    <2>1. /\ worker = "format" /\ worker' = "stopped" /\ mode' = "nostore" /\ UNCHANGED ghostVars
          /\ WriteFails(SUPERS, First)
      BY <1>9 DEF FormatFails
    <2>2. DiskType' /\ medium' = medium /\ pend'[0] = pend[0] /\ pend'[1] = pend[1]
      BY <1>1, <1>3, <1>s, <2>1, WriteFailsIs
    <2> QED
      BY <1>1, <1>3, <2>1, <2>2, NoPendIs DEF FormatOK, Formatting, ghostVars
  <1>10. CASE \/ FormatFails("format_flush", FlushFails) \/ FormatFails("format_last", FlushFails)
    <2>1. /\ worker \in {"format_flush", "format_last"} /\ worker' = "stopped" /\ mode' = "nostore"
          /\ UNCHANGED ghostVars /\ FlushFails
      BY <1>10 DEF FormatFails
    <2>2. /\ DiskType' /\ medium' = medium /\ (pend' = pend \/ pend' = NoPend)
          /\ \A x \in Blocks : pend[x] = <<>> => pend'[x] = <<>>
      BY <1>1, <2>1, FlushFailsIs
    <2> QED
      BY <1>1, <1>3, <2>1, <2>2, NoPendIs DEF FormatOK, Formatting, ghostVars
  <1>11. CASE FormatFails("format_super", WriteFails(0, Super(SUPERS, First)))
    <2>1. /\ worker = "format_super" /\ worker' = "stopped" /\ mode' = "nostore" /\ UNCHANGED ghostVars
          /\ WriteFails(0, Super(SUPERS, First))
      BY <1>11 DEF FormatFails
    <2>2. /\ DiskType' /\ medium' = medium /\ pend'[SUPERS] = pend[SUPERS] /\ pend'[1] = pend[1]
          /\ (pend[0] = <<>> => pend'[0] \in {<<>>, <<Super(SUPERS, First)>>})
      BY <1>1, <1>3, <1>s, <2>1, WriteFailsIs
    <2> QED
      BY <1>1, <1>3, <2>1, <2>2 DEF FormatOK, Formatting, ghostVars
  <1> QED
    BY <1>6, <1>7, <1>8, <1>9, <1>10, <1>11 DEF format

LEMMA FormatDoneDisk ==
  ASSUME StoreInv, format_done, UNCHANGED <<group, mainVars>>
  PROVE DiskOK' /\ GroupOK'
  <1>1. worker = "format_last" /\ FormatOK /\ DiskType /\ group = NoGroup
    BY DEF format_done, StoreInv, DiskOK, HandBase, ModeOK, Quiet, Formatting
  <1>2. GroupOK'
    BY <1>1, NoGroupOK
  <1>3. /\ medium' = Flushed /\ pend' = NoPend /\ table' = First /\ opened' = [copy |-> 0, at |-> SUPERS]
        /\ held' = Promise(First) /\ flight' = {} /\ worker' = "serve" /\ mode' = "ok"
        /\ sure' = sure /\ sure = "yes"
    BY <1>1 DEF format_done, FormatOK
  <1>4. SUPERS \in Blocks /\ 0 \in Blocks /\ 1 \in Blocks /\ SUPERS \in Extents
    BY Sizes
  <1>5. Flushed[0] = Super(SUPERS, First) /\ Flushed[1] = Zero /\ Flushed[SUPERS] = First
    <2>1. pend[0] = <<Super(SUPERS, First)>> /\ pend[1] = <<>> /\ pend[SUPERS] = <<>>
          /\ medium[1] = Zero /\ medium[SUPERS] = First
      BY <1>1 DEF FormatOK
    <2> QED
      BY <1>4, <2>1, FlushedIs, OneWrite
  <1>6. DiskType' /\ \A b \in Blocks : pend'[b] = <<>> /\ medium'[b] = Flushed[b]
    BY <1>1, <1>3, FlushIs
  <1>7. opened' \in [copy : {0, 1}, at : Extents] /\ opened'.copy = 0 /\ opened'.at = SUPERS
    BY <1>3, <1>4
  <1>8. TableOK(First) /\ On(medium', First)
    BY FirstOK
  <1>9. State(medium', 0, SUPERS, First)
    BY <1>4, <1>5, <1>6, <1>8, Kinds DEF State, Has, Elder
  <1>10. Still({opened.copy} \cup Occupied(table, opened.at))'
    <2>1. {opened'.copy} \cup Occupied(table', opened'.at) \subseteq Blocks
      BY <1>3, <1>4, <1>7, <1>8, Holds
    <2> QED
      BY <1>6, <2>1 DEF Still
  <1>11. Based'
    BY <1>3, <1>7, <1>9, <1>10 DEF Based, State, Has, Elder
  <1>12. Settled'
    BY <1>3, <1>4, <1>6, <1>7 DEF Settled, Copy
  <1>13. RunningOK'
    BY <1>3, <1>11, <1>12 DEF RunningOK, TxAt
  <1> QED
    BY <1>2, <1>3, <1>6, <1>13 DEF DiskOK, Formatting

-----------------------------------------------------------------------------
(* The steps of a transaction.                                             *)

LEMMA BasedIs ==
  ASSUME Based
  PROVE /\ opened.copy \in {0, 1} /\ Copy \in {0, 1} /\ Copy # opened.copy /\ 1 - opened.copy = Copy
        /\ 1 - Copy = opened.copy
        /\ opened.copy \in Blocks /\ Copy \in Blocks /\ opened.at \in Extents /\ TableOK(table)
        /\ Occupied(table, opened.at) \subseteq Blocks /\ Copy \notin Occupied(table, opened.at)
        /\ opened.copy \notin Occupied(table, opened.at)
  <1>1. opened.copy \in {0, 1} /\ opened.at \in Extents /\ TableOK(table)
    BY DEF Based, State
  <1>2. Copy \in {0, 1} /\ Copy # opened.copy /\ 1 - opened.copy = Copy /\ 1 - Copy = opened.copy
    BY <1>1 DEF Copy
  <1> QED
    BY <1>1, <1>2, Holds, Sizes

\* The accepted state stays where it is.
LEMMA BasedKept ==
  ASSUME Based, UNCHANGED stateVars, sure' = sure, sure = "yes" => medium'[Copy] = medium[Copy],
         \A b \in {opened.copy} \cup Occupied(table, opened.at) : pend'[b] = <<>> /\ medium'[b] = medium[b]
  PROVE Based'
  <1>1. opened' = opened /\ table' = table
    BY DEF stateVars
  <1>2. State(medium, opened.copy, opened.at, table)
    BY DEF Based
  <1>3. CASE sure = "yes"
    <2>1. State(medium', opened.copy, opened.at, table)
      BY <1>2, <1>3, BasedIs, SameState
    <2> QED
      BY <1>1, <2>1 DEF Based, State, Has, Elder, Still
  <1>4. CASE sure # "yes"
    <2>1. medium'[opened.copy] = Super(opened.at, table) /\ medium'[opened.at] = table /\ Has(medium', table)
      BY <1>2, BasedIs, Holds, HasSame DEF State
    <2> QED
      BY <1>1, <1>4, <2>1 DEF Based, State, Has, Still
  <1> QED
    BY <1>3, <1>4

\* A write beside the accepted state and beside the copies.
LEMMA BasedWrite ==
  ASSUME Based, UNCHANGED <<stateVars, sure>>, medium' = medium,
         NEW e, e \notin Occupied(table, opened.at), e # opened.copy,
         \A b \in Blocks : b # e => pend'[b] = pend[b]
  PROVE Based'
  <1>1. \A b \in {opened.copy} \cup Occupied(table, opened.at) : b \in Blocks /\ pend[b] = <<>> /\ b # e
    BY BasedIs DEF Based, Still
  <1> QED
    BY <1>1, BasedKept

LEMMA BasedFlush ==
  ASSUME DiskType, Based, UNCHANGED <<stateVars, sure>>, medium' = Flushed, pend' = NoPend,
         sure = "yes" => pend[Copy] = <<>>
  PROVE Based'
  <1>1. \A b \in Blocks : pend'[b] = <<>> /\ (pend[b] = <<>> => medium'[b] = medium[b])
    BY FlushIs
  <1>2. \A b \in {opened.copy} \cup Occupied(table, opened.at) : b \in Blocks /\ pend[b] = <<>>
    BY BasedIs DEF Based, Still
  <1> QED
    BY <1>1, <1>2, BasedIs, BasedKept

LEMMA BasedLost ==
  ASSUME Based, UNCHANGED <<stateVars, sure>>, medium' = medium, \A b \in Blocks : pend[b] = <<>> => pend'[b] = <<>>
  PROVE Based'
  <1>1. \A b \in {opened.copy} \cup Occupied(table, opened.at) : b \in Blocks /\ pend[b] = <<>>
    BY BasedIs DEF Based, Still
  <1> QED
    BY <1>1, BasedKept

\* The data flushed are on the medium.
LEMMA OnFlushed ==
  ASSUME NEW t, TableOK(t), Has(Flushed, t), medium' = Flushed
  PROVE Has(medium', t)
  BY DEF Has, On, Has

LEMMA TxParts ==
  ASSUME StoreInv, worker \in TxAt
  PROVE DiskType /\ sure \in {"yes", "no", "lost"} /\ Based /\ (sure # "lost" => held = Promise(table)) /\ TxOK /\ mode # "damaged" /\ TableOK(tx.next)
        /\ tx.next.gen = table.gen + 1 /\ Promise(tx.next) \in flight /\ (sure = "yes" => flight = {Promise(tx.next)})
  BY DEF StoreInv, DiskOK, RunningOK, TxOK, HandBase, ModeOK, TxAt

\* What a step from one place of the transaction to another has to leave.
LEMMA TxDisk ==
  ASSUME worker' \in TxAt, mode' # "damaged", DiskType', Based', (sure # "lost" => held = Promise(table))', TxOK', sure' \in {"yes", "no", "lost"}
  PROVE DiskOK' /\ GroupOK'
  BY DEF DiskOK, GroupOK, RunningOK, Serving, TxAt, Formatting

LEMMA RefusedDisk ==
  ASSUME worker' = "refused", mode' # "damaged", DiskType', Based', (sure # "lost" => held = Promise(table))',
         sure' = "yes" => Settled' \/ Late', sure' \in {"yes", "no", "lost"}
  PROVE DiskOK' /\ GroupOK'
  BY DEF DiskOK, GroupOK, RunningOK, Serving, TxAt, Formatting

LEMMA DataFlushedDisk ==
  ASSUME StoreInv, DataFlushed
  PROVE DiskOK' /\ GroupOK'
  <1>1. /\ worker = "f1" /\ worker' = "table" /\ medium' = Flushed /\ pend' = NoPend /\ mode' = mode
        /\ UNCHANGED <<stateVars, tx, ghostVars>>
    BY DEF DataFlushed, StepTx, Flush
  <1>2. /\ DiskType /\ sure \in {"yes", "no", "lost"} /\ Based /\ (sure # "lost" => held = Promise(table)) /\ TxOK /\ mode # "damaged" /\ TableOK(tx.next)
        /\ tx.next.gen = table.gen + 1 /\ Promise(tx.next) \in flight /\ (sure = "yes" => flight = {Promise(tx.next)})
    BY <1>1, TxParts DEF TxAt
  <1>3. (sure = "yes" => pend[Copy] = <<>>) /\ Has(Flushed, tx.next)
    BY <1>1, <1>2 DEF TxOK
  <1>4. Based' /\ DiskType'
    BY <1>1, <1>2, <1>3, BasedFlush, FlushIs DEF ghostVars
  <1>5. Has(medium', tx.next)
    BY <1>1, <1>2, <1>3, OnFlushed
  <1>6. table' = table /\ opened' = opened /\ Copy' = Copy /\ tx' = tx /\ held' = held /\ flight' = flight /\ sure' = sure
    BY <1>1 DEF stateVars, ghostVars, Copy
  <1>7. TxOK'
    <2>1. pend'[Copy] = <<>>
      BY <1>1, <1>2, BasedIs, NoPendIs
    <2> QED
      BY <1>1, <1>2, <1>5, <1>6, <2>1 DEF TxOK, On, Has
  <1> QED
    BY <1>1, <1>2, <1>4, <1>6, <1>7, TxDisk DEF TxAt

\* A refusal before the superblock.
LEMMA EarlyDisk ==
  ASSUME StoreInv, worker \in {"f1", "f2", "table", "attach"}, worker' = "refused", Refuse, held' = held,
         UNCHANGED <<stateVars, tx>>, DiskType', medium' = medium, mode' \in {mode, "nostore"},
         NEW e, e \notin Occupied(table, opened.at), e # opened.copy, e # Copy,
         \A b \in Blocks : b # e /\ pend[b] = <<>> => pend'[b] = <<>>
  PROVE DiskOK' /\ GroupOK'
  <1>1. /\ DiskType /\ sure \in {"yes", "no", "lost"} /\ Based /\ (sure # "lost" => held = Promise(table)) /\ TxOK /\ mode # "damaged"
        /\ Promise(tx.next) \in flight /\ (sure = "yes" => flight = {Promise(tx.next)})
    BY TxParts DEF TxAt
  <1>2. table' = table /\ opened' = opened /\ Copy' = Copy /\ sure' = sure /\ (sure = "yes" => flight' = {})
    BY <1>1 DEF stateVars, Copy, Refuse
  <1>3. Based'
    <2>1. \A b \in {opened.copy} \cup Occupied(table, opened.at) : b \in Blocks /\ pend[b] = <<>> /\ b # e
      BY <1>1, BasedIs DEF Based, Still
    <2> QED
      BY <1>1, <1>2, <2>1, BasedKept
  <1>4. sure' = "yes" => Settled'
    BY <1>1, <1>2, BasedIs DEF TxOK, Settled
  <1>5. mode' # "damaged" /\ (sure # "lost" => held = Promise(table))'
    BY <1>1, <1>2
  <1> QED
    BY <1>1, <1>2, <1>3, <1>4, <1>5, RefusedDisk

\* The extent of the next table is clear of both states.
LEMMA TableExtent ==
  ASSUME Based, free_table_extent(tx.next) # 0
  PROVE /\ free_table_extent(tx.next) \in Extents /\ free_table_extent(tx.next) \in Blocks
        /\ free_table_extent(tx.next) \notin Occupied(table, opened.at) \cup Occupied(tx.next, opened.at)
        /\ free_table_extent(tx.next) # opened.copy /\ free_table_extent(tx.next) # Copy
  <1>1. free_table_extent(tx.next) \in Extents \ (Occupied(table, opened.at) \cup Occupied(tx.next, opened.at))
    BY FreeExtent DEF free_table_extent
  <1> QED
    BY <1>1, Sizes, BasedIs

LEMMA EarlyIoDisk ==
  ASSUME StoreInv, EarlyIo
  PROVE DiskOK' /\ GroupOK'
  <1>1. /\ worker \in {"f1", "f2", "table"} /\ worker' = "refused" /\ Refuse /\ held' = held
        /\ UNCHANGED <<stateVars, tx>>
    BY DEF EarlyIo, Refuse
  <1>2. DiskType /\ Based /\ TableOK(tx.next)
    BY <1>1, TxParts DEF TxAt
  <1>s. Sound(tx.next)
    BY <1>2, SoundIs DEF TableOK
  <1>3. CASE worker \in {"f1", "f2"}
    <2>1. FlushFails
      BY <1>3 DEF EarlyIo
    <2>2. /\ DiskType' /\ medium' = medium /\ mode' \in {mode, "nostore"}
          /\ \A b \in Blocks : pend[b] = <<>> => pend'[b] = <<>>
      BY <1>2, <2>1, FlushFailsIs
    <2>3. \A b \in Blocks : b # 5 + LastExtent /\ pend[b] = <<>> => pend'[b] = <<>>
      BY <2>2
    <2>4. 5 + LastExtent \notin Blocks
      BY Sizes DEF Blocks
    <2>5. PICK e : e \notin Blocks /\ \A b \in Blocks : b # e /\ pend[b] = <<>> => pend'[b] = <<>>
      BY <2>3, <2>4
    <2>6. e \notin Occupied(table, opened.at) /\ e # opened.copy /\ e # Copy
      BY <1>2, <2>5, BasedIs
    <2> QED
      BY <1>1, <2>2, <2>5, <2>6, EarlyDisk
  <1>4. CASE worker = "table"
    <2>1. free_table_extent(tx.next) # 0 /\ WriteFails(free_table_extent(tx.next), tx.next)
      BY <1>4 DEF EarlyIo
    <2>2. PICK e \in Blocks : /\ e \notin Occupied(table, opened.at) /\ e # opened.copy /\ e # Copy
                              /\ WriteFails(e, tx.next)
      BY <1>2, <2>1, TableExtent
    <2>3. /\ DiskType' /\ medium' = medium /\ mode' \in {mode, "nostore"}
          /\ \A b \in Blocks : b # e => pend'[b] = pend[b]
      BY <1>2, <1>s, <2>2, WriteFailsIs
    <2>4. \A b \in Blocks : b # e /\ pend[b] = <<>> => pend'[b] = <<>>
      BY <2>3
    <2> QED
      BY <1>1, <2>2, <2>3, <2>4, EarlyDisk
  <1> QED
    BY <1>1, <1>3, <1>4

\* A refusal that touches no block.
LEMMA NoIoDisk ==
  ASSUME StoreInv, NoSpace \/ AttachRefused
  PROVE DiskOK' /\ GroupOK'
  <1>1. /\ worker \in {"table", "attach"} /\ worker' = "refused" /\ Refuse /\ held' = held
        /\ UNCHANGED <<stateVars, tx>> /\ mode' = mode /\ medium' = medium /\ pend' = pend
    BY DEF NoSpace, AttachRefused, StepTx, diskVars, Refuse
  <1>2. DiskType /\ Based
    BY <1>1, TxParts DEF TxAt
  <1>3. DiskType'
    BY <1>1, <1>2 DEF DiskType
  <1>4. 5 + LastExtent \notin Blocks
    BY Sizes DEF Blocks
  <1>5. PICK e : e \notin Blocks
    BY <1>4
  <1>6. e \notin Occupied(table, opened.at) /\ e # opened.copy /\ e # Copy
    BY <1>2, <1>5, BasedIs
  <1> QED
    BY <1>1, <1>3, <1>6, EarlyDisk

LEMMA WriteTableDisk ==
  ASSUME StoreInv, write_table
  PROVE DiskOK' /\ GroupOK'
  <1>1. /\ worker = "table" /\ worker' = "f2" /\ free_table_extent(tx.next) # 0 /\ mode' = mode
        /\ pend' = Written(free_table_extent(tx.next), tx.next) /\ medium' = medium
        /\ tx' = [tx EXCEPT !.at = free_table_extent(tx.next)]
        /\ UNCHANGED <<stateVars, ghostVars>>
    BY DEF write_table, StepTx, Write
  <1>2. /\ DiskType /\ sure \in {"yes", "no", "lost"} /\ Based /\ (sure # "lost" => held = Promise(table)) /\ TxOK /\ mode # "damaged" /\ TableOK(tx.next)
        /\ tx.next.gen = table.gen + 1 /\ Promise(tx.next) \in flight /\ (sure = "yes" => flight = {Promise(tx.next)})
    BY <1>1, TxParts DEF TxAt
  <1>3. PICK e \in Blocks :
           /\ e = free_table_extent(tx.next) /\ e \in Extents
           /\ e \notin Occupied(table, opened.at) \cup Occupied(tx.next, opened.at)
           /\ e # opened.copy /\ e # Copy
    BY <1>1, <1>2, TableExtent
  <1>4. /\ DiskType' /\ Flushed'[e] = tx.next /\ \A b \in Blocks : b # e => pend'[b] = pend[b]
    BY <1>1, <1>2, <1>3, WriteIs, SoundIs DEF TableOK
  <1>5. Based'
    BY <1>1, <1>2, <1>3, <1>4, BasedWrite DEF ghostVars
  <1>6. tx'.next = tx.next /\ tx'.at = e
    <2>1. tx = [kind |-> tx.kind, next |-> tx.next, detach |-> tx.detach, attach |-> tx.attach,
                at |-> tx.at]
      BY DEF StoreInv, HandBase, HandType
    <2>2. tx' = [kind |-> tx.kind, next |-> tx.next, detach |-> tx.detach, attach |-> tx.attach, at |-> e]
      BY <1>1, <1>3, <2>1
    <2> QED
      BY <2>2
  <1>7. table' = table /\ opened' = opened /\ Copy' = Copy /\ held' = held /\ flight' = flight /\ sure' = sure
    BY <1>1 DEF stateVars, ghostVars, Copy
  <1>8. pend = NoPend /\ Has(medium, tx.next)
    BY <1>1, <1>2 DEF TxOK
  <1>9. Still(Blocks \ {e})' /\ pend'[Copy] = <<>>
    BY <1>2, <1>3, <1>4, <1>8, NoPendIs, BasedIs DEF Still
  <1>10. TxOK'
    BY <1>1, <1>2, <1>3, <1>4, <1>6, <1>7, <1>8, <1>9 DEF TxOK, Still, On, Has
  <1> QED
    BY <1>1, <1>2, <1>4, <1>5, <1>7, <1>10, TxDisk DEF TxAt

\* The next state is on the medium but for its superblock.
LEMMA TableFlushedDisk ==
  ASSUME StoreInv, TableFlushed
  PROVE DiskOK' /\ GroupOK'
  <1>1. /\ worker = "f2" /\ worker' \in {"attach", "super"} /\ medium' = Flushed /\ pend' = NoPend /\ mode' = mode
        /\ UNCHANGED <<stateVars, tx, ghostVars>>
    BY DEF TableFlushed, StepTx, Flush
  <1>2. /\ DiskType /\ sure \in {"yes", "no", "lost"} /\ Based /\ (sure # "lost" => held = Promise(table)) /\ TxOK /\ mode # "damaged" /\ TableOK(tx.next)
        /\ tx.next.gen = table.gen + 1 /\ Promise(tx.next) \in flight /\ (sure = "yes" => flight = {Promise(tx.next)})
    BY <1>1, TxParts DEF TxAt
  <1>3. /\ pend[Copy] = <<>> /\ Has(medium, tx.next) /\ tx.at \in Extents
        /\ tx.at \notin Occupied(table, opened.at) \cup Occupied(tx.next, opened.at)
        /\ Still(Blocks \ {tx.at}) /\ Flushed[tx.at] = tx.next
    BY <1>1, <1>2 DEF TxOK
  <1>4. Based' /\ DiskType'
    BY <1>1, <1>2, <1>3, BasedFlush, FlushIs DEF ghostVars
  <1>5. table' = table /\ opened' = opened /\ Copy' = Copy /\ tx' = tx /\ held' = held /\ flight' = flight /\ sure' = sure
    BY <1>1 DEF stateVars, ghostVars, Copy
  <1>6. \A b \in Blocks : pend'[b] = <<>> /\ medium'[b] = Flushed[b] /\ (pend[b] = <<>> => medium'[b] = medium[b])
    BY <1>1, <1>2, FlushIs
  <1>7. medium'[tx.at] = tx.next
    BY <1>3, <1>6, Sizes
  <1>8. Has(medium', tx.next)
    <2>1. \A b \in Occupied(tx.next, opened.at) : b \in Blocks /\ b # tx.at
      BY <1>2, <1>3, Holds, BasedIs
    <2>2. \A b \in Occupied(tx.next, opened.at) : medium'[b] = medium[b]
      BY <1>3, <1>6, <2>1 DEF Still
    <2> QED
      BY <1>3, <2>2, HasSame
  <1>9. NextState(tx.at, tx.next)'
    BY <1>2, <1>3, <1>5, <1>6, <1>7, <1>8 DEF NextState, Still, On, Has
  <1>10. TxOK'
    <2>1. pend'[Copy] = <<>>
      BY <1>2, <1>6, BasedIs
    <2> QED
      BY <1>1, <1>2, <1>5, <1>8, <1>9, <2>1 DEF TxOK, On, Has
  <1> QED
    BY <1>1, <1>2, <1>4, <1>5, <1>10, TxDisk DEF TxAt

LEMMA AttachDisk ==
  ASSUME StoreInv, attach
  PROVE DiskOK' /\ GroupOK'
  <1>1. /\ worker = "attach" /\ worker' = "super" /\ medium' = medium /\ pend' = pend /\ mode' = mode
        /\ UNCHANGED <<stateVars, tx, ghostVars>>
    BY DEF attach, StepTx, diskVars
  <1>2. /\ DiskType /\ sure \in {"yes", "no", "lost"} /\ Based /\ (sure # "lost" => held = Promise(table)) /\ TxOK /\ mode # "damaged"
    BY <1>1, TxParts DEF TxAt
  <1>3. table' = table /\ opened' = opened /\ Copy' = Copy /\ tx' = tx /\ held' = held /\ flight' = flight /\ sure' = sure
    BY <1>1 DEF stateVars, ghostVars, Copy
  <1>4. DiskType' /\ Based'
    BY <1>1, <1>2, <1>3 DEF DiskType, Based, State, Has, Elder, Still
  <1>5. TxOK'
    BY <1>1, <1>2, <1>3 DEF TxOK, NextState, Still, On, Has
  <1> QED
    BY <1>1, <1>2, <1>3, <1>4, <1>5, TxDisk DEF TxAt

LEMMA WriteSuperDisk ==
  ASSUME StoreInv, write_super
  PROVE DiskOK' /\ GroupOK'
  <1>1. /\ worker = "super" /\ worker' = "f3" /\ medium' = medium /\ pend' = Written(Copy, NextSuper) /\ mode' = mode
        /\ UNCHANGED <<stateVars, tx, ghostVars>>
    BY DEF write_super, StepTx, Write
  <1>2. /\ DiskType /\ sure \in {"yes", "no", "lost"} /\ Based /\ (sure # "lost" => held = Promise(table)) /\ TxOK /\ mode # "damaged"
    BY <1>1, TxParts DEF TxAt
  <1>3. /\ table' = table /\ opened' = opened /\ Copy' = Copy /\ tx' = tx /\ held' = held /\ flight' = flight /\ sure' = sure
        /\ NextSuper' = NextSuper
    BY <1>1 DEF stateVars, ghostVars, Copy, NextSuper
  <1>4. Copy \in Blocks /\ Copy \notin Occupied(table, opened.at) /\ Copy # opened.copy
    BY <1>2, BasedIs
  <1>5. pend[Copy] = <<>> /\ NextState(tx.at, tx.next)
    BY <1>1, <1>2 DEF TxOK
  <1>s. Sound(NextSuper)
    BY <1>5, SoundIs DEF NextState, NextSuper
  <1>6. DiskType' /\ pend'[Copy] = <<NextSuper>> /\ \A b \in Blocks : b # Copy => pend'[b] = pend[b]
    BY <1>1, <1>2, <1>4, <1>5, <1>s, WriteIs
  <1>7. Based'
    BY <1>1, <1>2, <1>4, <1>6, BasedWrite DEF ghostVars
  <1>8. NextState(tx.at, tx.next)'
    BY <1>1, <1>3, <1>5, <1>6 DEF NextState, Still, On, Has
  <1>9. TxOK'
    BY <1>1, <1>2, <1>3, <1>6, <1>8 DEF TxOK, On, Has
  <1> QED
    BY <1>1, <1>2, <1>3, <1>6, <1>7, <1>9, TxDisk DEF TxAt

\* The last write or its flush fails.
LEMMA LastIoDisk ==
  ASSUME StoreInv, LastIo
  PROVE DiskOK' /\ GroupOK'
  <1>1. /\ worker \in {"super", "f3"} /\ worker' = "refused" /\ UNCHANGED <<stateVars, tx, ghostVars>>
    BY DEF LastIo
  <1>2. /\ DiskType /\ sure \in {"yes", "no", "lost"} /\ Based /\ (sure # "lost" => held = Promise(table)) /\ TxOK /\ mode # "damaged"
    BY <1>1, TxParts DEF TxAt
  <1>3. /\ table' = table /\ opened' = opened /\ Copy' = Copy /\ tx' = tx /\ held' = held /\ flight' = flight /\ sure' = sure
    BY <1>1 DEF stateVars, ghostVars, Copy
  <1>4. Copy \in Blocks /\ Copy \notin Occupied(table, opened.at) /\ Copy # opened.copy
    BY <1>2, BasedIs
  <1>5. NextState(tx.at, tx.next) /\ (worker = "super" => pend[Copy] = <<>>) /\ (worker = "f3" => pend[Copy] = <<NextSuper>>)
    BY <1>1, <1>2 DEF TxOK
  <1>s. Sound(NextSuper)
    BY <1>5, SoundIs DEF NextState, NextSuper
  <1>6. /\ DiskType' /\ medium' = medium /\ mode' # "damaged"
        /\ \A b \in Blocks : b # Copy /\ pend[b] = <<>> => pend'[b] = <<>>
        /\ pend'[Copy] \in {<<>>, <<NextSuper>>}
    <2>1. CASE worker = "super"
      <3>1. WriteFails(Copy, NextSuper)
        BY <2>1 DEF LastIo
      <3>2. /\ DiskType' /\ medium' = medium /\ (\A b \in Blocks : b # Copy => pend'[b] = pend[b])
            /\ (pend[Copy] = <<>> => pend'[Copy] \in {<<>>, <<NextSuper>>}) /\ mode' \in {mode, "nostore"}
        BY <1>2, <1>4, <1>s, <3>1, WriteFailsIs
      <3> QED
        BY <1>2, <1>5, <2>1, <3>2
    <2>2. CASE worker = "f3"
      <3>1. FlushFails
        BY <2>2 DEF LastIo
      <3>2. /\ DiskType' /\ medium' = medium /\ (pend' = pend \/ pend' = NoPend) /\ mode' \in {mode, "nostore"}
            /\ (\A b \in Blocks : pend[b] = <<>> => pend'[b] = <<>>)
        BY <1>2, <3>1, FlushFailsIs
      <3> QED
        BY <1>2, <1>4, <1>5, <2>2, <3>2, NoPendIs
    <2> QED
      BY <1>1, <2>1, <2>2
  <1>7. Based'
    <2>1. \A b \in {opened.copy} \cup Occupied(table, opened.at) : b \in Blocks /\ pend[b] = <<>> /\ b # Copy
      BY <1>2, BasedIs DEF Based, Still
    <2> QED
      BY <1>1, <1>2, <1>3, <1>6, <2>1, BasedKept
  <1>8. NextState(tx.at, tx.next)'
    BY <1>3, <1>5, <1>6 DEF NextState, Still, On, Has
  <1>9. sure' = "yes" => Late'
    <2>1. pend'[Copy'] \in {<<>>, <<Super(tx'.at, tx'.next)>>}
      BY <1>3, <1>6 DEF NextSuper
    <2> QED
      BY <1>1, <1>2, <1>3, <1>8, <2>1 DEF Late, Serving, TxOK
  <1> QED
    BY <1>1, <1>2, <1>3, <1>6, <1>7, <1>9, RefusedDisk

\* The superblock is on the medium: the next state is the store's.
LEMMA CommittedDisk ==
  ASSUME StoreInv, Committed
  PROVE DiskOK' /\ GroupOK'
  <1>1. /\ worker = "f3" /\ worker' = "made" /\ medium' = Flushed /\ pend' = NoPend /\ mode' = mode
        /\ UNCHANGED <<stateVars, tx>> /\ held' = Promise(tx.next) /\ flight' = {}
        /\ sure' = IF sure = "lost" THEN "lost" ELSE "yes"
    BY DEF Committed, StepTx, Flush
  <1>2. /\ DiskType /\ sure \in {"yes", "no", "lost"} /\ Based /\ TxOK /\ mode # "damaged" /\ TableOK(tx.next)
    BY <1>1, TxParts DEF TxAt
  <1>3. opened' = opened /\ Copy' = Copy /\ tx' = tx
    BY <1>1 DEF stateVars, Copy
  <1>4. NextState(tx.at, tx.next) /\ pend[Copy] = <<NextSuper>>
    BY <1>1, <1>2 DEF TxOK
  <1>5. /\ tx.at \in Extents /\ medium[tx.at] = tx.next /\ Has(medium, tx.next) /\ tx.next.gen = table.gen + 1
        /\ Still(Blocks \ {Copy})
    BY <1>4 DEF NextState
  <1>6. \A b \in Blocks : medium'[b] = Flushed[b] /\ (pend[b] = <<>> => medium'[b] = medium[b])
    BY <1>1, <1>2, FlushIs
  <1>7. medium'[Copy] = Super(tx.at, tx.next)
    <2>1. Copy \in Blocks
      BY <1>2, BasedIs
    <2> QED
      BY <1>4, <1>6, <2>1, FlushedIs, OneWrite DEF NextSuper
  <1>8. \A b \in Blocks \ {Copy} : medium'[b] = medium[b]
    BY <1>5, <1>6 DEF Still
  <1>9. medium'[opened.copy] = Super(opened.at, table)
    BY <1>2, <1>8, BasedIs DEF Based, State
  <1>10. \A b \in Occupied(tx.next, tx.at) : medium'[b] = medium[b]
    <2>1. \A b \in Occupied(tx.next, tx.at) : b \in Blocks \ {Copy}
      BY <1>2, <1>5, Holds, BasedIs
    <2> QED
      BY <1>8, <2>1
  <1>11. Has(medium', tx.next) /\ medium'[tx.at] = tx.next
    BY <1>2, <1>5, <1>10, HasSame, Holds
  <1>12. State(medium', Copy, tx.at, tx.next) /\ Elder(medium', 1 - Copy, tx.next)
    BY <1>2, <1>5, <1>7, <1>9, <1>11, BasedIs, NewState
  <1>13. MadeOK'
    <2>1. State(medium, Copy, tx.at, tx.next)'
      BY <1>1, <1>3, <1>12 DEF State, Has, Elder
    <2>2. opened' \in [copy : {0, 1}, at : Extents]
      BY <1>2, <1>3 DEF Based
    <2> QED
      BY <1>1, <1>3, <2>1, <2>2 DEF MadeOK
  <1>14. DiskType'
    BY <1>1, <1>2, FlushIs
  <1> QED
    BY <1>1, <1>2, <1>13, <1>14 DEF DiskOK, MadeOK, GroupOK, Serving, TxAt, Formatting

LEMMA TransactDisk ==
  ASSUME StoreInv, transact
  PROVE DiskOK' /\ GroupOK'
  BY DataFlushedDisk, EarlyIoDisk, NoIoDisk, WriteTableDisk, TableFlushedDisk, AttachDisk, WriteSuperDisk,
     LastIoDisk, CommittedDisk DEF transact

-----------------------------------------------------------------------------
(* The tables of the transactions.                                         *)

LEMMA NextOf ==
  ASSUME NEW t \in Tab
  PROVE /\ next_of(t) \in Tab /\ next_of(t).gen = t.gen + 1 /\ next_of(t).recs = t.recs
        /\ next_of(t).barred = t.barred
  <1>1. PICK n \in Nat : n = t.gen + 1
    BY DEF Tab
  <1>2. next_of(t) = [t EXCEPT !.gen = n]
    BY <1>1 DEF next_of, Tab
  <1>3. /\ [t EXCEPT !.gen = n] \in Tab /\ [t EXCEPT !.gen = n].gen = n /\ [t EXCEPT !.gen = n].recs = t.recs
        /\ [t EXCEPT !.gen = n].barred = t.barred
    BY DEF Tab
  <1> QED
    BY <1>1, <1>2, <1>3, Zenon

\* The group's packages, and what stays of the table.
LEMMA GroupTableIs ==
  ASSUME TableOK(table), NEW st \in Seq(Staging)
  PROVE LET t == GroupTable(st) IN
        /\ t \in Tab /\ t.gen = table.gen + 1 /\ t.barred = table.barred
        /\ \A i \in Records :
             \/ \E k \in DOMAIN st : st[k].place = i /\ t.recs[i] = st[k].rec
             \/ /\ \A k \in DOMAIN st : st[k].place # i
                /\ t.recs[i] = IF i \in Places /\ \E k \in DOMAIN st : table.recs[i].name = st[k].rec.name
                               THEN EMPTY ELSE table.recs[i]
  <1> DEFINE names == {st[k].rec.name : k \in DOMAIN st}
             kept == [i \in Records |->
                        IF i \in Places /\ table.recs[i].name \in names THEN EMPTY ELSE table.recs[i]]
             r == [i \in Records |->
                     IF \E k \in DOMAIN st : st[k].place = i
                     THEN (CHOOSE s \in ToSet(st) : s.place = i).rec ELSE kept[i]]
  <1>1. table \in Tab /\ table.recs \in [Records -> Rec]
    BY DEF TableOK, Tab
  <1>2. \A k \in DOMAIN st : st[k] \in Staging
    OBVIOUS
  <1>3. ASSUME NEW i \in Records, \E k \in DOMAIN st : st[k].place = i
        PROVE \E k \in DOMAIN st : st[k].place = i /\ r[i] = st[k].rec
    <2>1. (CHOOSE s \in ToSet(st) : s.place = i) \in ToSet(st) /\ (CHOOSE s \in ToSet(st) : s.place = i).place = i
      BY <1>3 DEF ToSet
    <2>2. r[i] = (CHOOSE s \in ToSet(st) : s.place = i).rec
      BY <1>3
    <2> HIDE DEF r
    <2> QED
      BY <2>1, <2>2 DEF ToSet
  <1>4. ASSUME NEW i \in Records, ~\E k \in DOMAIN st : st[k].place = i
        PROVE r[i] = IF i \in Places /\ \E k \in DOMAIN st : table.recs[i].name = st[k].rec.name
                     THEN EMPTY ELSE table.recs[i]
    BY <1>4
  <1>5. r \in [Records -> Rec]
    <2>1. ASSUME NEW i \in Records PROVE r[i] \in Rec
      <3> HIDE DEF r
      <3> QED
        BY <1>1, <1>2, <1>3, <1>4, Blanks DEF Staging
    <2>2. r = [i \in Records |-> r[i]]
      OBVIOUS
    <2> HIDE DEF r
    <2> QED
      BY <2>1, <2>2
  <1>6. GroupTable(st) = [next_of(table) EXCEPT !.recs = r]
    BY DEF GroupTable
  <1> HIDE DEF r
  <1>7. /\ GroupTable(st) \in Tab /\ GroupTable(st).recs = r /\ GroupTable(st).gen = table.gen + 1
        /\ GroupTable(st).barred = table.barred
    <2>1. PICK u \in Tab : u = next_of(table) /\ u.gen = table.gen + 1 /\ u.barred = table.barred
      BY <1>1, NextOf
    <2>2. GroupTable(st) = [u EXCEPT !.recs = r]
      BY <1>6, <2>1
    <2> QED
      BY <1>5, <2>1, <2>2 DEF Tab
  <1> QED
    BY <1>3, <1>4, <1>7

LEMMA RemoveTableIs ==
  ASSUME TableOK(table), NEW places
  PROVE LET t == RemoveTable(places) IN
        /\ t \in Tab /\ t.gen = table.gen + 1 /\ t.barred = table.barred
        /\ \A i \in Records : t.recs[i] = IF i \in places THEN EMPTY ELSE table.recs[i]
  <1> DEFINE r == [i \in Records |-> IF i \in places THEN EMPTY ELSE table.recs[i]]
  <1>1. table \in Tab /\ table.recs \in [Records -> Rec] /\ {} \in SUBSET Names /\ 0 \in Nat
    BY DEF TableOK, Tab
  <1>2. r \in [Records -> Rec]
    BY <1>1, Blanks
  <1>3. RemoveTable(places) = [next_of(table) EXCEPT !.recs = r]
    BY DEF RemoveTable
  <1>4. \A i \in Records : r[i] = IF i \in places THEN EMPTY ELSE table.recs[i]
    OBVIOUS
  <1>5. PICK u \in Tab : u = next_of(table) /\ u.gen = table.gen + 1 /\ u.barred = table.barred
    BY <1>1, NextOf
  <1> HIDE DEF r
  <1>6. RemoveTable(places) = [u EXCEPT !.recs = r]
    BY <1>3, <1>5
  <1>7. /\ RemoveTable(places) \in Tab /\ RemoveTable(places).recs = r
        /\ RemoveTable(places).gen = u.gen /\ RemoveTable(places).barred = u.barred
    BY <1>2, <1>6 DEF Tab
  <1> QED
    BY <1>4, <1>5, <1>7

LEMMA SerialTableIs ==
  ASSUME TableOK(table)
  PROVE LET t == SerialTable(table.serial + 1) IN
        t \in Tab /\ t.gen = table.gen + 1 /\ t.barred = table.barred /\ t.recs = table.recs
  <1>1. table \in Tab
    BY DEF TableOK
  <1>2. PICK n \in Nat : n = table.serial + 1
    BY <1>1 DEF Tab
  <1>3. PICK u \in Tab : /\ u = next_of(table) /\ u.gen = table.gen + 1 /\ u.barred = table.barred
                         /\ u.recs = table.recs
    BY <1>1, NextOf
  <1>4. SerialTable(table.serial + 1) = [u EXCEPT !.serial = n]
    BY <1>2, <1>3 DEF SerialTable
  <1>5. /\ [u EXCEPT !.serial = n] \in Tab /\ [u EXCEPT !.serial = n].gen = u.gen
        /\ [u EXCEPT !.serial = n].barred = u.barred /\ [u EXCEPT !.serial = n].recs = u.recs
    BY DEF Tab
  <1> QED
    BY <1>3, <1>4, <1>5, Zenon

LEMMA BlobIs ==
  ASSUME NEW n \in {"settings", "revoked"}, NEW x \in Extents, NEW d \in Nat, d # 0
  PROVE Blob(n, x, d) \in Rec /\ Blob(n, x, d).ext = x /\ Blob(n, x, d).data = d /\ Blob(n, x, d) # EMPTY
  <1>1. x \in Blocks /\ n \in Names \cup {"", "settings", "revoked"}
    BY Sizes
  <1>2. Blob(n, x, d) \in Rec /\ Blob(n, x, d).ext = x /\ Blob(n, x, d).data = d
    <2>1. PICK e \in Rec : e = EMPTY
      BY Blanks
    <2>2. Blob(n, x, d) = [e EXCEPT !.name = n, !.ext = x, !.data = d]
      BY <2>1 DEF Blob
    <2> QED
      BY <1>1, <2>2 DEF Rec
  <1>3. EMPTY.data = 0
    BY DEF EMPTY
  <1> QED
    BY <1>2, <1>3

LEMMA SettingsTableIs ==
  ASSUME TableOK(table), NEW x \in Extents, NEW d \in Nat, d # 0
  PROVE LET t == SettingsTable(x, d) IN
        /\ t \in Tab /\ t.gen = table.gen + 1 /\ t.barred = table.barred
        /\ \A i \in Records : t.recs[i] = IF i = SETTINGS_SLOT THEN Blob("settings", x, d) ELSE table.recs[i]
  <1>1. table \in Tab /\ table.recs \in [Records -> Rec] /\ {} \in SUBSET Names /\ 0 \in Nat
    BY DEF TableOK, Tab
  <1>2. PICK b \in Rec : b = Blob("settings", x, d)
    BY BlobIs
  <1>3. PICK u \in Tab : u = next_of(table) /\ u.gen = table.gen + 1 /\ u.recs = table.recs /\ u.barred = table.barred
    BY <1>1, NextOf
  <1>4. SettingsTable(x, d) = [u EXCEPT !.recs[SETTINGS_SLOT] = b]
    BY <1>2, <1>3 DEF SettingsTable
  <1>5. PICK r \in [Records -> Rec] : r = [u.recs EXCEPT ![SETTINGS_SLOT] = b]
    BY <1>1, <1>2, <1>3
  <1>6. SettingsTable(x, d) = [u EXCEPT !.recs = r]
    BY <1>3, <1>4, <1>5 DEF Tab
  <1>7. [u EXCEPT !.recs = r] \in Tab /\ [u EXCEPT !.recs = r].gen = u.gen /\ [u EXCEPT !.recs = r].recs = r
        /\ [u EXCEPT !.recs = r].barred = u.barred
    BY DEF Tab
  <1>8. \A i \in Records : r[i] = IF i = SETTINGS_SLOT THEN b ELSE table.recs[i]
    BY <1>1, <1>3, <1>5
  <1> QED
    BY <1>2, <1>3, <1>6, <1>7, <1>8

LEMMA Flagged ==
  ASSUME NEW e \in Rec, NEW f \in BOOLEAN
  PROVE /\ [e EXCEPT !.revoked = f] \in Rec /\ [e EXCEPT !.revoked = f].ext = e.ext
        /\ [e EXCEPT !.revoked = f].data = e.data /\ [e EXCEPT !.revoked = f].name = e.name
        /\ [e EXCEPT !.revoked = f].revoked = f
  BY DEF Rec

LEMMA RevokedTableIs ==
  ASSUME TableOK(table), NEW x \in Extents, NEW d \in Nat, d # 0, NEW names \in SUBSET Names
  PROVE LET t == RevokedTable(x, d, names) IN
        /\ t \in Tab /\ t.gen = table.gen + 1 /\ t.barred = names
        /\ t.recs[REVOKED_SLOT] = Blob("revoked", x, d)
        /\ \A i \in Records \ {REVOKED_SLOT} :
             /\ t.recs[i].name = table.recs[i].name /\ t.recs[i].ext = table.recs[i].ext
             /\ t.recs[i].data = table.recs[i].data /\ (t.recs[i] = EMPTY <=> table.recs[i] = EMPTY)
        /\ \A i \in Places : table.recs[i] # EMPTY =>
             t.recs[i].revoked = (i \in entries /\ table.recs[i].name \in names)
  <1> DEFINE r == [i \in Records |->
            IF i = REVOKED_SLOT THEN Blob("revoked", x, d)
            ELSE IF i \in Taken(table)
                 THEN [table.recs[i] EXCEPT !.revoked = i \in entries /\ table.recs[i].name \in names]
                 ELSE table.recs[i]]
  <1>1. table \in Tab /\ table.recs \in [Records -> Rec] /\ 0 \in Nat
    BY DEF TableOK, Tab
  <1>2. Blob("revoked", x, d) \in Rec
    BY BlobIs
  <1>3. \A i \in Records : (i \in entries /\ table.recs[i].name \in names) \in BOOLEAN
    OBVIOUS
  <1>4. ASSUME NEW i \in Records \ {REVOKED_SLOT}
        PROVE /\ r[i] \in Rec /\ r[i].name = table.recs[i].name /\ r[i].ext = table.recs[i].ext
              /\ r[i].data = table.recs[i].data /\ (r[i] = EMPTY <=> table.recs[i] = EMPTY)
              /\ i \in Places /\ table.recs[i] # EMPTY =>
                   r[i].revoked = (i \in entries /\ table.recs[i].name \in names)
    <2>1. CASE i \in Taken(table)
      <3>1. PICK f \in BOOLEAN : f = (i \in entries /\ table.recs[i].name \in names)
        OBVIOUS
      <3>2. r[i] = [table.recs[i] EXCEPT !.revoked = f]
        BY <2>1, <3>1
      <3>3. table.recs[i] \in Rec /\ table.recs[i] # EMPTY /\ table.recs[i].data # 0 /\ EMPTY.data = 0
        BY <1>1, <2>1 DEF Taken, TableOK, EMPTY
      <3> HIDE DEF r
      <3>4. /\ r[i] \in Rec /\ r[i].name = table.recs[i].name /\ r[i].ext = table.recs[i].ext
            /\ r[i].data = table.recs[i].data /\ r[i].revoked = f
        BY <3>2, <3>3, Flagged
      <3> QED
        BY <3>1, <3>3, <3>4
    <2>2. CASE i \notin Taken(table)
      <3>1. r[i] = table.recs[i]
        BY <2>2
      <3>2. ~(i \in Places /\ table.recs[i] # EMPTY)
        BY <2>2 DEF Taken
      <3> HIDE DEF r
      <3> QED
        BY <1>1, <3>1, <3>2
    <2> QED
      BY <2>1, <2>2
  <1>5. r[REVOKED_SLOT] = Blob("revoked", x, d) /\ REVOKED_SLOT \in Records
    BY Sizes
  <1>6. r = [i \in Records |-> r[i]]
    OBVIOUS
  <1>7. RevokedTable(x, d, names) = [next_of(table) EXCEPT !.barred = names, !.recs = r]
    BY DEF RevokedTable
  <1> HIDE DEF r
  <1>8. r \in [Records -> Rec]
    BY <1>2, <1>4, <1>5, <1>6
  <1>9. /\ RevokedTable(x, d, names) \in Tab /\ RevokedTable(x, d, names).recs = r
        /\ RevokedTable(x, d, names).gen = table.gen + 1 /\ RevokedTable(x, d, names).barred = names
    <2>1. PICK u \in Tab : u = next_of(table) /\ u.gen = table.gen + 1
      BY <1>1, NextOf
    <2>2. RevokedTable(x, d, names) = [u EXCEPT !.barred = names, !.recs = r]
      BY <1>7, <2>1
    <2> QED
      BY <1>8, <2>1, <2>2 DEF Tab
  <1>10. Places \subseteq Records \ {REVOKED_SLOT}
    BY Sizes
  <1> QED
    BY <1>4, <1>5, <1>9, <1>10

-----------------------------------------------------------------------------
(* The worker between and in its jobs.                                     *)

LEMMA ServeParts ==
  ASSUME StoreInv, worker \in Serving \cup {"refused"}, mode # "damaged"
  PROVE /\ DiskType /\ Based /\ (sure # "lost" => held = Promise(table)) /\ TableOK(table)
        /\ sure \in {"yes", "no", "lost"} /\ (sure = "yes" => Settled \/ Late)
  BY BasedIs DEF StoreInv, DiskOK, RunningOK

LateStays ==
    /\ group' = NoGroup /\ (worker' = "job" => mode' = "nostore")
    /\ mode' = "nostore" => job'.kind \in {"none", "other", "Commit"}

LEMMA LateKinds ==
  ASSUME Late, worker \in Serving
  PROVE /\ group = NoGroup /\ (worker = "job" => mode = "nostore")
        /\ mode = "nostore" => job.kind \in {"none", "other", "Commit"}
  BY DEF Late

\* The accepted state and what is under way stay as they are.
LEMMA ServeStep ==
  ASSUME StoreInv, worker \in Serving \cup {"refused"}, mode # "damaged", worker' \in Serving,
         UNCHANGED <<stateVars, ghostVars>>, mode' \in {mode, "nostore"}, DiskType', Based',
         sure = "yes" /\ Settled => pend'[Copy] = <<>>,
         sure = "yes" /\ Late => medium' = medium /\ pend' = pend /\ LateStays
  PROVE DiskOK'
  <1>1. /\ Based /\ (sure # "lost" => held = Promise(table)) /\ (sure = "yes" => Settled \/ Late)
        /\ sure \in {"yes", "no", "lost"}
    BY ServeParts
  <1>2. table' = table /\ opened' = opened /\ Copy' = Copy /\ held' = held /\ flight' = flight /\ sure' = sure
    BY DEF stateVars, ghostVars, Copy
  <1>3. sure = "yes" /\ Settled => Settled'
    BY <1>2 DEF Settled
  <1>4. ASSUME sure = "yes", Late PROVE Late'
    <2>1. PICK at, t : NextState(at, t) /\ flight = {Promise(t)} /\ pend[Copy] \in {<<>>, <<Super(at, t)>>}
      BY <1>4 DEF Late
    <2>2. NextState(at, t)' /\ pend'[Copy'] \in {<<>>, <<Super(at, t)>>} /\ flight' = {Promise(t)}
      BY <1>2, <1>4, <2>1 DEF NextState, Still, Has, On
    <2> QED
      BY <1>4, <2>2 DEF Late, LateStays
  <1>5. RunningOK'
    BY <1>1, <1>2, <1>3, <1>4 DEF RunningOK, Serving, TxAt
  <1>6. mode' # "damaged"
    OBVIOUS
  <1> QED
    BY <1>1, <1>2, <1>5, <1>6 DEF DiskOK, Serving, Formatting

\* No block is touched.
LEMMA QuietStep ==
  ASSUME StoreInv, worker \in Serving \cup {"refused"}, mode # "damaged", worker' \in Serving,
         UNCHANGED <<diskVars, stateVars, ghostVars>>, mode' \in {mode, "nostore"},
         sure = "yes" /\ Late => LateStays
  PROVE DiskOK'
  <1>1. medium' = medium /\ pend' = pend /\ table' = table /\ opened' = opened
    BY DEF diskVars, stateVars
  <1>2. DiskType /\ Based
    BY ServeParts
  <1>3. DiskType' /\ Based'
    BY <1>1, <1>2 DEF DiskType, Based, State, Has, Elder, Still, ghostVars
  <1>4. Settled => pend'[Copy] = <<>>
    BY <1>1 DEF Settled
  <1> QED
    BY <1>1, <1>3, <1>4, ServeStep

\* The group stays.
LEMMA GroupStays ==
  ASSUME StoreInv, worker \in Serving, UNCHANGED <<diskVars, stateVars, group, listed>>
  PROVE GroupOK'
  <1>1. medium' = medium /\ pend' = pend /\ table' = table /\ opened' = opened /\ group' = group
    BY DEF diskVars, stateVars
  <1>2. StagedOK /\ OpenOK
    BY DEF StoreInv, GroupOK
  <1>3. Flushed' = Flushed
    BY <1>1 DEF Flushed
  <1> QED
    BY <1>1, <1>2, <1>3 DEF GroupOK, StagedOK, OpenOK, Claim

LEMMA DamagedStays ==
  ASSUME StoreInv, mode = "damaged", mode' = mode, worker' = worker, UNCHANGED <<diskVars, ghostVars, group>>
  PROVE DiskOK' /\ GroupOK'
  <1>1. worker = "serve" /\ group = NoGroup /\ OffOK /\ DiskType /\ sure \in {"yes", "no", "lost"}
    BY DEF StoreInv, HandBase, ModeOK, Quiet, DiskOK
  <1>2. medium' = medium /\ pend' = pend /\ held' = held /\ flight' = flight /\ sure' = sure
    BY DEF diskVars, ghostVars
  <1>3. OffOK' /\ DiskType'
    BY <1>1, <1>2 DEF OffOK, State, Has, Elder, DiskType
  <1>4. GroupOK'
    BY <1>1, NoGroupOK
  <1> QED
    BY <1>1, <1>2, <1>3, <1>4 DEF DiskOK, Serving, TxAt, Formatting

\* Without a store the main thread gives no job but a commit.
LEMMA MainKind ==
  ASSUME Main, mode # "ok"
  PROVE job'.kind \in {job.kind, "none", "Commit"}
  <1>1. \A s \in Sessions : (\A n \in Names : ~install_begin(s, n)) /\ (\A j : ~change(s, j))
    BY DEF install_begin, change, Gate
  <1>2. ASSUME NEW s \in Sessions, NEW end \in BOOLEAN, install_commit(s, end)
        PROVE job'.kind = "Commit"
    <2>1. job' = [[NoJob EXCEPT !.kind = "Commit", !.end = end, !.number = rx.number]
                     EXCEPT !.state = "PENDING", !.owner = s]
      BY <1>2 DEF install_commit, Give
    <2> QED
      BY <2>1 DEF NoJob
  <1>3. ASSUME NEW s \in Sessions,
               feed(s) \/ feed_too_long(s) \/ install_cancel(s) \/ take(s) \/ session_gone(s)
        PROVE job' \in {job, NoJob}
    BY <1>3 DEF feed, feed_too_long, install_cancel, take, session_gone
  <1>4. ASSUME settle \/ settle_orphan PROVE job' \in {job, NoJob}
    BY <1>4 DEF settle, settle_orphan
  <1>5. (\E s \in Sessions, end \in BOOLEAN : install_commit(s, end)) \/ job' \in {job, NoJob}
    BY <1>1, <1>3, <1>4 DEF Main
  <1> QED
    BY <1>2, <1>5, Blanks

LEMMA MainDisk ==
  ASSUME StoreInv, Main
  PROVE DiskOK' /\ GroupOK'
  <1>1. /\ UNCHANGED <<diskVars, stateVars, ghostVars, group, listed>> /\ sure' = sure /\ worker' = worker /\ mode' = mode /\ tx' = tx
        /\ table' = table /\ opened' = opened /\ medium' = medium /\ pend' = pend /\ held' = held /\ flight' = flight
    BY DEF Main, diskVars, stateVars, ghostVars, layerVars
  <1>2. CASE mode = "damaged"
    BY <1>1, <1>2, DamagedStays
  <1>3. CASE worker \in Serving /\ mode # "damaged"
    <2>1. Late => LateStays
      BY <1>1, <1>3, MainKind, LateKinds DEF LateStays
    <2> QED
      BY <1>1, <1>3, <2>1, QuietStep, GroupStays
  <1>4. CASE worker \notin Serving
    <2>1. GroupOK'
      BY <1>1, <1>4 DEF GroupOK
    <2>2. DiskOK /\ Flushed' = Flushed /\ Copy' = Copy /\ NextSuper' = NextSuper
      BY <1>1 DEF StoreInv, Flushed, Copy, NextSuper
    <2>3. DiskType' /\ (OffOK => OffOK') /\ (FormatOK => FormatOK') /\ (MadeOK => MadeOK')
      BY <1>1, <2>2 DEF DiskOK, DiskType, OffOK, FormatOK, MadeOK, State, Has, Elder
    <2>4. Based => Based'
      BY <1>1 DEF Based, State, Has, Elder, Still
    <2>5. \A at, t : NextState(at, t) => NextState(at, t)'
      BY <1>1, <2>2 DEF NextState, Has, Still
    <2>6. (Settled => Settled') /\ (TxOK => TxOK')
      BY <1>1, <2>2, <2>5 DEF Settled, TxOK, Has, Still
    <2>7. Late => Late'
      BY <1>1, <1>4, <2>2, <2>5 DEF Late
    <2>8. RunningOK => RunningOK'
      BY <1>1, <2>4, <2>6, <2>7 DEF RunningOK
    <2> QED
      BY <1>1, <2>1, <2>2, <2>3, <2>8 DEF DiskOK
  <1> QED
    BY <1>2, <1>3, <1>4

\* The worker between its jobs.
LEMMA IdleDisk ==
  ASSUME StoreInv, serve_cancel \/ job_done
  PROVE DiskOK' /\ GroupOK'
  <1>1. /\ UNCHANGED <<diskVars, stateVars, ghostVars, listed>> /\ mode' = mode /\ worker \in Serving /\ worker' \in Serving
        /\ group' \in {group, NoGroup}
    BY DEF serve_cancel, job_done, Serving, drop_group, layerVars
  <1>2. job'.kind = job.kind
    <2>1. job \in JobType
      BY DEF StoreInv, HandBase, HandType
    <2> QED
      BY <2>1 DEF serve_cancel, job_done, JobType
  <1>3. GroupOK'
    BY <1>1, GroupStays, NoGroupOK
  <1>4. CASE mode = "damaged"
    <2>1. worker = "serve" /\ group = NoGroup /\ job = NoJob
      BY <1>4 DEF StoreInv, HandBase, ModeOK, Quiet
    <2>2. worker' = worker /\ group' = group
      BY <1>1, <2>1, Blanks DEF serve_cancel, job_done
    <2> QED
      BY <1>1, <1>4, <2>2, DamagedStays
  <1>5. CASE mode # "damaged"
    <2>1. worker' # "job"
      BY DEF serve_cancel, job_done
    <2>2. Late => LateStays
      BY <1>1, <1>2, <2>1, LateKinds DEF LateStays
    <2> QED
      BY <1>1, <1>3, <1>5, <2>2, QuietStep
  <1> QED
    BY <1>3, <1>4, <1>5

\* The next job begins, and the worker forgets a superblock whose write failed.
LEMMA RunDisk ==
  ASSUME StoreInv, run_job
  PROVE DiskOK' /\ GroupOK'
  <1>1. /\ UNCHANGED <<diskVars, stateVars, listed, group, held, flight>> /\ mode' = mode /\ worker = "serve"
        /\ worker' = "job" /\ job.state = "PENDING" /\ job' = [job EXCEPT !.state = "RUNNING"]
        /\ sure' = IF flight # {} /\ Alive /\ sure = "yes" THEN "no" ELSE sure
    BY DEF run_job, layerVars
  <1>2. mode # "damaged" /\ job'.kind = job.kind
    <2>1. job \in JobType /\ (mode = "damaged" => job = NoJob)
      BY DEF StoreInv, HandBase, HandType, ModeOK, Quiet
    <2> QED
      BY <1>1, <2>1, Blanks DEF JobType
  <1>3. GroupOK'
    BY <1>1, GroupStays DEF Serving
  <1>4. CASE sure' = sure
    <2>1. ASSUME sure = "yes", Late PROVE LateStays
      <3>1. flight # {}
        BY <2>1 DEF Late
      <3>2. mode = "nostore"
        BY <1>1, <1>4, <2>1, <3>1 DEF Alive
      <3> QED
        BY <1>1, <1>2, <2>1, <3>2, LateKinds DEF LateStays, Serving
    <2>2. UNCHANGED ghostVars
      BY <1>1, <1>4 DEF ghostVars
    <2> QED
      BY <1>1, <1>2, <1>3, <2>1, <2>2, QuietStep DEF Serving
  <1>5. CASE sure' # sure
    <2>1. sure = "yes" /\ sure' = "no"
      BY <1>1, <1>5
    <2>2. DiskType /\ Based /\ held = Promise(table)
      BY <1>1, <1>2, <2>1, ServeParts DEF Serving
    <2>3. medium' = medium /\ pend' = pend /\ table' = table /\ opened' = opened
      BY <1>1 DEF diskVars, stateVars
    <2>4. DiskType' /\ Based'
      BY <2>1, <2>2, <2>3 DEF DiskType, Based, State, Has, Still
    <2>5. RunningOK'
      BY <1>1, <2>1, <2>2, <2>3, <2>4 DEF RunningOK, TxAt
    <2> QED
      BY <1>1, <1>2, <1>3, <2>1, <2>4, <2>5 DEF DiskOK, Serving, Formatting
  <1> QED
    BY <1>4, <1>5

\* A write into the extent of a package or of a blob.
LEMMA FreeWrite ==
  ASSUME StoreInv, worker \in Serving, worker # "job" => ~Late, mode # "damaged", worker' \in Serving,
         NEW e \in Extents, e \notin Occupied(table, opened.at), DiskType', medium' = medium,
         UNCHANGED <<stateVars, ghostVars>>, mode' \in {mode, "nostore"}, mode = "nostore" => pend' = pend,
         \A b \in Blocks : b # e => pend'[b] = pend[b],
         sure = "yes" /\ Late => LateStays
  PROVE DiskOK'
  <1>1. Based
    BY ServeParts
  <1>2. e # opened.copy /\ e # Copy /\ Copy \in Blocks
    BY <1>1, BasedIs, Sizes
  <1>3. Based'
    BY <1>1, <1>2, BasedWrite DEF ghostVars
  <1>4. Settled => pend'[Copy] = <<>>
    BY <1>2 DEF Settled
  <1>5. sure = "yes" /\ Late => medium' = medium /\ pend' = pend
    <2>1. ASSUME Late PROVE mode = "nostore"
      BY <2>1, LateKinds
    <2> QED
      BY <2>1
  <1> QED
    BY <1>3, <1>4, <1>5, ServeStep

LEMMA OpenParts ==
  ASSUME StoreInv, worker \in Serving, group.open # NoReceipt
  PROVE /\ mode # "damaged" /\ ~Late /\ group.open.rec.ext \in Extents /\ group.open.rec.ext \in Blocks
        /\ group.open.rec.ext \notin Occupied(table, opened.at) /\ StagedOK /\ OpenOK
        /\ Claim(group.open.place, group.open.rec) /\ group.open \in Receipt /\ group \in GroupType
        /\ \A k \in DOMAIN group.staged : group.staged[k].rec.ext \in Blocks
  <1>1. group # NoGroup
    BY Blanks
  <1>2. mode # "damaged" /\ ~Late
    BY <1>1, LateKinds DEF StoreInv, HandBase, ModeOK, Quiet
  <1>3. StagedOK /\ OpenOK /\ Claim(group.open.place, group.open.rec)
    BY DEF StoreInv, GroupOK, OpenOK
  <1>4. group \in GroupType /\ group.open \in Receipt
    BY DEF StoreInv, HandBase, HandType, GroupType
  <1> QED
    BY <1>2, <1>3, <1>4, Sizes DEF Claim, StagedOK

\* The bytes of the open package reach its extent.
LEMMA PumpDisk ==
  ASSUME StoreInv, pump_feed \/ pump_fails
  PROVE DiskOK' /\ GroupOK'
  <1> DEFINE e == group.open.rec.ext
  <1>1. /\ worker \in Serving /\ worker' \in Serving /\ group.open # NoReceipt /\ ~group.open.written
        /\ UNCHANGED <<stateVars, ghostVars, listed>>
    BY DEF pump_feed, pump_fails, Pumps, Serving, layerVars
  <1>2. /\ mode # "damaged" /\ ~Late /\ e \in Extents /\ e \in Blocks /\ e \notin Occupied(table, opened.at)
        /\ StagedOK /\ OpenOK /\ Claim(group.open.place, group.open.rec) /\ group.open \in Receipt
        /\ group \in GroupType /\ \A k \in DOMAIN group.staged : group.staged[k].rec.ext \in Blocks
    BY <1>1, OpenParts
  <1>3. DiskType /\ \A n : Sound(Data(n))
    BY SoundIs DEF StoreInv, DiskOK
  <1> HIDE DEF e
  <1>4. /\ DiskType' /\ medium' = medium /\ mode' \in {mode, "nostore"} /\ (mode = "nostore" => pend' = pend)
        /\ \A b \in Blocks : b # e => pend'[b] = pend[b] /\ Flushed'[b] = Flushed[b]
    <2>1. CASE pump_feed
      <3>1. pend' = Written(e, Data(group.open.rec.data)) /\ UNCHANGED <<medium, mode>> /\ mode # "nostore"
        BY <2>1 DEF pump_feed, Write, Alive, e
      <3> QED
        BY <1>2, <1>3, <3>1, WriteIs
    <2>2. CASE pump_fails
      <3>1. WriteFails(e, Data(group.open.rec.data))
        BY <2>2 DEF pump_fails, e
      <3> QED
        BY <1>2, <1>3, <3>1, WriteFailsIs
    <2> QED
      BY <2>1, <2>2
  <1>5. DiskOK'
    BY <1>1, <1>2, <1>4, FreeWrite
  <1>6. /\ group'.staged = group.staged /\ group'.open.rec = group.open.rec /\ group'.open.place = group.open.place
        /\ group'.open.written = (group.open.written \/ pump_feed)
    <2>1. CASE pump_feed
      <3>1. group' = [group EXCEPT !.open.written = TRUE]
        BY <2>1 DEF pump_feed
      <3> QED
        BY <1>2, <2>1, <3>1 DEF GroupType, Receipt
    <2>2. CASE ~pump_feed
      <3>1. group' = [group EXCEPT !.open.failed = TRUE]
        BY <2>2 DEF pump_fails
      <3>2. group'.open.written = group.open.written /\ group.open.written = FALSE
        BY <1>1, <1>2, <3>1 DEF GroupType, Receipt
      <3> QED
        BY <1>2, <2>2, <3>1, <3>2 DEF GroupType, Receipt
    <2> QED
      BY <2>1, <2>2
  <1>7. pump_feed => Flushed'[e] = Data(group.open.rec.data)
    <2>1. ASSUME pump_feed PROVE Flushed'[e] = Data(group.open.rec.data)
      <3>1. pend' = Written(e, Data(group.open.rec.data)) /\ UNCHANGED <<medium, mode>>
        BY <2>1 DEF pump_feed, Write, e
      <3> QED
        BY <1>2, <1>3, <3>1, WriteIs
    <2> QED
      BY <2>1
  <1>8. table' = table /\ opened' = opened
    BY <1>1 DEF stateVars
  <1>9. \A place, rec : Claim(place, rec)' <=> Claim(place, rec)
    BY <1>8 DEF Claim
  <1>10. StagedOK'
    <2>1. \A k \in DOMAIN group.staged : group.staged[k].rec.ext # e
      BY <1>1, <1>2 DEF OpenOK, e
    <2> QED
      BY <1>1, <1>2, <1>4, <1>6, <1>8, <1>9, <2>1 DEF StagedOK, Claim
  <1>11. OpenOK'
    BY <1>1, <1>2, <1>6, <1>7, <1>8 DEF OpenOK, e, Claim
  <1> QED
    BY <1>5, <1>10, <1>11 DEF GroupOK

\* The jobs that end at once.
LEMMA RefusalDisk ==
  ASSUME StoreInv, Refusals
  PROVE DiskOK' /\ GroupOK'
  <1>1. /\ worker = "job" /\ worker' = "done" /\ Result(FALSE, 0) /\ (drop_group \/ KeepGroup)
        /\ mode' \in {mode, "nostore"}
        /\ UNCHANGED <<stateVars, ghostVars, listed>>
    BY RefusalIs DEF StoreInv
  <1>2. mode # "damaged" /\ worker \in Serving /\ worker' \in Serving
    BY <1>1, AtJob DEF StoreInv, Serving
  <1>3. DiskType /\ Based
    BY <1>2, ServeParts
  <1>4. job'.kind = IF job.kind = "Begin" THEN "Begin" ELSE "other"
    BY <1>1 DEF Result, NoJob
  <1>5. sure = "yes" /\ Late => LateStays
    <2>1. group' \in {group, NoGroup}
      BY <1>1 DEF drop_group, KeepGroup
    <2> QED
      BY <1>1, <1>2, <1>4, <2>1, LateKinds DEF LateStays
  <1>6. CASE UNCHANGED diskVars
    <2>1. DiskOK'
      BY <1>1, <1>2, <1>5, <1>6, QuietStep
    <2>2. GroupOK'
      <3>1. group' = group \/ group' = NoGroup
        BY <1>1 DEF drop_group, KeepGroup
      <3> QED
        BY <1>1, <1>2, <1>6, <3>1, GroupStays, NoGroupOK
    <2> QED
      BY <2>1, <2>2
  <1>7. CASE commit_stage_fails
    <2>1. FlushFails /\ group' = NoGroup /\ CanCommit
      BY <1>7 DEF commit_stage_fails, drop_group, Passes
    <2>2. ~Late
      <3>1. group.owner = job.owner /\ job.owner \in Sessions
        BY <1>1, <2>1, AtJob DEF CanCommit, StoreInv
      <3>2. group # NoGroup
        BY <3>1, Blanks, PkgdAssumption
      <3> QED
        BY <1>2, <3>2, LateKinds
    <2>3. /\ DiskType' /\ medium' = medium
          /\ \A x \in Blocks : pend[x] = <<>> => pend'[x] = <<>>
      BY <1>3, <2>1, FlushFailsIs
    <2>4. Based'
      BY <1>1, <1>3, <2>3, BasedLost DEF ghostVars
    <2>5. Settled => pend'[Copy] = <<>>
      BY <1>3, <2>3, BasedIs DEF Settled
    <2> QED
      BY <1>1, <1>2, <2>1, <2>2, <2>3, <2>4, <2>5, ServeStep, NoGroupOK
  <1>8. CASE blob_fails
    <2>1. /\ extent_for({}) # 0 /\ WriteFails(extent_for({}), Data(made + 1)) /\ group' = group
          /\ job.kind \in Changing
      BY <1>8 DEF blob_fails, KeepGroup, Changing
    <2>2. group' = NoGroup
      BY <2>1 DEF StoreInv, HandBase, OwnOK
    <2>3. PICK e \in Extents : e = extent_for({}) /\ e \notin Occupied(table, opened.at)
      BY <2>1, FreeExtent DEF extent_for
    <2>4. WriteFails(e, Data(made + 1))
      BY <2>1, <2>3
    <2>5. /\ DiskType' /\ medium' = medium /\ (mode = "nostore" => pend' = pend)
          /\ \A x \in Blocks : x # e => pend'[x] = pend[x]
      BY <1>3, <2>3, <2>4, WriteFailsIs, SoundIs, Sizes
    <2>6. DiskOK'
      BY <1>1, <1>2, <1>5, <2>3, <2>5, FreeWrite
    <2> QED
      BY <2>2, <2>6, NoGroupOK
  <1> QED
    BY <1>6, <1>7, <1>8 DEF Refusals, begin_invalid, begin_refused, commit_invalid, commit_refused, change_refused

\* A package begins: a place and an extent of its own.
LEMMA NewOpen ==
  ASSUME StoreInv, begin
  PROVE /\ group'.open.place = Min(FreePlaces) /\ group'.open.rec.ext = BeginExtent
        /\ group'.open.rec.data = made + 1 /\ group'.open.rec.name = job.name
        /\ ~group'.open.written /\ group'.open # NoReceipt /\ group'.open.number = made + 1
  <1>1. /\ made \in Nat /\ job.name \in Names /\ Min(FreePlaces) \in FreePlaces /\ BeginExtent \in Extents
        /\ group'.open = [NoReceipt EXCEPT !.number = made + 1, !.place = Min(FreePlaces), !.rec =
              [EMPTY EXCEPT !.name = job.name, !.ext = BeginExtent, !.data = made + 1]]
    BY BeginIs DEF StoreInv
  <1>2. PICK d \in Nat : d = made + 1 /\ d # 0
    BY <1>1
  <1>3. Min(FreePlaces) \in Nat /\ BeginExtent \in Blocks /\ job.name \in Names \cup {"", "settings", "revoked"}
    BY <1>1, Sizes DEF FreePlaces
  <1>4. PICK e \in Rec : e = EMPTY
    BY Blanks
  <1>5. PICK r \in Rec : /\ r = [e EXCEPT !.name = job.name, !.ext = BeginExtent, !.data = d]
                         /\ r.name = job.name /\ r.ext = BeginExtent /\ r.data = d
    <2>1. /\ [e EXCEPT !.name = job.name, !.ext = BeginExtent, !.data = d] \in Rec
          /\ [e EXCEPT !.name = job.name, !.ext = BeginExtent, !.data = d].name = job.name
          /\ [e EXCEPT !.name = job.name, !.ext = BeginExtent, !.data = d].ext = BeginExtent
          /\ [e EXCEPT !.name = job.name, !.ext = BeginExtent, !.data = d].data = d
      BY <1>2, <1>3 DEF Rec
    <2> QED
      BY <2>1, Zenon
  <1>6. PICK o \in Receipt : o = NoReceipt /\ ~o.written /\ o.number = 0
    BY Blanks
  <1>7. PICK p \in Receipt : /\ p = [o EXCEPT !.number = d, !.place = Min(FreePlaces), !.rec = r]
                             /\ p.number = d /\ p.place = Min(FreePlaces) /\ p.rec = r /\ p.written = o.written
    <2>1. /\ [o EXCEPT !.number = d, !.place = Min(FreePlaces), !.rec = r] \in Receipt
          /\ [o EXCEPT !.number = d, !.place = Min(FreePlaces), !.rec = r].number = d
          /\ [o EXCEPT !.number = d, !.place = Min(FreePlaces), !.rec = r].place = Min(FreePlaces)
          /\ [o EXCEPT !.number = d, !.place = Min(FreePlaces), !.rec = r].rec = r
          /\ [o EXCEPT !.number = d, !.place = Min(FreePlaces), !.rec = r].written = o.written
      BY <1>2, <1>3, <1>5 DEF Receipt
    <2> QED
      BY <2>1, Zenon
  <1>8. group'.open = p
    BY <1>1, <1>2, <1>4, <1>5, <1>6, <1>7
  <1> QED
    BY <1>2, <1>5, <1>6, <1>7, <1>8

LEMMA BeginDisk ==
  ASSUME StoreInv, begin
  PROVE DiskOK' /\ GroupOK'
  <1>1. /\ worker = "job" /\ worker' = "done" /\ mode' = mode /\ made \in Nat /\ job.kind = "Begin"
        /\ job.name \in Names /\ Min(FreePlaces) \in FreePlaces
        /\ group'.staged = group.staged /\ UNCHANGED <<diskVars, stateVars, ghostVars, listed>>
    BY BeginIs DEF StoreInv, begin
  <1>2. mode # "damaged" /\ worker \in Serving /\ worker' \in Serving /\ ~Late
    BY <1>1, AtJob, LateKinds DEF StoreInv, Serving
  <1>3. DiskOK'
    BY <1>1, <1>2, QuietStep
  <1>4. BeginExtent \in Extents \ (Occupied(table, opened.at) \cup {r.ext : r \in Staged})
    <2>1. BeginExtent # 0
      BY DEF begin
    <2> QED
      BY <2>1, FreeExtent DEF BeginExtent, extent_for
  <1>5. table' = table /\ opened' = opened /\ medium' = medium /\ pend' = pend
    BY <1>1 DEF diskVars, stateVars
  <1>6. Flushed' = Flushed
    BY <1>5 DEF Flushed
  <1>7. StagedOK'
    BY <1>1, <1>2, <1>5, <1>6 DEF StoreInv, GroupOK, StagedOK, Claim
  <1>8. \A k \in DOMAIN group.staged : group.staged[k].rec.ext # BeginExtent /\ group.staged[k].place # Min(FreePlaces)
    BY <1>1, <1>4 DEF Staged, FreePlaces, GroupPlaces
  <1>9. Min(FreePlaces) \in Places /\ table.recs[Min(FreePlaces)] = EMPTY /\ made + 1 # 0
    BY <1>1 DEF FreePlaces
  <1>10. OpenOK'
    BY <1>1, <1>4, <1>5, <1>8, <1>9, NewOpen DEF OpenOK, Claim
  <1> QED
    BY <1>3, <1>7, <1>10 DEF GroupOK

\* What the group's packages are once the open one is staged.
LEMMA StageParts ==
  ASSUME StoreInv, Passes
  PROVE /\ ~Late /\ mode # "damaged" /\ Stage \in Seq(Staging)
        /\ \A k \in DOMAIN Stage :
             /\ Claim(Stage[k].place, Stage[k].rec) /\ Stage[k].rec \in Rec
             /\ Flushed[Stage[k].rec.ext] = Data(Stage[k].rec.data)
             /\ listed => Stage[k].rec.name \notin table.barred
  <1>1. worker = "job" /\ group.open # NoReceipt /\ Stage \in Seq(Staging)
    BY StageIs DEF StoreInv
  <1>2. worker \in Serving /\ group.open.written /\ (listed => group.open.rec.name \notin table.barred)
    BY <1>1 DEF Serving, Passes
  <1>3. /\ mode # "damaged" /\ ~Late /\ StagedOK /\ OpenOK /\ Claim(group.open.place, group.open.rec)
        /\ group \in GroupType
    BY <1>1, <1>2, OpenParts
  <1>4. group.staged \in Seq(Staging)
    BY <1>3 DEF GroupType
  <1>5. PICK s : s = [place |-> group.open.place, rec |-> group.open.rec] /\ s.place = group.open.place
                 /\ s.rec = group.open.rec
    <2>1. /\ [place |-> group.open.place, rec |-> group.open.rec].place = group.open.place
          /\ [place |-> group.open.place, rec |-> group.open.rec].rec = group.open.rec
      OBVIOUS
    <2> QED
      BY <2>1, Zenon
  <1>6. Stage = Append(group.staged, s)
    BY <1>5 DEF Stage
  <1>7. \A k \in DOMAIN Stage : (k \in DOMAIN group.staged /\ Stage[k] = group.staged[k]) \/ Stage[k] = s
    BY <1>4, <1>6
  <1>8. \A k \in DOMAIN Stage : Stage[k] \in Staging
    BY <1>1
  <1>9. Flushed[group.open.rec.ext] = Data(group.open.rec.data)
    BY <1>1, <1>2, <1>3 DEF OpenOK
  <1> QED
    BY <1>1, <1>2, <1>3, <1>5, <1>7, <1>8, <1>9 DEF StagedOK, Staging

LEMMA StageDisk ==
  ASSUME StoreInv, commit_stage
  PROVE DiskOK' /\ GroupOK'
  <1>1. /\ Passes /\ worker' = "done" /\ mode' = mode /\ medium' = Flushed /\ pend' = NoPend
        /\ group' = [group EXCEPT !.staged = Stage, !.open = NoReceipt]
        /\ UNCHANGED <<stateVars, ghostVars, listed>>
    BY DEF commit_stage, Ends, Flush, layerVars
  <1>2. worker = "job" /\ worker \in Serving /\ worker' \in Serving
    BY <1>1, StageIs DEF StoreInv, Serving
  <1>3. ~Late /\ mode # "damaged"
    BY <1>1, StageParts
  <1>4. DiskType /\ Based /\ (sure = "yes" => Settled)
    BY <1>2, <1>3, ServeParts
  <1>5. DiskType' /\ Based' /\ pend'[Copy] = <<>>
    BY <1>1, <1>4, FlushIs, BasedFlush, BasedIs, NoPendIs DEF Settled, ghostVars
  <1>6. DiskOK'
    BY <1>1, <1>2, <1>3, <1>5, ServeStep
  <1>7. group'.staged = Stage /\ group'.open = NoReceipt
    BY <1>1, StageIs DEF StoreInv
  <1>8. \A b \in Blocks : Flushed'[b] = Flushed[b]
    BY <1>1, <1>4, FlushIs
  <1>9. table' = table /\ opened' = opened
    BY <1>1 DEF stateVars
  <1>10. StagedOK'
    <2>1. \A k \in DOMAIN Stage : Stage[k].rec.ext \in Blocks
      BY <1>1, StageParts, Sizes DEF Claim
    <2> QED
      BY <1>1, <1>7, <1>8, <1>9, <2>1, StageParts DEF StagedOK, Claim
  <1>11. OpenOK'
    BY <1>7 DEF OpenOK
  <1> QED
    BY <1>6, <1>10, <1>11 DEF GroupOK

\* A job becomes a transaction: the records of the next table lie beside the
\* accepted state or are its own.
LEMMA StartDisk ==
  ASSUME StoreInv, worker = "job", ~Late, NEW kind, NEW next, NEW go, NEW come,
         Transacts(kind, next, go, come), mode' = mode, DiskType', Based', sure = "yes" => pend'[Copy] = <<>>,
         TableOK(next), next.gen = table.gen + 1, Has(Flushed', next)
  PROVE DiskOK' /\ GroupOK'
  <1>1. mode # "damaged" /\ worker \in Serving
    BY AtJob DEF StoreInv, Serving
  <1>2. /\ (sure = "yes" => Settled) /\ (sure # "lost" => held = Promise(table))
        /\ sure \in {"yes", "no", "lost"}
    BY <1>1, ServeParts
  <1>3. /\ worker' = "f1" /\ table' = table /\ opened' = opened /\ Copy' = Copy /\ held' = held
        /\ flight' = flight \cup {Promise(next)} /\ tx'.next = next /\ sure' = sure
    BY DEF Transacts, NewTx, stateVars, Copy
  <1>4. TxOK'
    BY <1>2, <1>3 DEF TxOK, Has, On, Settled
  <1> QED
    BY <1>1, <1>2, <1>3, <1>4, TxDisk DEF TxAt

\* The accepted state's data, as a flush would leave them.
LEMMA OldData ==
  ASSUME Based, UNCHANGED <<stateVars, sure>>, Based', sure # "lost"
  PROVE \A i \in Records : table.recs[i] # EMPTY =>
          /\ Flushed[table.recs[i].ext] = Data(table.recs[i].data)
          /\ Flushed'[table.recs[i].ext] = Data(table.recs[i].data)
  <1> SUFFICES ASSUME NEW i \in Records, table.recs[i] # EMPTY
               PROVE /\ Flushed[table.recs[i].ext] = Data(table.recs[i].data)
                     /\ Flushed'[table.recs[i].ext] = Data(table.recs[i].data)
    OBVIOUS
  <1> DEFINE e == table.recs[i].ext
  <1>1. e \in Occupied(table, opened.at) /\ e \in Blocks
    BY BasedIs, Holds
  <1>2. table' = table /\ opened' = opened
    BY DEF stateVars
  <1>3. pend[e] = <<>> /\ medium[e] = Data(table.recs[i].data)
    BY <1>1 DEF Based, Still, State, Has, On
  <1>4. pend'[e] = <<>> /\ medium'[e] = Data(table.recs[i].data)
    BY <1>1, <1>2 DEF Based, Still, State, Has, On
  <1> HIDE DEF e
  <1>5. Flushed[e] = Data(table.recs[i].data) /\ Flushed'[e] = Data(table.recs[i].data)
    BY <1>1, <1>3, <1>4 DEF Flushed
  <1> QED
    BY <1>5 DEF e

LEMMA QuietDisk ==
  ASSUME StoreInv, worker = "job", UNCHANGED <<diskVars, stateVars, sure>>
  PROVE /\ DiskType' /\ Based' /\ Based /\ TableOK(table) /\ Flushed' = Flushed
        /\ (sure = "yes" /\ ~Late => pend'[Copy] = <<>>)
  <1>1. medium' = medium /\ pend' = pend /\ table' = table /\ opened' = opened
    BY DEF diskVars, stateVars
  <1>2. DiskType /\ Based /\ TableOK(table) /\ (sure = "yes" => Settled \/ Late)
    BY AtJob, ServeParts DEF StoreInv, Serving
  <1> QED
    BY <1>1, <1>2 DEF DiskType, Based, State, Has, Elder, Still, Flushed, Settled

LEMMA CommitDisk ==
  ASSUME StoreInv, commit_group
  PROVE DiskOK' /\ GroupOK'
  <1>1. /\ Passes /\ mode' = mode /\ UNCHANGED <<diskVars, stateVars, sure>>
        /\ Transacts("Install", GroupTable(Stage),
                 UNION {Find(table, Stage[k].rec.name) : k \in DOMAIN Stage},
                 {Stage[k].place : k \in DOMAIN Stage})
    BY DEF commit_group, Transacts
  <1>2. worker = "job"
    BY <1>1, StageIs DEF StoreInv
  <1>3. ~Late /\ Stage \in Seq(Staging)
    BY <1>1, StageParts
  <1>4. DiskType' /\ Based' /\ Based /\ TableOK(table) /\ Flushed' = Flushed
        /\ (sure = "yes" => pend'[Copy] = <<>>)
    BY <1>1, <1>2, <1>3, QuietDisk
  <1>5. PICK t : t = GroupTable(Stage)
    OBVIOUS
  <1>6. /\ t \in Tab /\ t.gen = table.gen + 1 /\ t.barred = table.barred
        /\ \A i \in Records :
             \/ \E k \in DOMAIN Stage : Stage[k].place = i /\ t.recs[i] = Stage[k].rec
             \/ t.recs[i] = EMPTY
             \/ t.recs[i] = table.recs[i]
    BY <1>3, <1>4, <1>5, GroupTableIs
  <1>7. TableOK(t) /\ Has(Flushed', t)
    <2>1. ASSUME NEW i \in Records, t.recs[i] # EMPTY
          PROVE /\ t.recs[i].ext \in Extents /\ t.recs[i].data # 0 /\ (i \in Places => t.recs[i].name \in Names)
                /\ sure # "lost" => Flushed'[t.recs[i].ext] = Data(t.recs[i].data)
      <3>1. CASE \E k \in DOMAIN Stage : Stage[k].place = i /\ t.recs[i] = Stage[k].rec
        BY <1>1, <1>4, <3>1, StageParts DEF Claim
      <3>2. CASE t.recs[i] = table.recs[i]
        BY <1>1, <1>4, <2>1, <3>2, OldData DEF TableOK
      <3> QED
        BY <1>6, <2>1, <3>1, <3>2
    <2>2. t.recs[REVOKED_SLOT] = EMPTY => t.barred = {}
      <3>1. \A k \in DOMAIN Stage : Stage[k].place # REVOKED_SLOT
        BY <1>1, StageParts, Sizes DEF Claim
      <3>2. t.recs[REVOKED_SLOT] = table.recs[REVOKED_SLOT]
        BY <1>3, <1>4, <1>5, <3>1, GroupTableIs, Sizes
      <3> QED
        BY <1>4, <1>6, <3>2 DEF TableOK
    <2> QED
      BY <1>6, <2>1, <2>2 DEF TableOK, Has, On
  <1> QED
    BY <1>1, <1>2, <1>3, <1>4, <1>5, <1>6, <1>7, StartDisk

\* A change without a new record.
LEMMA PlainDisk ==
  ASSUME StoreInv, remove \/ serial_set
  PROVE DiskOK' /\ GroupOK'
  <1>1. /\ worker = "job" /\ job.kind \in {"Remove", "Serial"} /\ mode' = mode
        /\ UNCHANGED <<diskVars, stateVars, sure>>
    BY DEF remove, serial_set, Changes, Transacts
  <1>2. ~Late
    BY <1>1, LateKinds DEF Serving
  <1>3. DiskType' /\ Based' /\ Based /\ TableOK(table) /\ Flushed' = Flushed
        /\ (sure = "yes" => pend'[Copy] = <<>>)
    BY <1>1, <1>2, QuietDisk
  <1>4. PICK kind, t, go :
          /\ Transacts(kind, t, go, {}) /\ t \in Tab /\ t.gen = table.gen + 1 /\ t.barred = table.barred
          /\ \A i \in Records : t.recs[i] = EMPTY \/ t.recs[i] = table.recs[i]
          /\ t.recs[REVOKED_SLOT] = table.recs[REVOKED_SLOT]
    <2>1. CASE remove
      <3>1. PICK places : Transacts("Remove", RemoveTable(places), places, {}) /\ places \subseteq Places
        BY <2>1 DEF remove, Find
      <3>2. PICK t : t = RemoveTable(places)
        OBVIOUS
      <3>3. /\ t \in Tab /\ t.gen = table.gen + 1 /\ t.barred = table.barred
            /\ \A i \in Records : t.recs[i] = IF i \in places THEN EMPTY ELSE table.recs[i]
        BY <1>3, <3>2, RemoveTableIs
      <3>4. REVOKED_SLOT \in Records /\ REVOKED_SLOT \notin places
        BY <3>1, Sizes
      <3> QED
        BY <3>1, <3>2, <3>3, <3>4
    <2>2. CASE serial_set
      <3>1. Transacts("Serial", SerialTable(table.serial + 1), {}, {})
        BY <2>2 DEF serial_set
      <3> QED
        BY <1>3, <3>1, SerialTableIs
    <2> QED
      BY <2>1, <2>2
  <1>5. TableOK(t) /\ Has(Flushed', t)
    <2>1. ASSUME NEW i \in Records, t.recs[i] # EMPTY
          PROVE /\ t.recs[i].ext \in Extents /\ t.recs[i].data # 0 /\ (i \in Places => t.recs[i].name \in Names)
                /\ sure # "lost" => Flushed'[t.recs[i].ext] = Data(t.recs[i].data)
      BY <1>1, <1>3, <1>4, <2>1, OldData DEF TableOK
    <2> QED
      BY <1>3, <1>4, <2>1 DEF TableOK, Has, On
  <1> QED
    BY <1>1, <1>2, <1>3, <1>4, <1>5, StartDisk

\* A blob lies in a free extent before its transaction begins.
LEMMA BlobWrite ==
  ASSUME StoreInv, worker = "job", ~Late, write_blob, UNCHANGED <<stateVars, sure>>
  PROVE /\ DiskType' /\ Based' /\ Based /\ TableOK(table) /\ (sure = "yes" => pend'[Copy] = <<>>) /\ mode' = mode
        /\ extent_for({}) \in Extents /\ made + 1 \in Nat /\ made + 1 # 0 /\ made' = made + 1
        /\ Flushed'[extent_for({})] = Data(made + 1)
  <1>1. mode # "damaged" /\ worker \in Serving /\ made \in Nat
    BY AtJob DEF StoreInv, Serving, HandBase, HandType
  <1>2. DiskType /\ Based /\ (sure = "yes" => Settled) /\ TableOK(table)
    BY <1>1, ServeParts
  <1>3. PICK e \in Extents : e = extent_for({}) /\ e \notin Occupied(table, opened.at) /\ e \in Blocks
    <2>1. extent_for({}) # 0
      BY DEF write_blob
    <2> QED
      <3>1. extent_for({}) \in Extents /\ extent_for({}) \notin Occupied(table, opened.at)
        BY <2>1, FreeExtent DEF extent_for
      <3> QED
        BY <3>1, Sizes
  <1>4. pend' = Written(e, Data(made + 1)) /\ medium' = medium /\ mode' = mode /\ made' = made + 1
    BY <1>3 DEF write_blob, Write
  <1>5. DiskType' /\ Flushed'[e] = Data(made + 1) /\ \A b \in Blocks : b # e => pend'[b] = pend[b]
    BY <1>2, <1>3, <1>4, WriteIs, SoundIs
  <1>6. e # opened.copy /\ e # Copy /\ Copy \in Blocks
    BY <1>2, BasedIs, Sizes
  <1>7. Based' /\ (sure = "yes" => pend'[Copy] = <<>>)
    BY <1>2, <1>3, <1>4, <1>5, <1>6, BasedWrite DEF Settled
  <1> QED
    BY <1>1, <1>2, <1>3, <1>4, <1>5, <1>7

LEMMA BlobDisk ==
  ASSUME StoreInv, settings_set \/ revoked_set
  PROVE DiskOK' /\ GroupOK'
  <1>1. /\ worker = "job" /\ job.kind \in {"Settings", "Revoked"} /\ write_blob
        /\ UNCHANGED <<stateVars, sure>>
    BY DEF settings_set, revoked_set, Changes, Transacts
  <1>2. ~Late
    BY <1>1, LateKinds DEF Serving
  <1>3. /\ DiskType' /\ Based' /\ Based /\ TableOK(table) /\ (sure = "yes" => pend'[Copy] = <<>>) /\ mode' = mode
        /\ made + 1 \in Nat
    BY <1>1, <1>2, BlobWrite
  <1>4. PICK x \in Extents, d \in Nat : /\ x = extent_for({}) /\ d = made + 1 /\ d # 0 /\ Flushed'[x] = Data(d)
    BY <1>1, <1>2, <1>3, BlobWrite
  <1>5. PICK slot \in Records \ Places : \E kind, t, go, come :
          /\ Transacts(kind, t, go, come) /\ t \in Tab /\ t.gen = table.gen + 1
          /\ t.recs[slot].ext = x /\ t.recs[slot].data = d
          /\ \A i \in Records \ {slot} :
               /\ t.recs[i].name = table.recs[i].name /\ t.recs[i].ext = table.recs[i].ext
               /\ t.recs[i].data = table.recs[i].data /\ (t.recs[i] = EMPTY <=> table.recs[i] = EMPTY)
          /\ t.recs[REVOKED_SLOT] = EMPTY => t.barred = {}
    <2>1. CASE settings_set
      <3>1. PICK go, come : Transacts("Settings", SettingsTable(x, d), go, come)
        BY <1>4, <2>1 DEF settings_set
      <3>2. PICK t : t = SettingsTable(x, d)
        OBVIOUS
      <3>3. /\ t \in Tab /\ t.gen = table.gen + 1 /\ t.barred = table.barred
            /\ \A i \in Records : t.recs[i] = IF i = SETTINGS_SLOT THEN Blob("settings", x, d) ELSE table.recs[i]
        BY <1>3, <1>4, <3>2, SettingsTableIs
      <3>4. Blob("settings", x, d).ext = x /\ Blob("settings", x, d).data = d
        BY <1>4, BlobIs
      <3>5. t.recs[REVOKED_SLOT] = EMPTY => t.barred = {}
        BY <1>3, <3>3, Sizes DEF TableOK
      <3>6. SETTINGS_SLOT \in Records \ Places
        BY Sizes
      <3> QED
        BY <3>1, <3>2, <3>3, <3>4, <3>5, <3>6
    <2>2. CASE revoked_set
      <3>0. job.names \in SUBSET Names
        BY DEF StoreInv, HandBase, HandType, JobType
      <3>1. PICK go : Transacts("Revoked", RevokedTable(x, d, job.names), go, {})
        BY <1>4, <2>2 DEF revoked_set
      <3>2. PICK t : t = RevokedTable(x, d, job.names)
        OBVIOUS
      <3>3. /\ t \in Tab /\ t.gen = table.gen + 1
            /\ t.recs[REVOKED_SLOT] = Blob("revoked", x, d)
            /\ \A i \in Records \ {REVOKED_SLOT} :
                 /\ t.recs[i].name = table.recs[i].name /\ t.recs[i].ext = table.recs[i].ext
                 /\ t.recs[i].data = table.recs[i].data /\ (t.recs[i] = EMPTY <=> table.recs[i] = EMPTY)
        BY <1>3, <1>4, <3>0, <3>2, RevokedTableIs
      <3>4. Blob("revoked", x, d).ext = x /\ Blob("revoked", x, d).data = d /\ Blob("revoked", x, d) # EMPTY
        BY <1>4, BlobIs
      <3>6. REVOKED_SLOT \in Records \ Places
        BY Sizes
      <3> QED
        BY <3>1, <3>2, <3>3, <3>4, <3>6
    <2> QED
      BY <2>1, <2>2
  <1>7. PICK kind, t, go, come :
          /\ Transacts(kind, t, go, come) /\ t \in Tab /\ t.gen = table.gen + 1
          /\ t.recs[slot].ext = x /\ t.recs[slot].data = d
          /\ \A i \in Records \ {slot} :
               /\ t.recs[i].name = table.recs[i].name /\ t.recs[i].ext = table.recs[i].ext
               /\ t.recs[i].data = table.recs[i].data /\ (t.recs[i] = EMPTY <=> table.recs[i] = EMPTY)
          /\ t.recs[REVOKED_SLOT] = EMPTY => t.barred = {}
    BY <1>5
  <1>6. TableOK(t) /\ Has(Flushed', t)
    <2>1. ASSUME NEW i \in Records, t.recs[i] # EMPTY
          PROVE /\ t.recs[i].ext \in Extents /\ t.recs[i].data # 0 /\ (i \in Places => t.recs[i].name \in Names)
                /\ sure # "lost" => Flushed'[t.recs[i].ext] = Data(t.recs[i].data)
      <3>1. CASE i = slot
        BY <1>4, <1>7, <3>1
      <3>2. CASE i # slot
        <4>1. table.recs[i] # EMPTY /\ t.recs[i].ext = table.recs[i].ext /\ t.recs[i].data = table.recs[i].data
              /\ t.recs[i].name = table.recs[i].name
          BY <1>7, <2>1, <3>2
        <4>2. sure # "lost" => Flushed'[table.recs[i].ext] = Data(table.recs[i].data)
          BY <1>1, <1>3, <4>1, OldData
        <4> QED
          BY <1>3, <4>1, <4>2 DEF TableOK
      <3> QED
        BY <3>1, <3>2
    <2> QED
      BY <1>7, <2>1 DEF TableOK, Has, On
  <1> QED
    BY <1>1, <1>2, <1>3, <1>7, <1>6, StartDisk

\* After the transaction.
LEMMA RefusedEndDisk ==
  ASSUME StoreInv, after_refused
  PROVE DiskOK' /\ GroupOK'
  <1>1. /\ worker = "refused" /\ worker' = "done" /\ mode' = mode /\ UNCHANGED <<diskVars, stateVars, ghostVars>>
    BY DEF after_refused, Ends
  <1>2. group' = NoGroup /\ job'.kind = "other"
    BY AfterHand DEF StoreInv
  <1>3. mode # "damaged"
    BY <1>1 DEF StoreInv, HandBase, ModeOK
  <1> QED
    BY <1>1, <1>2, <1>3, QuietStep, NoGroupOK DEF Serving, LateStays

LEMMA MadeEndDisk ==
  ASSUME StoreInv, after_made
  PROVE DiskOK' /\ GroupOK'
  <1>1. /\ worker = "made" /\ worker' = "done" /\ mode' = mode /\ medium' = medium /\ pend' = pend
        /\ UNCHANGED ghostVars /\ table' = tx.next /\ opened' = [copy |-> Copy, at |-> tx.at] /\ group' = NoGroup
    BY DEF after_made, publish, Ends, diskVars
  <1>2. MadeOK /\ DiskType /\ mode # "damaged"
    BY <1>1 DEF StoreInv, HandBase, ModeOK, DiskOK
  <1>3. /\ Copy \in {0, 1} /\ State(medium, Copy, tx.at, tx.next) /\ pend = NoPend
        /\ (sure # "lost" => held = Promise(tx.next)) /\ sure \in {"yes", "lost"}
        /\ flight = {} /\ tx.at \in Extents /\ TableOK(tx.next)
    BY <1>2 DEF MadeOK, Copy, State
  <1>4. opened' \in [copy : {0, 1}, at : Extents] /\ opened'.copy = Copy /\ opened'.at = tx.at
    BY <1>1, <1>3
  <1>5. \A b \in Blocks : pend'[b] = <<>>
    BY <1>1, <1>3, NoPendIs
  <1>6. Still({opened.copy} \cup Occupied(table, opened.at))'
    <2>1. Occupied(tx.next, tx.at) \subseteq Blocks /\ Copy \in Blocks
      BY <1>3, Holds, Sizes
    <2> QED
      BY <1>1, <1>4, <1>5, <2>1 DEF Still
  <1>7. Based'
    BY <1>1, <1>3, <1>4, <1>6 DEF Based, State, Has, Elder, ghostVars
  <1>8. Settled'
    <2>1. Copy' \in Blocks
      BY <1>4, Sizes DEF Copy
    <2> QED
      BY <1>1, <1>3, <1>5, <2>1 DEF Settled, ghostVars
  <1>9. RunningOK'
    BY <1>1, <1>3, <1>7, <1>8 DEF RunningOK, ghostVars, Serving, TxAt
  <1>10. DiskType'
    BY <1>1, <1>2 DEF DiskType
  <1> QED
    BY <1>1, <1>2, <1>3, <1>9, <1>10, NoGroupOK DEF DiskOK, Serving, TxAt, Formatting, ghostVars

-----------------------------------------------------------------------------
(* The invariant of the store.                                             *)

LEMMA InitDisk == Init => DiskOK /\ GroupOK
  <1> SUFFICES ASSUME Init PROVE DiskOK /\ GroupOK
    OBVIOUS
  <1>1. medium = [b \in Blocks |-> Zero] /\ pend = NoPend /\ worker = "off" /\ mode = "starting" /\ held = BlankState
        /\ sure = "yes"
    BY DEF Init
  <1>2. DiskType
    BY <1>1, OneWrite, SoundIs DEF DiskType, NoPend
  <1>3. OffOK
    BY <1>1, Sizes DEF OffOK
  <1> QED
    BY <1>1, <1>2, <1>3 DEF DiskOK, GroupOK, Serving, TxAt, Formatting

LEMMA DiskStep ==
  ASSUME StoreInv, Next
  PROVE DiskOK' /\ GroupOK'
  <1>1. CASE Main
    BY <1>1, MainDisk
  <1>2. CASE Crash
    BY <1>2, CrashDisk DEF GroupOK, Crash, Serving
  <1>3. CASE Worker
    BY <1>3, WorkerSteps, OpenDisk, FormatDisk, FormatDoneDisk, TransactDisk, IdleDisk, RunDisk, PumpDisk, RefusalDisk,
       BeginDisk, StageDisk, CommitDisk, PlainDisk, BlobDisk, RefusedEndDisk, MadeEndDisk DEF Change
  <1> QED
    BY <1>1, <1>2, <1>3 DEF Next

\* A state that does not change is as good as it was.
LEMMA DiskStutter ==
  ASSUME StoreInv, UNCHANGED vars
  PROVE DiskOK' /\ GroupOK'
  <1>1. /\ medium' = medium /\ pend' = pend /\ table' = table /\ opened' = opened /\ worker' = worker /\ tx' = tx
        /\ mode' = mode /\ held' = held /\ flight' = flight /\ group' = group /\ job' = job
        /\ sure' = sure /\ listed' = listed
    BY DEF vars, diskVars, stateVars, ghostVars, mainVars, layerVars
  <1>2. Flushed' = Flushed /\ Copy' = Copy /\ NextSuper' = NextSuper
    BY <1>1 DEF Flushed, Copy, NextSuper
  <1>3. DiskType' /\ (OffOK => OffOK') /\ (FormatOK => FormatOK') /\ (MadeOK => MadeOK')
    BY <1>1, <1>2 DEF StoreInv, DiskOK, DiskType, OffOK, FormatOK, MadeOK, State, Has, Elder
  <1>4. Based => Based'
    BY <1>1 DEF Based, State, Has, Elder, Still
  <1>5. \A at, t : NextState(at, t) => NextState(at, t)'
    BY <1>1, <1>2 DEF NextState, Has, Still
  <1>6. (Settled => Settled') /\ (TxOK => TxOK') /\ (Late => Late')
    BY <1>1, <1>2, <1>5 DEF Settled, TxOK, Late, Has, Still
  <1>7. RunningOK => RunningOK'
    BY <1>1, <1>4, <1>6 DEF RunningOK
  <1>8. DiskOK'
    BY <1>1, <1>3, <1>7 DEF StoreInv, DiskOK
  <1>9. GroupOK'
    BY <1>1, <1>2 DEF StoreInv, GroupOK, StagedOK, OpenOK, Claim
  <1> QED
    BY <1>8, <1>9

\* The accepted state is whole on the medium and nothing is written over it,
\* the next state is whole before its superblock is written, and the group's
\* packages have places and extents of their own.
THEOREM StoreInvariance == Spec => []StoreInv
  <1>1. Init => StoreInv
    BY InitHand, InitDisk DEF StoreInv
  <1>2. StoreInv /\ [Next]_vars => StoreInv'
    <2> SUFFICES ASSUME StoreInv, [Next]_vars PROVE StoreInv'
      OBVIOUS
    <2>1. HandBase'
      BY HandStep DEF StoreInv
    <2>2. DiskOK' /\ GroupOK'
      BY DiskStep, DiskStutter
    <2> QED
      BY <2>1, <2>2 DEF StoreInv
  <1> QED
    BY <1>1, <1>2, PTL DEF Spec

-----------------------------------------------------------------------------
(* The store implements AtomicStore.                                       *)

AtomicStep == Abstract!Next \/ UNCHANGED Abstract!vars

LEMMA AtomicStutter ==
  ASSUME held' = held, flight' = flight, sure' = sure, worker' = "off" <=> worker = "off"
  PROVE AtomicStep
  <1>1. (worker # "off")' = (worker # "off")
    OBVIOUS
  <1> QED
    BY <1>1 DEF AtomicStep, Abstract!vars

LEMMA AtomicTry ==
  ASSUME NEW s, held' = held, sure' = sure, flight' = flight \cup {s}, worker # "off", worker' # "off"
  PROVE AtomicStep
  <1>1. (worker # "off")' = (worker # "off")
    OBVIOUS
  <1>2. sure # "lost" => Abstract!Try
    BY <1>1 DEF Abstract!Try
  <1> QED
    BY <1>2 DEF AtomicStep, Abstract!Next

LEMMA AtomicMade ==
  ASSUME held' \in flight, flight' = {}, sure' = IF sure = "lost" THEN "lost" ELSE "yes", worker # "off", worker' # "off"
  PROVE AtomicStep
  <1>1. (worker # "off")' = (worker # "off")
    OBVIOUS
  <1>2. sure # "lost" => Abstract!Made
    BY <1>1 DEF Abstract!Made
  <1> QED
    BY <1>2 DEF AtomicStep, Abstract!Next

LEMMA AtomicRefused ==
  ASSUME NEW s \in flight, held' = held, sure' = sure, flight' = flight \ {s}, worker # "off", worker' # "off"
  PROVE AtomicStep
  <1>1. (worker # "off")' = (worker # "off")
    OBVIOUS
  <1>2. sure # "lost" => Abstract!Refused
    BY <1>1 DEF Abstract!Refused
  <1> QED
    BY <1>2 DEF AtomicStep, Abstract!Next

LEMMA AtomicCrash ==
  ASSUME Crash
  PROVE AtomicStep
  <1>1. worker # "off" /\ (worker # "off")' = FALSE /\ held' = held /\ flight' = flight
        /\ sure' = IF sure = "yes" THEN "yes" ELSE "lost"
    BY DEF Crash
  <1>2. Abstract!Crash
    BY <1>1 DEF Abstract!Crash
  <1> QED
    BY <1>1, <1>2 DEF AtomicStep, Abstract!Next

\* A start finds the state made last, or the one under way; one that cannot read
\* all of the disk leaves it as it is or may open an older state.
LEMMA AtomicRecover ==
  ASSUME StoreInv, open
  PROVE AtomicStep
  <1>1. worker = "off" /\ OffOK /\ sure \in {"yes", "lost"}
    BY DEF open, StoreInv, DiskOK, OffOK
  <1>2. PICK bad \in SUBSET Blocks, refused \in SUBSET Fixed, died \in BOOLEAN :
        \/ \E c \in Chosen(bad) :
             Opens(c, bad, {i \in Fixed : Takes(medium[c].sha, i, bad)} \ refused)
        \/ /\ BlankDisk(bad) /\ worker' = "format"
           /\ held' = BlankState /\ flight' = {} /\ sure' = sure
        \/ /\ (Chosen(bad) = {} /\ ~BlankDisk(bad)) \/ died
           /\ worker' = "serve" /\ sure' = sure
           /\ IF bad = {} /\ ~died THEN held' = LostState /\ flight' = {}
              ELSE UNCHANGED <<held, flight>>
    BY DEF open
  <1>3. worker' # "off" /\ (worker # "off")' = TRUE
    BY <1>2 DEF Opens
  <1>4. ASSUME sure = "lost" PROVE sure' = "lost"
    BY <1>2, <1>4 DEF Opens
  <1>5. ASSUME sure = "yes", flight' = {}, sure' = sure,
               held' \in {held} \cup flight \cup IF held = BlankState THEN {LostState} ELSE {}
        PROVE Abstract!Recover
    BY <1>1, <1>3, <1>5 DEF Abstract!Recover
  <1>6. ASSUME sure = "yes" PROVE Abstract!Recover \/ Abstract!Blind \/ Abstract!Older
    <2>1. ASSUME NEW c \in Chosen(bad), NEW shown, Opens(c, bad, shown)
          PROVE Abstract!Recover \/ Abstract!Older
      <3>0. flight' = {} /\ held' = ReadBack(medium[c].sha) /\ sure' = IF c \in Chosen({}) THEN sure ELSE "lost"
        BY <2>1 DEF Opens
      <3>1. CASE c \in Chosen({})
        <4>1. held' \in {held} \cup flight
          BY <1>1, <1>6, <3>0, <3>1, OpenSure
        <4> QED
          BY <1>5, <1>6, <3>0, <3>1, <4>1
      <3>2. CASE c \notin Chosen({})
        BY <1>1, <1>3, <3>0, <3>2 DEF Abstract!Older
      <3> QED
        BY <3>1, <3>2
    <2>2. CASE BlankDisk(bad) /\ held' = BlankState /\ flight' = {} /\ sure' = sure
      <3>1. held = BlankState
        BY <1>1, <1>6, <2>2, Kinds DEF OffOK, BlankDisk, State
      <3> QED
        BY <1>5, <1>6, <2>2, <3>1
    <2>3. CASE /\ (Chosen(bad) = {} /\ ~BlankDisk(bad)) \/ died
               /\ sure' = sure
               /\ IF bad = {} /\ ~died THEN held' = LostState /\ flight' = {}
                  ELSE UNCHANGED <<held, flight>>
      <3>1. CASE bad = {} /\ ~died
        <4>1. Chosen({}) = {} /\ ~(medium[0] = Zero /\ medium[1] = Zero)
          BY <2>3, <3>1 DEF BlankDisk
        <4>2. held \in {BlankState, LostState}
          BY <1>1, <1>6, <4>1, ChosenIs DEF OffOK
        <4> QED
          BY <1>5, <1>6, <2>3, <3>1, <4>2
      <3>2. CASE ~(bad = {} /\ ~died)
        BY <1>1, <1>3, <2>3, <3>2 DEF Abstract!Blind
      <3> QED
        BY <3>1, <3>2
    <2> QED
      BY <1>2, <2>1, <2>2, <2>3
  <1> QED
    BY <1>1, <1>4, <1>6 DEF AtomicStep, Abstract!Next

\* The format: the state of generation 1 is under way, then made.
LEMMA AtomicFormat ==
  ASSUME StoreInv, format \/ format_done
  PROVE AtomicStep
  <1>1. worker \in Formatting /\ worker # "off" /\ worker' # "off"
    BY DEF format, format_done, FormatStep, FormatFails, Formatting
  <1>2. FormatOK
    BY <1>1 DEF StoreInv, DiskOK
  <1>3. CASE format_done
    <2>1. worker = "format_last" /\ held' = Promise(First) /\ flight' = {} /\ sure' = sure /\ sure = "yes"
      BY <1>2, <1>3 DEF format_done, FormatOK
    <2>2. held' \in flight
      BY <1>2, <2>1 DEF FormatOK
    <2> QED
      BY <1>1, <2>1, <2>2, AtomicMade
  <1>4. CASE FormatStep("format", "format_flush", Write(SUPERS, First)) /\ flight' = {Promise(First)}
             /\ UNCHANGED <<held, sure>>
    <2>1. flight = {}
      BY <1>2, <1>4 DEF FormatStep, FormatOK
    <2>2. flight' = flight \cup {Promise(First)}
      BY <1>4, <2>1
    <2> QED
      BY <1>1, <1>4, <2>2, AtomicTry
  <1>5. CASE UNCHANGED ghostVars
    BY <1>1, <1>5, AtomicStutter DEF ghostVars
  <1> QED
    BY <1>3, <1>4, <1>5 DEF format, FormatFails

\* A transaction is refused, made, or on its way.
LEMMA AtomicTransact ==
  ASSUME StoreInv, transact
  PROVE AtomicStep
  <1>1. worker \in TxAt /\ worker # "off" /\ worker' # "off"
    BY DEF transact, DataFlushed, EarlyIo, NoSpace, write_table, TableFlushed, attach, AttachRefused,
           write_super, LastIo, Committed, StepTx, TxAt
  <1>2. Promise(tx.next) \in flight
    BY <1>1, TxParts
  <1>3. CASE EarlyIo \/ NoSpace \/ AttachRefused
    <2>1. Refuse /\ held' = held /\ sure' = sure
      BY <1>3 DEF EarlyIo, NoSpace, AttachRefused, Refuse
    <2>2. Promise(tx.next) \in flight /\ flight' = flight \ {Promise(tx.next)}
      BY <1>2, <2>1 DEF Refuse
    <2> QED
      BY <1>1, <2>1, <2>2, AtomicRefused
  <1>4. CASE Committed
    <2>1. held' = Promise(tx.next) /\ flight' = {} /\ sure' = IF sure = "lost" THEN "lost" ELSE "yes"
      BY <1>4 DEF Committed
    <2> QED
      BY <1>1, <1>2, <2>1, AtomicMade
  <1>5. CASE UNCHANGED ghostVars
    BY <1>1, <1>5, AtomicStutter DEF ghostVars
  <1> QED
    BY <1>3, <1>4, <1>5 DEF transact, DataFlushed, write_table, TableFlushed, attach, write_super, LastIo

LEMMA AtomicStart ==
  ASSUME StoreInv, commit_group \/ Change
  PROVE AtomicStep
  <1>1. worker # "off"
    BY DEF commit_group, Passes, CanCommit, Job, Change, remove, serial_set, settings_set, revoked_set, Changes
  <1>2. PICK kind, next, go, come : Transacts(kind, next, go, come)
    BY DEF commit_group, Change, remove, serial_set, settings_set, revoked_set
  <1>3. flight' = flight \cup {Promise(next)} /\ held' = held /\ sure' = sure /\ worker' = "f1"
    BY <1>2 DEF Transacts
  <1> QED
    BY <1>1, <1>3, AtomicTry

\* The other steps are no business of the disk's state.
LEMMA AtomicOther ==
  ASSUME StoreInv, \/ Main \/ serve_cancel \/ run_job \/ pump_feed \/ pump_fails \/ job_done \/ Refusals \/ begin
                   \/ commit_stage \/ after_refused \/ after_made
  PROVE AtomicStep
  <1>1. CASE Main
    BY <1>1, AtomicStutter DEF Main, ghostVars
  <1>2. CASE serve_cancel \/ job_done
    BY <1>2, AtomicStutter DEF serve_cancel, job_done, ghostVars
  <1>9. CASE run_job
    <2>1. /\ worker # "off" /\ (worker # "off")' = (worker # "off") /\ held' = held /\ flight' = flight
          /\ sure' = IF flight # {} /\ Alive /\ sure = "yes" THEN "no" ELSE sure
      BY <1>9 DEF run_job
    <2>2. CASE sure' = sure
      BY <2>1, <2>2, AtomicStutter
    <2>3. CASE sure' # sure
      <3>1. sure = "yes" /\ Abstract!GoOn
        BY <2>1, <2>3 DEF Abstract!GoOn
      <3> QED
        BY <3>1 DEF AtomicStep, Abstract!Next
    <2> QED
      BY <2>2, <2>3
  <1>3. CASE pump_feed \/ pump_fails
    BY <1>3, AtomicStutter DEF pump_feed, pump_fails, ghostVars
  <1>4. CASE Refusals
    BY <1>4, RefusalIs, AtomicStutter DEF ghostVars, StoreInv
  <1>5. CASE begin
    BY <1>5, BeginIs, AtomicStutter DEF ghostVars, StoreInv
  <1>6. CASE commit_stage
    BY <1>6, AtomicStutter DEF commit_stage, Passes, CanCommit, Job, Ends, ghostVars
  <1>7. CASE after_refused
    BY <1>7, AtomicStutter DEF after_refused, Ends, ghostVars
  <1>8. CASE after_made
    BY <1>8, AtomicStutter DEF after_made, publish, Ends, ghostVars
  <1> QED
    BY <1>1, <1>2, <1>3, <1>4, <1>5, <1>6, <1>7, <1>8, <1>9

\* Atomic: a change of the store happens as a whole or not at all, what a client
\* was told of stays made across every crash, and a start reads the state made
\* last or the one under way, with the data of every record. Only the very
\* first superblock, whose write has no older copy behind it, can be lost. The
\* promise ends where the worker goes on after a superblock whose write failed
\* and the machine crashes before the next change, and where a start cannot read
\* the newest state and opens an older one.
THEOREM StoreAtomic == Spec => Atomic
  <1>1. Init => Abstract!Init
    BY DEF Init, Abstract!Init
  <1>2. StoreInv /\ [Next]_vars => [Abstract!Next]_Abstract!vars
    <2> SUFFICES ASSUME StoreInv, [Next]_vars PROVE AtomicStep
      BY DEF AtomicStep
    <2>1. CASE UNCHANGED vars
      BY <2>1, AtomicStutter DEF vars, ghostVars
    <2>2. CASE Crash
      BY <2>2, AtomicCrash
    <2>3. CASE Main
      BY <2>3, AtomicOther
    <2>4. CASE Worker
      BY <2>4, WorkerSteps, AtomicRecover, AtomicFormat, AtomicTransact, AtomicStart, AtomicOther
    <2> QED
      BY <2>1, <2>2, <2>3, <2>4 DEF Next
  <1> QED
    BY <1>1, <1>2, StoreInvariance, PTL DEF Spec, Atomic, Abstract!Spec

-----------------------------------------------------------------------------
(* The layers (LAYER_OF) show the accepted state, and the next one from    *)
(* the step that attaches the layers of a transaction to its end; the      *)
(* objects the worker keeps are what the tree can be restored from.        *)

Shown(i) == IF i = SETTINGS_NEW \/ i \in out THEN 0 ELSE table.recs[i].data
AttachedTx == worker \in {"super", "f3", "made"} /\ AttachFirst

LayerType ==
    /\ layers \in [LayerPlaces -> Nat] /\ objects \in [LayerPlaces -> Nat]
    /\ entries \subseteq Places /\ out \subseteq Fixed /\ listed \in BOOLEAN

\* A record has its object, unless its layer is out; the worker knows the
\* packages that have one; a package whose key is revoked is out, when the list
\* of revocations was read.
ObjectsOK ==
    /\ \A i \in Fixed : table.recs[i] # EMPTY =>
         /\ objects[i] \in {0, table.recs[i].data}
         /\ i \notin out => objects[i] = table.recs[i].data
         /\ i \in Places /\ objects[i] # 0 => i \in entries
    /\ \A i \in out : table.recs[i] # EMPTY
    /\ table.recs[SETTINGS_SLOT] = EMPTY => objects[SETTINGS_SLOT] = 0
    /\ listed => \A i \in Places : Barred(table, i) => i \in out

TreeOK ==
    \A i \in LayerPlaces :
        layers[i] = IF AttachedTx /\ i \in tx.attach THEN objects[i]
                    ELSE IF AttachedTx /\ i \in tx.detach THEN 0 ELSE Shown(i)

\* What the table, the layers that go and those that come of a transaction say
\* of one another, by its kind.
SwapShape ==
    /\ tx.next.barred = table.barred
    /\ tx.detach \subseteq Places /\ tx.attach \subseteq Places /\ tx.attach \cap tx.detach = {}
    /\ \A i \in tx.detach : table.recs[i] # EMPTY /\ tx.next.recs[i] = EMPTY
    /\ \A i \in Fixed \ (tx.detach \cup tx.attach) : tx.next.recs[i] = table.recs[i]
    /\ \A i \in tx.attach : /\ table.recs[i] = EMPTY /\ tx.next.recs[i] # EMPTY
                            /\ objects[i] = tx.next.recs[i].data
                            /\ listed => tx.next.recs[i].name \notin table.barred
    /\ tx.kind = "Install" /\ listed => \A i \in tx.detach : ~Barred(table, i)
    /\ tx.kind = "Remove" => tx.attach = {}
SettingsShape ==
    /\ tx.next.barred = table.barred
    /\ tx.attach = {SETTINGS_NEW}
    /\ tx.detach = IF objects[SETTINGS_SLOT] # 0 THEN {SETTINGS_SLOT} ELSE {}
    /\ \A i \in Places : tx.next.recs[i] = table.recs[i]
    /\ tx.next.recs[SETTINGS_SLOT] # EMPTY
    /\ objects[SETTINGS_NEW] = tx.next.recs[SETTINGS_SLOT].data
SerialShape == tx.next.barred = table.barred /\ tx.detach = {} /\ tx.attach = {} /\ tx.next.recs = table.recs
RevokedShape ==
    /\ tx.attach = {} /\ tx.detach \subseteq Places \ out
    /\ \A i \in Fixed : /\ tx.next.recs[i].data = table.recs[i].data
                        /\ tx.next.recs[i] = EMPTY <=> table.recs[i] = EMPTY
    /\ \A i \in tx.detach : table.recs[i] # EMPTY
    /\ \A i \in Places : Barred(tx.next, i) => i \in out \cup tx.detach
TxShape ==
    /\ worker = "attach" => AttachFirst
    /\ tx.kind \in {"Install", "Remove"} => SwapShape
    /\ tx.kind = "Settings" => SettingsShape
    /\ tx.kind = "Serial" => SerialShape
    /\ tx.kind = "Revoked" => RevokedShape

\* The object of every package of the group is there for its layer.
GroupObjects ==
    /\ \A k \in DOMAIN group.staged : objects[group.staged[k].place] = group.staged[k].rec.data
    /\ group.open # NoReceipt => objects[group.open.place] = group.open.rec.data
Reserved == \A i \in GroupPlaces : i \in Places /\ table.recs[i] = EMPTY

\* Before the store is there the table is empty.
Fresh == \A i \in Records : table.recs[i] = EMPTY

LayerOK ==
    /\ LayerType /\ ObjectsOK /\ TreeOK
    /\ worker \in {"off"} \cup Formatting \/ mode = "damaged" => Fresh
    /\ worker \in TxAt \cup {"made"} => TxShape
    /\ worker \in Serving => GroupObjects
    /\ worker \in TxAt \cup {"refused"} => Reserved

LayerInv == StoreInv /\ LayerOK

LEMMA Slots ==
  /\ Fixed \subseteq Records /\ Fixed \subseteq LayerPlaces /\ SETTINGS_SLOT \in Fixed /\ SETTINGS_SLOT \notin Places
  /\ SETTINGS_NEW \in LayerPlaces /\ SETTINGS_NEW \notin Fixed /\ SETTINGS_NEW # SETTINGS_SLOT
  /\ SETTINGS_NEW \notin Places /\ REVOKED_SLOT \notin Fixed
  /\ LayerPlaces = Fixed \cup {SETTINGS_NEW} /\ Places \subseteq Fixed /\ Places \subseteq LayerPlaces
  BY Sizes DEF Fixed, LayerPlaces

LEMMA EmptyIs ==
  EMPTY.data = 0 /\ EMPTY.name = "" /\ EMPTY.revoked = FALSE /\ EMPTY.ext = 0 /\ "" \notin Names
  <1>1. EMPTY.data = 0 /\ EMPTY.name = "" /\ EMPTY.revoked = FALSE /\ EMPTY.ext = 0
    BY DEF EMPTY
  <1>2. "" \notin Names
    BY StoreAssumption, Zenon
  <1> QED
    BY <1>1, <1>2

\* The records of a table.
LEMMA TableIs ==
  ASSUME NEW t, TableOK(t)
  PROVE /\ t.barred \subseteq Names
        /\ \A i \in Records : /\ t.recs[i] \in Rec /\ t.recs[i].data \in Nat /\ (t.recs[i] = EMPTY <=> t.recs[i].data = 0)
                              /\ (i \in Places /\ t.recs[i] # EMPTY => t.recs[i].name \in Names)
        /\ \A i \in Places : /\ t.recs[i].name \in Names => t.recs[i] # EMPTY
                             /\ Barred(t, i) => t.recs[i] # EMPTY
  <1>1. t.barred \subseteq Names /\ \A i \in Records : t.recs[i] \in Rec
    BY DEF TableOK, Tab
  <1>2. \A i \in Records : t.recs[i].data \in Nat
    BY <1>1 DEF Rec
  <1> QED
    BY <1>1, <1>2, EmptyIs, Sizes DEF TableOK, Barred

\* The table, whenever a state is accepted.
LEMMA TableNow ==
  ASSUME StoreInv, worker \in Serving \cup TxAt \cup {"refused"}, mode # "damaged"
  PROVE TableOK(table)
  BY BasedIs DEF StoreInv, DiskOK, RunningOK

\* The group and the records stay, and so do the objects and the tree.
LEMMA LayersKept ==
  ASSUME LayerOK, UNCHANGED layerVars, table' = table, tx'.attach = tx.attach, tx'.detach = tx.detach,
         AttachedTx' <=> AttachedTx
  PROVE LayerType' /\ ObjectsOK' /\ TreeOK'
  <1>1. objects' = objects /\ layers' = layers /\ entries' = entries /\ out' = out /\ listed' = listed
    BY DEF layerVars
  <1>2. LayerType'
    BY <1>1 DEF LayerOK, LayerType
  <1>3. ObjectsOK'
    BY <1>1 DEF LayerOK, ObjectsOK, Barred
  <1>4. TreeOK'
    BY <1>1 DEF LayerOK, TreeOK, Shown
  <1> QED
    BY <1>2, <1>3, <1>4

\* The tree between transactions.
LEMMA TreeIdle ==
  ASSUME LayerType, ~AttachedTx
  PROVE TreeOK <=> \A i \in LayerPlaces : layers[i] = Shown(i)
  BY DEF TreeOK

-----------------------------------------------------------------------------
(* The layers at the start and in a transaction.                           *)

LEMMA NotAttached ==
  ASSUME worker \notin {"super", "f3", "made"} PROVE ~AttachedTx
  BY DEF AttachedTx

LEMMA NotAttachedThen ==
  ASSUME worker' \notin {"super", "f3", "made"} PROVE ~AttachedTx'
  BY DEF AttachedTx

\* An empty table and nothing attached.
LEMMA Bare ==
  ASSUME Fresh', table'.barred = {}, objects' = [i \in LayerPlaces |-> 0], layers' = [i \in LayerPlaces |-> 0],
         entries' = {}, out' = {}, listed' = FALSE, ~AttachedTx'
  PROVE LayerType' /\ ObjectsOK' /\ TreeOK'
  <1>1. LayerType'
    BY DEF LayerType
  <1>2. ObjectsOK'
    BY Slots DEF ObjectsOK, Fresh, Barred
  <1>3. TreeOK'
    BY Slots, EmptyIs DEF TreeOK, Shown, Fresh
  <1> QED
    BY <1>1, <1>2, <1>3

LEMMA CrashLayers ==
  ASSUME Crash PROVE LayerOK'
  <1>1. /\ table' = NoTable /\ objects' = [i \in LayerPlaces |-> 0] /\ layers' = [i \in LayerPlaces |-> 0]
        /\ entries' = {} /\ out' = {} /\ listed' = FALSE /\ worker' = "off" /\ mode' = "starting"
    BY DEF Crash
  <1>2. Fresh' /\ table'.barred = {}
    BY <1>1 DEF Fresh, NoTable
  <1>3. LayerType' /\ ObjectsOK' /\ TreeOK'
    BY <1>1, <1>2, Bare, NotAttachedThen
  <1> QED
    BY <1>1, <1>2, <1>3 DEF LayerOK, Serving, TxAt

LEMMA InitLayers == Init => LayerOK
  <1> SUFFICES ASSUME Init PROVE LayerOK
    OBVIOUS
  <1>1. /\ table = NoTable /\ objects = [i \in LayerPlaces |-> 0] /\ layers = [i \in LayerPlaces |-> 0]
        /\ entries = {} /\ out = {} /\ listed = FALSE /\ worker = "off" /\ mode = "starting"
    BY DEF Init
  <1>2. Fresh /\ table.barred = {}
    BY <1>1 DEF Fresh, NoTable
  <1>3. LayerType
    BY <1>1 DEF LayerType
  <1>4. ObjectsOK
    BY <1>1, <1>2, Slots DEF ObjectsOK, Fresh, Barred
  <1>5. TreeOK
    BY <1>1, <1>2, Slots, EmptyIs, NotAttached DEF TreeOK, Shown, Fresh
  <1> QED
    BY <1>1, <1>2, <1>3, <1>4, <1>5 DEF LayerOK, Serving, TxAt

\* A group that is not there.
LEMMA NoGroupLayers ==
  ASSUME group' = NoGroup PROVE GroupObjects' /\ Reserved'
  BY Blanks DEF GroupObjects, Reserved, GroupPlaces

\* What a start takes is a record that is there, and no package that the list it
\* read revokes.
LEMMA TakesIs ==
  ASSUME NEW t, TableOK(t), NEW bad, NEW i \in Fixed, Takes(t, i, bad)
  PROVE t.recs[i] # EMPTY /\ ~(i \in Places /\ ListRead(t, bad) /\ Barred(t, i))
  BY DEF Takes, Reads

LEMMA OpenLayers ==
  ASSUME LayerInv, open, UNCHANGED <<group, mainVars>>
  PROVE LayerOK'
  <1>1. worker = "off" /\ DiskType /\ group' = NoGroup /\ tx' = tx /\ medium' = medium
    BY DEF open, LayerInv, StoreInv, DiskOK, HandBase, ModeOK, Quiet, diskVars
  <1>2. GroupObjects' /\ Reserved'
    BY <1>1, NoGroupLayers
  <1>3. ASSUME NEW bad, NEW c \in Chosen(bad), NEW refused,
               Opens(c, bad, {i \in Fixed : Takes(medium[c].sha, i, bad)} \ refused),
               mode' \in {"ok", "nostore"}
        PROVE LayerOK'
    <2>1. PICK t : t = medium[c].sha /\ TableOK(t)
      BY <1>1, <1>3, OpenSound
    <2>2. PICK S : S = {i \in Fixed : Takes(t, i, bad)} \ refused
      OBVIOUS
    <2>3. Opens(c, bad, S)
      BY <1>3, <2>1, <2>2
    <2>4. /\ table' = t /\ listed' = ListRead(t, bad) /\ worker' = "serve"
          /\ layers' = [i \in LayerPlaces |-> IF i \in S THEN t.recs[i].data ELSE 0] /\ objects' = layers'
          /\ entries' = S \cap Places /\ out' = {i \in Fixed : t.recs[i] # EMPTY} \ S
      BY <2>1, <2>3 DEF Opens
    <2>5. /\ S \subseteq Fixed /\ \A i \in S : t.recs[i] # EMPTY
          /\ \A i \in S \cap Places : listed' => ~Barred(t, i)
      BY <2>1, <2>2, <2>4, TakesIs
    <2>6. \A i \in Fixed : t.recs[i].data \in Nat /\ (t.recs[i] = EMPTY <=> t.recs[i].data = 0)
      BY <2>1, TableIs, Slots
    <2>7. LayerType'
      <3>1. layers' \in [LayerPlaces -> Nat]
        BY <2>4, <2>5, <2>6
      <3>2. listed' \in BOOLEAN
        BY <2>4 DEF ListRead, Reads
      <3> QED
        BY <2>4, <3>1, <3>2 DEF LayerType
    <2>8. \A i \in LayerPlaces : layers'[i] = (IF i \in S THEN t.recs[i].data ELSE 0)
      BY <2>4
    <2>9. ObjectsOK'
      <3>1. \A i \in Fixed : t.recs[i] # EMPTY =>
               /\ layers'[i] \in {0, t.recs[i].data} /\ (i \notin out' => layers'[i] = t.recs[i].data)
               /\ (i \in Places /\ layers'[i] # 0 => i \in entries')
        BY <2>4, <2>8, Slots
      <3>2. \A i \in out' : t.recs[i] # EMPTY
        BY <2>4
      <3>3. t.recs[SETTINGS_SLOT] = EMPTY => layers'[SETTINGS_SLOT] = 0
        BY <2>5, <2>8, Slots
      <3>4. listed' => \A i \in Places : Barred(t, i) => i \in out'
        BY <2>1, <2>4, <2>5, TableIs, Slots
      <3> QED
        BY <2>4, <3>1, <3>2, <3>3, <3>4 DEF ObjectsOK, Barred
    <2>10. TreeOK'
      <3>1. \A i \in LayerPlaces : layers'[i] = IF i = SETTINGS_NEW \/ i \in out' THEN 0 ELSE t.recs[i].data
        BY <2>4, <2>5, <2>6, <2>8, Slots
      <3> QED
        BY <2>4, <3>1, NotAttachedThen DEF TreeOK, Shown
    <2> QED
      BY <1>2, <1>3, <2>4, <2>7, <2>9, <2>10 DEF LayerOK, Formatting, TxAt
  <1>4. ASSUME UNCHANGED <<stateVars, layerVars>>, worker' \in {"format", "serve"},
               worker' = "serve" => mode' = "damaged"
        PROVE LayerOK'
    <2>1. table' = table
      BY <1>4 DEF stateVars
    <2>2. AttachedTx' <=> AttachedTx
      BY <1>1, <1>4, NotAttached, NotAttachedThen
    <2>3. LayerType' /\ ObjectsOK' /\ TreeOK'
      BY <1>1, <1>4, <2>1, <2>2, LayersKept DEF LayerInv
    <2>4. Fresh'
      BY <1>1, <2>1 DEF LayerInv, LayerOK, Fresh
    <2> QED
      BY <1>2, <1>4, <2>3, <2>4 DEF LayerOK, TxAt
  <1> QED
    <2>1. PICK bad \in SUBSET Blocks, refused \in SUBSET Fixed, died \in BOOLEAN :
        \/ /\ mode' \in {"ok", "nostore"}
           /\ \E c \in Chosen(bad) :
                Opens(c, bad, {i \in Fixed : Takes(medium[c].sha, i, bad)} \ refused)
        \/ UNCHANGED <<stateVars, layerVars>> /\ worker' = "format"
        \/ UNCHANGED <<stateVars, layerVars>> /\ worker' = "serve" /\ mode' = "damaged"
      BY DEF open
    <2> QED
      BY <1>3, <1>4, <2>1

LEMMA FormatLayers ==
  ASSUME LayerInv, format \/ format_done, UNCHANGED <<group, mainVars>>
  PROVE LayerOK'
  <1>1. /\ worker \in Formatting /\ worker' \in Formatting \cup {"serve"} /\ UNCHANGED layerVars /\ tx' = tx
    BY DEF format, format_done, FormatStep, FormatFails, Formatting
  <1>2. GroupObjects' /\ Reserved' /\ Fresh
    <2>1. group' = NoGroup
      BY <1>1 DEF LayerInv, StoreInv, HandBase, ModeOK, Quiet
    <2> QED
      BY <1>1, <2>1, NoGroupLayers DEF LayerInv, LayerOK
  <1>3. Fresh' /\ (table' = table \/ table'.barred = {})
    <2>1. CASE format
      BY <1>2, <2>1 DEF format, FormatStep, FormatFails, stateVars, Fresh
    <2>2. CASE format_done
      BY <2>2, FirstOK DEF format_done, Fresh
    <2> QED
      BY <2>1, <2>2
  <1>4. ~AttachedTx /\ ~AttachedTx'
    BY <1>1, NotAttached, NotAttachedThen DEF Formatting
  <1>5. LayerType' /\ ObjectsOK' /\ TreeOK'
    <2>1. CASE table' = table
      BY <1>1, <1>4, <2>1, LayersKept DEF LayerInv
    <2>2. CASE table'.barred = {}
      <3>1. objects' = objects /\ layers' = layers /\ entries' = entries /\ out' = out /\ listed' = listed
        BY <1>1 DEF layerVars
      <3>2. LayerType /\ ObjectsOK /\ TreeOK
        BY DEF LayerInv, LayerOK
      <3>3. out = {}
        BY <1>2, <3>2, Slots DEF ObjectsOK, Fresh, LayerType
      <3>4. ObjectsOK'
        BY <1>2, <1>3, <2>2, <3>1, <3>2, <3>3, Slots DEF ObjectsOK, Fresh, Barred
      <3>5. \A i \in LayerPlaces : layers[i] = 0
        BY <1>2, <1>4, <3>2, EmptyIs, Slots DEF TreeOK, Shown, Fresh
      <3>6. TreeOK'
        BY <1>3, <1>4, <3>1, <3>5, EmptyIs, Slots DEF TreeOK, Shown, Fresh
      <3> QED
        BY <3>1, <3>2, <3>4, <3>6 DEF LayerType
    <2> QED
      BY <1>3, <2>1, <2>2
  <1> QED
    BY <1>1, <1>2, <1>3, <1>5 DEF LayerOK, Formatting, TxAt

-----------------------------------------------------------------------------
(* A transaction.                                                          *)

\* The layers stay: a step on the way, or a refusal before they move.
LEMMA TxLayers ==
  ASSUME LayerInv, worker \in TxAt, worker' \in TxAt \cup Ending, UNCHANGED <<layerVars, stateVars, group>>,
         tx'.kind = tx.kind, tx'.next = tx.next, tx'.detach = tx.detach, tx'.attach = tx.attach,
         mode' \in {mode, "nostore"}, AttachedTx' <=> AttachedTx, worker' = "attach" => AttachFirst
  PROVE LayerOK'
  <1>1. table' = table /\ group' = group /\ objects' = objects /\ out' = out /\ listed' = listed
    BY DEF stateVars, layerVars
  <1>2. LayerType' /\ ObjectsOK' /\ TreeOK'
    BY <1>1, LayersKept DEF LayerInv
  <1>3. TxShape /\ Reserved
    BY DEF LayerInv, LayerOK
  <1>4. Reserved'
    BY <1>1, <1>3 DEF Reserved, GroupPlaces
  <1>5. TxShape'
    BY <1>1, <1>3 DEF TxShape, SwapShape, SettingsShape, SerialShape, RevokedShape, AttachFirst, Barred
  <1>6. mode' # "damaged" /\ worker' \notin {"off"} \cup Formatting \cup Serving
    BY TxParts DEF LayerInv, TxAt, Ending, Formatting, Serving
  <1> QED
    BY <1>2, <1>4, <1>5, <1>6 DEF LayerOK

LEMMA AttachLayers ==
  ASSUME LayerInv, attach, UNCHANGED <<group, mainVars>>
  PROVE LayerOK'
  <1>1. /\ worker = "attach" /\ worker' = "super" /\ UNCHANGED <<stateVars, objects, listed, entries, out, tx, mode>>
        /\ layers' = [i \in LayerPlaces |->
                    IF i \in tx.attach THEN objects[i]
                    ELSE IF i \in tx.detach THEN 0 ELSE layers[i]]
    BY DEF attach, StepTx
  <1>2. /\ table' = table /\ group' = group /\ objects' = objects /\ out' = out /\ entries' = entries /\ tx' = tx
        /\ listed' = listed
    BY <1>1 DEF stateVars
  <1>3. LayerType /\ ObjectsOK /\ TreeOK /\ TxShape /\ Reserved /\ mode # "damaged"
    BY <1>1, TxParts DEF LayerInv, LayerOK, TxAt
  <1>4. AttachFirst /\ AttachedTx' /\ ~AttachedTx
    BY <1>1, <1>3 DEF TxShape, AttachedTx, AttachFirst
  <1>5. LayerType'
    BY <1>1, <1>2, <1>3 DEF LayerType
  <1>6. ObjectsOK'
    BY <1>2, <1>3 DEF ObjectsOK, Barred
  <1>7. TreeOK'
    BY <1>1, <1>2, <1>3, <1>4 DEF TreeOK, Shown
  <1>8. TxShape' /\ Reserved'
    BY <1>1, <1>2, <1>3 DEF TxShape, SwapShape, SettingsShape, SerialShape, RevokedShape, AttachFirst, Barred,
         Reserved, GroupPlaces
  <1> QED
    BY <1>1, <1>3, <1>5, <1>6, <1>7, <1>8 DEF LayerOK, TxAt, Serving, Formatting

\* The layers that moved go back; one that the file service does not take
\* again is out.
LEMMA UndoLayers ==
  ASSUME LayerInv, worker \in {"attach", "super", "f3"}, AttachFirst, NEW gone, undo(gone),
         worker' = "refused", UNCHANGED <<stateVars, objects, listed, entries, tx, group>>, mode' \in {mode, "nostore"}
  PROVE LayerOK'
  <1> DEFINE back == {i \in tx.detach : objects[i] # 0}
  <1>1. PICK lost \in SUBSET back :
         /\ layers' = [i \in LayerPlaces |->
                         IF i \in tx.attach \cup lost THEN 0
                         ELSE IF i \in back THEN objects[i] ELSE layers[i]]
         /\ out' = (out \ back) \cup lost
    BY DEF undo
  <1>2. /\ table' = table /\ group' = group /\ objects' = objects /\ entries' = entries /\ listed' = listed
    BY DEF stateVars
  <1>3. LayerType /\ ObjectsOK /\ TreeOK /\ TxShape /\ Reserved /\ mode # "damaged" /\ TableOK(table)
    BY TxParts, TableNow DEF LayerInv, LayerOK, TxAt
  <1>4. \A i \in Records : table.recs[i].data \in Nat /\ (table.recs[i] = EMPTY <=> table.recs[i].data = 0)
    BY <1>3, TableIs
  <1>5. /\ tx.detach \subseteq Fixed /\ \A i \in tx.detach : table.recs[i] # EMPTY
        /\ tx.attach \cap tx.detach = {} /\ \A i \in tx.attach : i = SETTINGS_NEW \/ table.recs[i] = EMPTY
        /\ listed => \A i \in tx.detach \cap Places : ~Barred(table, i)
    <2>1. CASE tx.kind = "Install"
      BY <1>3, <2>1, Slots DEF TxShape, SwapShape
    <2>2. CASE tx.kind = "Settings"
      <3>1. SettingsShape
        BY <1>3, <2>2 DEF TxShape
      <3>2. tx.detach \subseteq {SETTINGS_SLOT} /\ tx.attach = {SETTINGS_NEW}
            /\ (tx.detach # {} => objects[SETTINGS_SLOT] # 0)
        BY <3>1 DEF SettingsShape
      <3>3. \A i \in tx.detach : table.recs[i] # EMPTY
        BY <1>3, <3>2 DEF ObjectsOK
      <3> QED
        BY <3>2, <3>3, Slots
    <2> QED
      BY <2>1, <2>2 DEF AttachFirst
  <1>6. \A i \in back : /\ i \in Fixed /\ i \in tx.detach /\ table.recs[i] # EMPTY /\ objects[i] # 0
                        /\ objects[i] = table.recs[i].data
    BY <1>3, <1>5 DEF ObjectsOK
  <1>7. \A i \in tx.detach \ back : i \in out
    <2>1. ASSUME NEW i \in tx.detach \ back, i \notin out PROVE FALSE
      <3>1. i \in Fixed /\ i \in Records /\ objects[i] = 0 /\ table.recs[i] # EMPTY
        BY <1>5, <2>1, Slots
      <3> HIDE DEF back
      <3> QED
        BY <1>3, <1>4, <2>1, <3>1 DEF ObjectsOK
    <2> QED
      BY <2>1
  <1>8. \A i \in out : table.recs[i] # EMPTY /\ i \in Fixed
    BY <1>3 DEF ObjectsOK, LayerType
  <1>9. \A i \in LayerPlaces \ (tx.attach \cup tx.detach) : layers[i] = Shown(i)
    BY <1>3 DEF TreeOK
  <1>10. \A i \in tx.detach \ back : layers[i] = 0
    BY <1>3, <1>5, <1>7, Slots DEF TreeOK, Shown
  <1> HIDE DEF back
  <1>11. LayerType'
    <2>1. out' \subseteq Fixed
      BY <1>1, <1>6, <1>8
    <2>2. layers' \in [LayerPlaces -> Nat]
      BY <1>1, <1>3 DEF LayerType
    <2> QED
      BY <1>2, <1>3, <2>1, <2>2 DEF LayerType
  <1>12. ObjectsOK'
    <2>1. ASSUME NEW i \in Fixed, table.recs[i] # EMPTY
          PROVE /\ objects[i] \in {0, table.recs[i].data}
                /\ i \notin out' => objects[i] = table.recs[i].data
                /\ i \in Places /\ objects[i] # 0 => i \in entries
      BY <1>1, <1>3, <1>6, <2>1 DEF ObjectsOK
    <2>2. \A i \in out' : table.recs[i] # EMPTY
      BY <1>1, <1>6, <1>8
    <2>4. listed => \A i \in Places : Barred(table, i) => i \in out'
      <3>1. ASSUME NEW i \in Places, Barred(table, i), listed PROVE i \in out'
        <4>1. i \in out /\ i \notin back
          BY <1>3, <1>5, <1>6, <3>1 DEF ObjectsOK
        <4> QED
          BY <1>1, <4>1
      <3> QED
        BY <3>1
    <2>5. table.recs[SETTINGS_SLOT] = EMPTY => objects[SETTINGS_SLOT] = 0
      BY <1>3 DEF ObjectsOK
    <2> QED
      BY <1>2, <2>1, <2>2, <2>4, <2>5 DEF ObjectsOK, Barred
  <1>13. TreeOK'
    <2>1. ASSUME NEW i \in LayerPlaces
          PROVE layers'[i] = IF i = SETTINGS_NEW \/ i \in out' THEN 0 ELSE table.recs[i].data
      <3>1. CASE i \in tx.attach
        <4>1. layers'[i] = 0
          BY <1>1, <3>1
        <4>2. i = SETTINGS_NEW \/ table.recs[i].data = 0
          BY <1>5, <3>1, EmptyIs
        <4> QED
          BY <4>1, <4>2
      <3>2. CASE i \in lost
        BY <1>1, <3>2
      <3>3. CASE i \in back \ lost
        <4>1. i \notin tx.attach /\ i \notin out' /\ i # SETTINGS_NEW
          BY <1>1, <1>5, <1>6, <3>3, Slots
        <4> QED
          BY <1>1, <1>6, <3>3, <4>1
      <3>4. CASE i \in tx.detach \ back
        <4>1. i \notin tx.attach /\ i \notin lost /\ i \in out'
          BY <1>1, <1>5, <1>7, <3>4
        <4> QED
          BY <1>1, <1>10, <3>4, <4>1
      <3>5. CASE i \notin tx.attach \cup tx.detach
        <4>1. i \notin back /\ i \notin lost /\ (i \in out' <=> i \in out)
          BY <1>1, <1>6, <3>5
        <4> QED
          BY <1>1, <1>9, <3>5, <4>1 DEF Shown
      <3> QED
        BY <3>1, <3>2, <3>3, <3>4, <3>5
    <2> QED
      BY <1>2, <2>1, NotAttachedThen DEF TreeOK, Shown
  <1>14. Reserved'
    BY <1>2, <1>3 DEF Reserved, GroupPlaces
  <1> QED
    BY <1>3, <1>11, <1>12, <1>13, <1>14 DEF LayerOK, TxAt, Serving, Formatting

LEMMA TransactLayers ==
  ASSUME LayerInv, transact, UNCHANGED <<group, mainVars>>
  PROVE LayerOK'
  <1>1. worker \in TxAt /\ worker' \in TxAt \cup Ending /\ HandBase'
    BY TransactHand DEF LayerInv, StoreInv
  <1>2. mode' \in {mode, "nostore"} /\ UNCHANGED stateVars
    BY FailsMode DEF transact, DataFlushed, EarlyIo, NoSpace, write_table, TableFlushed, attach, AttachRefused,
           write_super, LastIo, Committed, Flush, Write, WriteFails, FlushFails
  <1>3. tx'.kind = tx.kind /\ tx'.next = tx.next /\ tx'.detach = tx.detach /\ tx'.attach = tx.attach
    <2>1. tx = [kind |-> tx.kind, next |-> tx.next, detach |-> tx.detach, attach |-> tx.attach,
                at |-> tx.at]
      BY DEF LayerInv, StoreInv, HandBase, HandType
    <2>2. CASE tx' = tx
      BY <2>2
    <2>3. CASE write_table
      <3>1. tx' = [tx EXCEPT !.at = free_table_extent(tx.next)]
        BY <2>3 DEF write_table
      <3>2. tx' = [kind |-> tx.kind, next |-> tx.next, detach |-> tx.detach, attach |-> tx.attach,
                   at |-> free_table_extent(tx.next)]
        BY <2>1, <3>1
      <3> QED
        BY <3>2
    <2> QED
      BY <2>2, <2>3 DEF transact, DataFlushed, EarlyIo, NoSpace, TableFlushed, attach, AttachRefused,
           write_super, LastIo, Committed
  <1>4. AttachFirst' = AttachFirst
    BY <1>3 DEF AttachFirst
  <1>5. TxShape
    BY <1>1 DEF LayerInv, LayerOK
  <1>6. CASE DataFlushed \/ EarlyIo \/ NoSpace \/ write_table \/ TableFlushed \/ write_super \/ Committed
    <2>1. UNCHANGED layerVars
      BY <1>6 DEF DataFlushed, EarlyIo, NoSpace, write_table, TableFlushed, write_super, Committed
    <2>2. (AttachedTx' <=> AttachedTx) /\ (worker' = "attach" => AttachFirst)
      BY <1>4, <1>6 DEF DataFlushed, EarlyIo, NoSpace, write_table, TableFlushed, write_super, Committed, StepTx,
           AttachedTx
    <2> QED
      BY <1>1, <1>2, <1>3, <2>1, <2>2, TxLayers
  <1>7. CASE attach
    BY <1>7, AttachLayers
  <1>8. CASE AttachRefused
    <2>1. /\ worker = "attach" /\ worker' = "refused" /\ (\E gone : undo(gone))
          /\ UNCHANGED <<stateVars, objects, listed, entries, tx>>
      BY <1>8 DEF AttachRefused, StepTx
    <2>2. AttachFirst
      BY <1>5, <2>1 DEF TxShape
    <2> QED
      BY <1>2, <2>1, <2>2, UndoLayers
  <1>9. CASE LastIo
    <2>1. worker \in {"super", "f3"} /\ worker' = "refused" /\ UNCHANGED <<stateVars, objects, listed, entries, tx>>
          /\ (IF AttachFirst THEN undo(In(layers, tx.attach)) ELSE UNCHANGED <<layers, stuck, out>>)
      BY <1>9 DEF LastIo
    <2>2. CASE AttachFirst
      BY <1>2, <2>1, <2>2, UndoLayers
    <2>3. CASE ~AttachFirst
      <3>1. UNCHANGED layerVars /\ (AttachedTx' <=> AttachedTx)
        BY <1>4, <2>1, <2>3 DEF layerVars, AttachedTx
      <3> QED
        BY <1>1, <1>2, <1>3, <2>1, <3>1, TxLayers
    <2> QED
      BY <2>2, <2>3
  <1> QED
    BY <1>6, <1>7, <1>8, <1>9 DEF transact

-----------------------------------------------------------------------------
(* The layers while the worker serves.                                     *)

LEMMA ServingLayers ==
  ASSUME LayerType', ObjectsOK', TreeOK', GroupObjects', worker' \in Serving, mode' = "damaged" => Fresh'
  PROVE LayerOK'
  BY DEF LayerOK, Serving, TxAt, Formatting

\* Neither the store nor the worker moves.
LEMMA LayersStay ==
  ASSUME LayerInv, UNCHANGED <<stateVars, layerVars, worker, tx, mode, group>>
  PROVE LayerOK'
  <1>1. /\ table' = table /\ objects' = objects /\ layers' = layers /\ entries' = entries /\ out' = out /\ listed' = listed
        /\ worker' = worker /\ tx' = tx /\ mode' = mode /\ group' = group /\ UNCHANGED layerVars
    BY DEF stateVars, layerVars
  <1>2. AttachedTx' <=> AttachedTx
    BY <1>1 DEF AttachedTx, AttachFirst
  <1>3. LayerType' /\ ObjectsOK' /\ TreeOK'
    BY <1>1, <1>2, LayersKept DEF LayerInv
  <1>4. (Fresh => Fresh') /\ (GroupObjects => GroupObjects') /\ (Reserved => Reserved')
    BY <1>1 DEF Fresh, GroupObjects, Reserved, GroupPlaces
  <1>5. TxShape => TxShape'
    BY <1>1 DEF TxShape, SwapShape, SettingsShape, SerialShape, RevokedShape, AttachFirst, Barred
  <1> QED
    BY <1>1, <1>3, <1>4, <1>5 DEF LayerInv, LayerOK

\* The places of the group are free in the table.
LEMMA GroupReserved ==
  ASSUME StoreInv, worker \in Serving
  PROVE Reserved
  BY DEF StoreInv, GroupOK, StagedOK, OpenOK, Claim, Reserved, GroupPlaces

\* The objects change where no record is.
LEMMA SpareObjects ==
  ASSUME LayerType, ObjectsOK, TreeOK, ~AttachedTx, ~AttachedTx', table' = table, layers' = layers,
         entries' = entries, out' = out, listed' = listed, objects' \in [LayerPlaces -> Nat],
         \A i \in Fixed : objects'[i] # objects[i] => i \in Places /\ table.recs[i] = EMPTY
  PROVE LayerType' /\ ObjectsOK' /\ TreeOK'
  <1>1. LayerType'
    BY DEF LayerType
  <1>2. SETTINGS_SLOT \in Fixed /\ objects'[SETTINGS_SLOT] = objects[SETTINGS_SLOT]
    BY Slots
  <1>3. \A i \in Fixed : table.recs[i] # EMPTY => objects'[i] = objects[i]
    OBVIOUS
  <1>4. ObjectsOK'
    BY <1>2, <1>3 DEF ObjectsOK, Barred
  <1>5. TreeOK'
    BY DEF TreeOK, Shown
  <1> QED
    BY <1>1, <1>4, <1>5

LEMMA DropLayers ==
  ASSUME LayerType, ObjectsOK, TreeOK, ~AttachedTx, ~AttachedTx', Reserved, table' = table, layers' = layers,
         entries' = entries, out' = out, listed' = listed, drop_group
  PROVE LayerType' /\ ObjectsOK' /\ TreeOK' /\ GroupObjects'
  <1>1. /\ group' = NoGroup
        /\ objects' = [i \in LayerPlaces |-> IF i \in GroupPlaces THEN 0 ELSE objects[i]]
    BY DEF drop_group
  <1>2. objects' \in [LayerPlaces -> Nat]
    BY <1>1 DEF LayerType
  <1>3. \A i \in Fixed : objects'[i] # objects[i] => i \in Places /\ table.recs[i] = EMPTY
    BY <1>1, Slots DEF Reserved
  <1> QED
    BY <1>1, <1>2, <1>3, SpareObjects, NoGroupLayers

LEMMA ServeNow ==
  ASSUME LayerInv, worker \in Serving
  PROVE LayerType /\ ObjectsOK /\ TreeOK /\ GroupObjects /\ ~AttachedTx /\ Reserved
  BY GroupReserved, NotAttached DEF LayerInv, LayerOK, Serving

LEMMA IdleLayers ==
  ASSUME LayerInv, serve_cancel \/ run_job \/ job_done
  PROVE LayerOK'
  <1>1. /\ worker \in Serving /\ worker' \in Serving /\ table' = table /\ layers' = layers /\ entries' = entries
        /\ out' = out /\ listed' = listed /\ tx' = tx /\ mode' = mode
    BY DEF serve_cancel, run_job, job_done, Serving, stateVars, layerVars
  <1>2. LayerType /\ ObjectsOK /\ TreeOK /\ GroupObjects /\ ~AttachedTx /\ Reserved
    BY <1>1, ServeNow
  <1>3. ~AttachedTx'
    BY <1>1, NotAttachedThen DEF Serving
  <1>4. mode' = "damaged" => Fresh'
    BY <1>1 DEF LayerInv, LayerOK, Fresh
  <1>5. CASE serve_cancel
    <2>1. drop_group
      BY <1>5 DEF serve_cancel
    <2> QED
      BY <1>1, <1>2, <1>3, <1>4, <2>1, DropLayers, ServingLayers
  <1>6. CASE run_job \/ job_done
    <2>1. objects' = objects /\ group' = group
      BY <1>6 DEF run_job, job_done, layerVars
    <2>2. objects' \in [LayerPlaces -> Nat]
      BY <1>2, <2>1 DEF LayerType
    <2>3. LayerType' /\ ObjectsOK' /\ TreeOK'
      BY <1>1, <1>2, <1>3, <2>1, <2>2, SpareObjects
    <2>4. GroupObjects'
      BY <1>2, <2>1 DEF GroupObjects
    <2> QED
      BY <1>1, <1>4, <2>3, <2>4, ServingLayers
  <1> QED
    BY <1>5, <1>6

LEMMA PumpLayers ==
  ASSUME LayerInv, pump_feed \/ pump_fails
  PROVE LayerOK'
  <1>1. /\ worker \in Serving /\ worker' \in Serving /\ table' = table /\ layers' = layers /\ entries' = entries
        /\ out' = out /\ listed' = listed /\ objects' = objects /\ group.open # NoReceipt
    BY DEF pump_feed, pump_fails, Pumps, Serving, stateVars, layerVars
  <1>2. LayerType /\ ObjectsOK /\ TreeOK /\ GroupObjects /\ ~AttachedTx
    BY <1>1, ServeNow
  <1>3. ~AttachedTx'
    BY <1>1, NotAttachedThen DEF Serving
  <1>4. mode' # "damaged"
    <2>1. mode # "damaged"
      BY <1>1, OpenParts DEF LayerInv
    <2>2. mode' \in {mode, "nostore"}
      BY FailsMode DEF pump_feed, pump_fails, Write, WriteFails
    <2> QED
      BY <2>1, <2>2
  <1>5. /\ group'.staged = group.staged /\ group'.open.rec = group.open.rec /\ group'.open.place = group.open.place
    <2>1. group \in GroupType /\ group.open \in Receipt
      BY <1>1, OpenParts DEF LayerInv
    <2> QED
      BY <2>1 DEF pump_feed, pump_fails, GroupType, Receipt
  <1>6. objects' \in [LayerPlaces -> Nat]
    BY <1>1, <1>2 DEF LayerType
  <1>7. LayerType' /\ ObjectsOK' /\ TreeOK'
    BY <1>1, <1>2, <1>3, <1>6, SpareObjects
  <1>8. GroupObjects'
    BY <1>1, <1>2, <1>5 DEF GroupObjects
  <1> QED
    BY <1>1, <1>4, <1>7, <1>8, ServingLayers

LEMMA RefusalLayers ==
  ASSUME LayerInv, Refusals
  PROVE LayerOK'
  <1>1. /\ worker = "job" /\ worker' = "done" /\ (drop_group \/ KeepGroup) /\ mode' \in {mode, "nostore"}
        /\ table' = table /\ layers' = layers /\ entries' = entries /\ out' = out /\ listed' = listed
    BY RefusalIs DEF LayerInv, StoreInv, stateVars
  <1>2. LayerType /\ ObjectsOK /\ TreeOK /\ GroupObjects /\ ~AttachedTx /\ Reserved
    BY <1>1, ServeNow DEF Serving
  <1>3. ~AttachedTx' /\ worker' \in Serving
    BY <1>1, NotAttachedThen DEF Serving
  <1>4. mode' # "damaged"
    BY <1>1, AtJob DEF LayerInv, StoreInv
  <1>5. CASE drop_group
    BY <1>1, <1>2, <1>3, <1>4, <1>5, DropLayers, ServingLayers
  <1>6. CASE KeepGroup
    <2>1. objects' = objects /\ group' = group
      BY <1>6 DEF KeepGroup
    <2>2. objects' \in [LayerPlaces -> Nat]
      BY <1>2, <2>1 DEF LayerType
    <2>3. LayerType' /\ ObjectsOK' /\ TreeOK'
      BY <1>1, <1>2, <1>3, <2>1, <2>2, SpareObjects
    <2>4. GroupObjects'
      BY <1>2, <2>1 DEF GroupObjects
    <2> QED
      BY <1>3, <1>4, <2>3, <2>4, ServingLayers
  <1> QED
    BY <1>1, <1>5, <1>6

LEMMA BeginLayers ==
  ASSUME LayerInv, begin
  PROVE LayerOK'
  <1>1. /\ worker = "job" /\ worker' = "done" /\ mode' = mode /\ made \in Nat
        /\ group'.staged = group.staged /\ Min(FreePlaces) \in FreePlaces
        /\ table' = table /\ layers' = layers /\ entries' = entries /\ out' = out /\ listed' = listed
    BY BeginIs DEF LayerInv, StoreInv, stateVars
  <1>2. PICK place \in FreePlaces : place = Min(FreePlaces)
    BY <1>1
  <1>3. PICK d \in Nat : d = made + 1
    BY <1>1
  <1>4. /\ objects' = [objects EXCEPT ![place] = d] /\ group'.open.place = place /\ group'.open.rec.data = d
    <2>1. objects' = [objects EXCEPT ![Min(FreePlaces)] = made + 1]
      BY DEF begin
    <2>2. group'.open.place = Min(FreePlaces) /\ group'.open.rec.data = made + 1
      BY NewOpen DEF LayerInv
    <2> QED
      BY <1>2, <1>3, <2>1, <2>2
  <1>5. place \in Places /\ place \in LayerPlaces /\ table.recs[place] = EMPTY /\ place \notin GroupPlaces
    BY <1>2, Slots DEF FreePlaces
  <1>6. LayerType /\ ObjectsOK /\ TreeOK /\ GroupObjects /\ ~AttachedTx
    BY <1>1, ServeNow DEF Serving
  <1>7. ~AttachedTx' /\ worker' \in Serving
    BY <1>1, NotAttachedThen DEF Serving
  <1>8. mode' # "damaged"
    BY <1>1, AtJob DEF LayerInv, StoreInv
  <1>9. objects' \in [LayerPlaces -> Nat] /\ objects'[place] = d /\ \A i \in LayerPlaces : i # place => objects'[i] = objects[i]
    BY <1>4, <1>5, <1>6 DEF LayerType
  <1>10. \A i \in Fixed : objects'[i] # objects[i] => i \in Places /\ table.recs[i] = EMPTY
    BY <1>5, <1>9, Slots
  <1>11. LayerType' /\ ObjectsOK' /\ TreeOK'
    BY <1>1, <1>6, <1>7, <1>9, <1>10, SpareObjects
  <1>12. GroupObjects'
    <2>1. ASSUME NEW k \in DOMAIN group.staged
          PROVE objects'[group.staged[k].place] = group.staged[k].rec.data
      <3>1. group.staged[k].place \in GroupPlaces
        BY DEF GroupPlaces
      <3>2. group.staged[k].place \in LayerPlaces /\ group.staged[k].place # place
        BY <1>1, <1>5, <3>1, GroupReserved, Slots DEF Reserved, Serving, LayerInv
      <3> QED
        BY <1>6, <1>9, <3>2 DEF GroupObjects
    <2> QED
      BY <1>1, <1>4, <1>9, <2>1 DEF GroupObjects
  <1> QED
    BY <1>7, <1>8, <1>11, <1>12, ServingLayers

-----------------------------------------------------------------------------
(* A job becomes a transaction.                                            *)

\* The object of every package of the group to be.
LEMMA StageObjects ==
  ASSUME LayerInv, Passes
  PROVE \A k \in DOMAIN Stage : objects[Stage[k].place] = Stage[k].rec.data
  <1>1. worker \in Serving /\ group.open # NoReceipt /\ group.staged \in Seq(Staging)
    <2>1. worker = "job" /\ group.open # NoReceipt
      BY StageIs DEF LayerInv, StoreInv
    <2>2. worker \in Serving
      BY <2>1 DEF Serving
    <2>3. group \in GroupType
      BY DEF LayerInv, StoreInv, HandBase, HandType
    <2> QED
      BY <2>1, <2>2, <2>3 DEF GroupType
  <1>2. GroupObjects
    BY <1>1, ServeNow
  <1>3. PICK s : s = [place |-> group.open.place, rec |-> group.open.rec] /\ s.place = group.open.place
                 /\ s.rec = group.open.rec
    <2>1. /\ [place |-> group.open.place, rec |-> group.open.rec].place = group.open.place
          /\ [place |-> group.open.place, rec |-> group.open.rec].rec = group.open.rec
      OBVIOUS
    <2> QED
      BY <2>1, Zenon
  <1>4. Stage = Append(group.staged, s)
    BY <1>3 DEF Stage
  <1>5. \A k \in DOMAIN Stage : (k \in DOMAIN group.staged /\ Stage[k] = group.staged[k]) \/ Stage[k] = s
    BY <1>1, <1>4
  <1> QED
    BY <1>1, <1>2, <1>3, <1>5 DEF GroupObjects

LEMMA StageLayers ==
  ASSUME LayerInv, commit_stage
  PROVE LayerOK'
  <1>1. /\ Passes /\ worker' = "done" /\ mode' = mode /\ objects' = objects
        /\ group' = [group EXCEPT !.staged = Stage, !.open = NoReceipt]
        /\ table' = table /\ layers' = layers /\ entries' = entries /\ out' = out /\ listed' = listed
    BY DEF commit_stage, Ends, Flush, stateVars, layerVars
  <1>2. /\ worker = "job" /\ group'.staged = Stage /\ group'.open = NoReceipt
    BY <1>1, StageIs DEF LayerInv, StoreInv
  <1>3. LayerType /\ ObjectsOK /\ TreeOK /\ ~AttachedTx
    BY <1>2, ServeNow DEF Serving
  <1>4. ~AttachedTx' /\ worker' \in Serving
    BY <1>1, NotAttachedThen DEF Serving
  <1>5. mode' # "damaged"
    BY <1>1, <1>2, AtJob DEF LayerInv, StoreInv
  <1>6. objects' \in [LayerPlaces -> Nat]
    BY <1>1, <1>3 DEF LayerType
  <1>7. LayerType' /\ ObjectsOK' /\ TreeOK'
    BY <1>1, <1>3, <1>4, <1>6, SpareObjects
  <1>8. GroupObjects'
    BY <1>1, <1>2, StageObjects DEF GroupObjects
  <1> QED
    BY <1>4, <1>5, <1>7, <1>8, ServingLayers

LEMMA StartLayers ==
  ASSUME LayerInv, worker = "job", worker' = "f1", mode' = mode, table' = table, layers' = layers,
         entries' = entries, out' = out, listed' = listed, objects' \in [LayerPlaces -> Nat],
         \A i \in Fixed : objects'[i] = objects[i], TxShape', Reserved'
  PROVE LayerOK'
  <1>1. LayerType /\ ObjectsOK /\ TreeOK /\ ~AttachedTx
    BY ServeNow DEF Serving
  <1>2. ~AttachedTx'
    BY NotAttachedThen
  <1>3. mode' # "damaged"
    BY AtJob DEF LayerInv, StoreInv
  <1>4. LayerType' /\ ObjectsOK' /\ TreeOK'
    BY <1>1, <1>2, SpareObjects
  <1> QED
    BY <1>3, <1>4 DEF LayerOK, TxAt, Serving, Formatting

LEMMA JobTable ==
  ASSUME LayerInv, worker = "job"
  PROVE TableOK(table) /\ LayerType /\ ObjectsOK /\ TreeOK /\ ~AttachedTx
  BY AtJob, TableNow, ServeNow DEF LayerInv, StoreInv, Serving

\* An installation takes out the packages of its names and brings its own.
LEMMA CommitLayers ==
  ASSUME LayerInv, commit_group
  PROVE LayerOK'
  <1>1. /\ Passes /\ mode' = mode /\ objects' = objects
        /\ table' = table /\ layers' = layers /\ entries' = entries /\ out' = out /\ listed' = listed
    BY DEF commit_group, Transacts, stateVars
  <1>2. /\ worker' = "f1" /\ tx'.kind = "Install" /\ tx'.next = GroupTable(Stage)
        /\ tx'.detach = UNION {Find(table, Stage[k].rec.name) : k \in DOMAIN Stage}
        /\ tx'.attach = {Stage[k].place : k \in DOMAIN Stage}
        /\ group'.staged = Stage /\ group'.open = NoReceipt
    BY CommitHand DEF LayerInv, StoreInv
  <1>3. worker = "job"
    BY <1>1, StageIs DEF LayerInv, StoreInv
  <1>4. TableOK(table) /\ LayerType
    BY <1>3, JobTable
  <1>5. /\ Stage \in Seq(Staging)
        /\ \A k \in DOMAIN Stage :
             /\ Stage[k].place \in Places /\ table.recs[Stage[k].place] = EMPTY
             /\ Stage[k].rec.name \in Names /\ Stage[k].rec.data # 0
             /\ listed => Stage[k].rec.name \notin table.barred
             /\ objects[Stage[k].place] = Stage[k].rec.data
    BY <1>1, StageParts, StageObjects DEF Claim, LayerInv
  <1>6. PICK t : t = GroupTable(Stage)
    OBVIOUS
  <1>7. /\ t.barred = table.barred
        /\ \A i \in Records :
             \/ \E k \in DOMAIN Stage : Stage[k].place = i /\ t.recs[i] = Stage[k].rec
             \/ /\ \A k \in DOMAIN Stage : Stage[k].place # i
                /\ t.recs[i] = IF i \in Places /\ \E k \in DOMAIN Stage : table.recs[i].name = Stage[k].rec.name
                               THEN EMPTY ELSE table.recs[i]
    BY <1>4, <1>5, <1>6, GroupTableIs
  <1>8. PICK go, come : /\ go = tx'.detach /\ come = tx'.attach
    OBVIOUS
  <1>9. /\ go \subseteq Places /\ come \subseteq Places
        /\ \A i \in Places : i \in go <=> \E k \in DOMAIN Stage : table.recs[i].name = Stage[k].rec.name
        /\ \A i : i \in come <=> \E k \in DOMAIN Stage : Stage[k].place = i
    BY <1>2, <1>5, <1>8 DEF Find
  <1>10. \A i \in go : table.recs[i] # EMPTY
    BY <1>4, <1>5, <1>9, TableIs
  <1>11. come \cap go = {}
    BY <1>5, <1>9, <1>10
  <1>12. \A i \in go : t.recs[i] = EMPTY /\ (listed => ~Barred(table, i))
    <2>1. ASSUME NEW i \in go PROVE t.recs[i] = EMPTY /\ (listed => ~Barred(table, i))
      <3>1. i \in Places /\ i \in Records /\ i \notin come
        BY <1>9, <1>11, <2>1, Sizes
      <3> QED
        BY <1>5, <1>7, <1>9, <2>1, <3>1 DEF Barred
    <2> QED
      BY <2>1
  <1>13. \A i \in Fixed \ (go \cup come) : t.recs[i] = table.recs[i]
    BY <1>7, <1>9, Slots
  <1>14. \A i \in come : /\ table.recs[i] = EMPTY /\ t.recs[i] # EMPTY /\ objects[i] = t.recs[i].data
                         /\ (listed => t.recs[i].name \notin table.barred)
    <2>1. ASSUME NEW i \in come
          PROVE /\ table.recs[i] = EMPTY /\ t.recs[i] # EMPTY /\ objects[i] = t.recs[i].data
                /\ (listed => t.recs[i].name \notin table.barred)
      <3>1. i \in Records
        BY <1>9, Sizes
      <3>2. PICK k \in DOMAIN Stage : Stage[k].place = i /\ t.recs[i] = Stage[k].rec
        BY <1>7, <1>9, <2>1, <3>1
      <3> QED
        BY <1>5, <3>2, EmptyIs
    <2> QED
      BY <2>1
  <1>15. SwapShape'
    <2>1. /\ tx'.next = t /\ tx'.detach = go /\ tx'.attach = come /\ tx'.kind = "Install"
          /\ table' = table /\ objects' = objects /\ listed' = listed /\ t.barred = table.barred
          /\ go \subseteq Places /\ come \subseteq Places
      BY <1>1, <1>2, <1>6, <1>7, <1>8, <1>9
    <2> QED
      BY <2>1, <1>10, <1>11, <1>12, <1>13, <1>14 DEF SwapShape, Barred
  <1>16. TxShape'
    BY <1>2, <1>15 DEF TxShape
  <1>17. Reserved'
    BY <1>1, <1>2, <1>5 DEF Reserved, GroupPlaces
  <1>18. objects' \in [LayerPlaces -> Nat] /\ \A i \in Fixed : objects'[i] = objects[i]
    BY <1>1, <1>4 DEF LayerType
  <1> QED
    BY <1>1, <1>2, <1>3, <1>16, <1>17, <1>18, StartLayers

\* What a change of the store starts.
LEMMA ChangeStarts ==
  ASSUME LayerInv, NEW kind \in Changing, NEW next, NEW go, NEW come, Changes, job.kind = kind,
         Transacts(kind, next, go, come), UNCHANGED <<group, fed, job, mode>>, made' \in Nat
  PROVE /\ worker = "job" /\ worker' = "f1" /\ mode' = mode /\ table' = table /\ layers' = layers
        /\ entries' = entries /\ out' = out /\ listed' = listed /\ Reserved'
        /\ tx'.kind = kind /\ tx'.next = next /\ tx'.detach = go /\ tx'.attach = come
  <1>1. /\ tx'.kind = kind /\ tx'.next = next /\ tx'.detach = go /\ tx'.attach = come
        /\ worker' = "f1" /\ group = NoGroup
    BY ChangeHand DEF LayerInv, StoreInv
  <1>2. worker = "job" /\ table' = table /\ layers' = layers /\ entries' = entries /\ out' = out /\ listed' = listed
    BY DEF Changes, Transacts, stateVars
  <1>3. Reserved'
    BY <1>1, NoGroupLayers
  <1> QED
    BY <1>1, <1>2, <1>3

LEMMA RemoveLayers ==
  ASSUME LayerInv, remove
  PROVE LayerOK'
  <1>1. PICK places : /\ places = UNION {Find(table, n) : n \in job.names}
                      /\ Transacts("Remove", RemoveTable(places), places, {})
    BY DEF remove
  <1>2. /\ Changes /\ job.kind = "Remove" /\ UNCHANGED <<group, fed, job, mode>> /\ objects' = objects
        /\ made' \in Nat /\ job.names \subseteq Names
    BY DEF remove, KeepGroup, LayerInv, StoreInv, HandBase, HandType, JobType
  <1>3. PICK t : t = RemoveTable(places)
    OBVIOUS
  <1>4. /\ worker = "job" /\ worker' = "f1" /\ mode' = mode /\ table' = table /\ layers' = layers
        /\ entries' = entries /\ out' = out /\ listed' = listed /\ Reserved'
        /\ tx'.kind = "Remove" /\ tx'.next = t /\ tx'.detach = places /\ tx'.attach = {}
    BY <1>1, <1>2, <1>3, ChangeStarts DEF Changing
  <1>5. TableOK(table) /\ LayerType
    BY <1>4, JobTable
  <1>6. t.barred = table.barred /\ \A i \in Records : t.recs[i] = IF i \in places THEN EMPTY ELSE table.recs[i]
    BY <1>3, <1>5, RemoveTableIs
  <1>7. places \subseteq Places /\ \A i \in places : table.recs[i] # EMPTY
    BY <1>1, <1>2, <1>5, TableIs DEF Find
  <1>8. SwapShape'
    BY <1>4, <1>6, <1>7, Slots DEF SwapShape
  <1>9. TxShape'
    BY <1>4, <1>8 DEF TxShape
  <1>10. objects' \in [LayerPlaces -> Nat] /\ \A i \in Fixed : objects'[i] = objects[i]
    BY <1>2, <1>5 DEF LayerType
  <1> QED
    BY <1>4, <1>9, <1>10, StartLayers

LEMMA SerialLayers ==
  ASSUME LayerInv, serial_set
  PROVE LayerOK'
  <1>1. /\ Transacts("Serial", SerialTable(table.serial + 1), {}, {})
        /\ Changes /\ job.kind = "Serial" /\ UNCHANGED <<group, fed, job, mode>> /\ objects' = objects
        /\ made' \in Nat
    BY DEF serial_set, KeepGroup, LayerInv, StoreInv, HandBase, HandType
  <1>2. PICK t : t = SerialTable(table.serial + 1)
    OBVIOUS
  <1>3. /\ worker = "job" /\ worker' = "f1" /\ mode' = mode /\ table' = table /\ layers' = layers
        /\ entries' = entries /\ out' = out /\ listed' = listed /\ Reserved'
        /\ tx'.kind = "Serial" /\ tx'.next = t /\ tx'.detach = {} /\ tx'.attach = {}
    BY <1>1, <1>2, ChangeStarts DEF Changing
  <1>4. TableOK(table) /\ LayerType
    BY <1>3, JobTable
  <1>5. t.barred = table.barred /\ t.recs = table.recs
    BY <1>2, <1>4, SerialTableIs
  <1>6. TxShape'
    BY <1>3, <1>5 DEF TxShape, SerialShape
  <1>7. objects' \in [LayerPlaces -> Nat] /\ \A i \in Fixed : objects'[i] = objects[i]
    BY <1>1, <1>4 DEF LayerType
  <1> QED
    BY <1>3, <1>6, <1>7, StartLayers

\* A blob is written.
LEMMA BlobStarts ==
  ASSUME LayerInv, worker = "job", job.kind \in {"Settings", "Revoked"}, write_blob, UNCHANGED <<stateVars, sure>>
  PROVE mode' = mode /\ extent_for({}) \in Extents /\ made + 1 \in Nat /\ made + 1 # 0 /\ made' = made + 1
  <1>1. ~Late
    BY LateKinds DEF Serving
  <1> QED
    BY <1>1, BlobWrite DEF LayerInv

LEMMA SettingsLayers ==
  ASSUME LayerInv, settings_set
  PROVE LayerOK'
  <1>1. /\ Changes /\ job.kind = "Settings" /\ write_blob /\ UNCHANGED <<group, fed, job>> /\ UNCHANGED <<stateVars, sure>>
        /\ objects' = [objects EXCEPT ![SETTINGS_NEW] = made + 1] /\ worker = "job"
        /\ Transacts("Settings", SettingsTable(extent_for({}), made + 1),
                 IF objects[SETTINGS_SLOT] # 0 THEN {SETTINGS_SLOT} ELSE {}, {SETTINGS_NEW})
    BY DEF settings_set, Changes, Transacts
  <1>2. mode' = mode /\ extent_for({}) \in Extents /\ made + 1 \in Nat /\ made + 1 # 0 /\ made' = made + 1
    BY <1>1, BlobStarts
  <1>3. PICK x \in Extents, d \in Nat : x = extent_for({}) /\ d = made + 1 /\ d # 0
    BY <1>2
  <1>4. PICK go : go = IF objects[SETTINGS_SLOT] # 0 THEN {SETTINGS_SLOT} ELSE {}
    OBVIOUS
  <1>5. PICK t : t = SettingsTable(x, d)
    OBVIOUS
  <1>6. Transacts("Settings", t, go, {SETTINGS_NEW})
    BY <1>1, <1>3, <1>4, <1>5
  <1>7. made' \in Nat
    BY <1>2
  <1>8. /\ worker' = "f1" /\ table' = table /\ layers' = layers
        /\ entries' = entries /\ out' = out /\ listed' = listed /\ Reserved'
        /\ tx'.kind = "Settings" /\ tx'.next = t /\ tx'.detach = go /\ tx'.attach = {SETTINGS_NEW}
    BY <1>1, <1>2, <1>6, <1>7, ChangeStarts DEF Changing
  <1>9. TableOK(table) /\ LayerType
    BY <1>1, JobTable
  <1>10. /\ t.barred = table.barred
         /\ \A i \in Records : t.recs[i] = IF i = SETTINGS_SLOT THEN Blob("settings", x, d) ELSE table.recs[i]
    BY <1>3, <1>5, <1>9, SettingsTableIs
  <1>11. Blob("settings", x, d).data = d /\ Blob("settings", x, d) # EMPTY
    BY <1>3, BlobIs
  <1>12. t.recs[SETTINGS_SLOT].data = d /\ t.recs[SETTINGS_SLOT] # EMPTY /\ \A i \in Places : t.recs[i] = table.recs[i]
    BY <1>10, <1>11, Sizes
  <1>13. /\ objects' \in [LayerPlaces -> Nat] /\ objects'[SETTINGS_NEW] = d
         /\ \A i \in LayerPlaces : i # SETTINGS_NEW => objects'[i] = objects[i]
    BY <1>1, <1>3, <1>9, Slots DEF LayerType
  <1>14. \A i \in Fixed : objects'[i] = objects[i]
    BY <1>13, Slots
  <1>15. SettingsShape'
    BY <1>4, <1>8, <1>10, <1>12, <1>13, <1>14, Slots DEF SettingsShape
  <1>16. TxShape'
    BY <1>8, <1>15 DEF TxShape
  <1> QED
    BY <1>1, <1>2, <1>8, <1>13, <1>14, <1>16, StartLayers

\* A list of revocations: the packages it names have no layer, or lose it.
LEMMA RevokedLayers ==
  ASSUME LayerInv, revoked_set
  PROVE LayerOK'
  <1>1. /\ Changes /\ job.kind = "Revoked" /\ write_blob /\ UNCHANGED <<group, fed, job>> /\ UNCHANGED <<stateVars, sure>>
        /\ objects' = objects /\ worker = "job"
        /\ Transacts("Revoked", RevokedTable(extent_for({}), made + 1, job.names),
                     {i \in Places : RevokedTable(extent_for({}), made + 1, job.names).recs[i].revoked /\ layers[i] # 0}, {})
    BY DEF revoked_set, Changes, Transacts, KeepGroup
  <1>2. mode' = mode /\ extent_for({}) \in Extents /\ made + 1 \in Nat /\ made + 1 # 0 /\ made' = made + 1
    BY <1>1, BlobStarts
  <1>3. PICK x \in Extents, d \in Nat : x = extent_for({}) /\ d = made + 1 /\ d # 0
    BY <1>2
  <1>4. PICK names \in SUBSET Names : names = job.names
    BY DEF LayerInv, StoreInv, HandBase, HandType, JobType
  <1>5. PICK t : t = RevokedTable(x, d, names)
    OBVIOUS
  <1>6. PICK go : go = {i \in Places : t.recs[i].revoked /\ layers[i] # 0}
    OBVIOUS
  <1>7. Transacts("Revoked", t, go, {}) /\ made' \in Nat
    BY <1>1, <1>2, <1>3, <1>4, <1>5, <1>6
  <1>8. /\ worker' = "f1" /\ table' = table /\ layers' = layers
        /\ entries' = entries /\ out' = out /\ listed' = listed /\ Reserved'
        /\ tx'.kind = "Revoked" /\ tx'.next = t /\ tx'.detach = go /\ tx'.attach = {}
    BY <1>1, <1>2, <1>7, ChangeStarts DEF Changing
  <1>9. TableOK(table) /\ LayerType /\ ObjectsOK /\ TreeOK /\ ~AttachedTx
    BY <1>1, JobTable
  <1>10. /\ t.barred = names
         /\ \A i \in Records \ {REVOKED_SLOT} :
              /\ t.recs[i].name = table.recs[i].name
              /\ t.recs[i].data = table.recs[i].data /\ (t.recs[i] = EMPTY <=> table.recs[i] = EMPTY)
         /\ \A i \in Places : table.recs[i] # EMPTY =>
              t.recs[i].revoked = (i \in entries /\ table.recs[i].name \in names)
    BY <1>3, <1>4, <1>5, <1>9, RevokedTableIs
  <1>11. \A i \in Fixed : /\ t.recs[i].data = table.recs[i].data /\ (t.recs[i] = EMPTY <=> table.recs[i] = EMPTY)
    BY <1>10, Slots
  <1>12. \A i \in Places : /\ layers[i] = Shown(i) /\ i # SETTINGS_NEW /\ i \in Records
                           /\ (table.recs[i] = EMPTY <=> table.recs[i].data = 0)
    BY <1>9, Slots, TableIs DEF TreeOK
  <1>13. \A i \in go : i \in Places /\ i \notin out /\ table.recs[i] # EMPTY
    BY <1>6, <1>12 DEF Shown
  <1>14. \A i \in Places : Barred(t, i) => i \in out \cup go
    <2>1. ASSUME NEW i \in Places, Barred(t, i), i \notin out PROVE i \in go
      <3>1. table.recs[i].name \in names /\ t.recs[i].name = table.recs[i].name
        BY <1>10, <2>1, Slots DEF Barred
      <3>2. table.recs[i] # EMPTY /\ table.recs[i].data # 0
        BY <1>4, <1>9, <1>12, <3>1, TableIs
      <3>3. i \in entries
        BY <1>9, <2>1, <3>2, Slots DEF ObjectsOK
      <3>4. t.recs[i].revoked
        BY <1>10, <3>1, <3>2, <3>3
      <3>5. layers[i] # 0
        BY <1>12, <2>1, <3>2 DEF Shown
      <3> QED
        BY <1>6, <3>4, <3>5
    <2> QED
      BY <2>1
  <1>15. RevokedShape'
    BY <1>8, <1>11, <1>13, <1>14 DEF RevokedShape, Barred
  <1>16. TxShape'
    BY <1>8, <1>15 DEF TxShape
  <1>17. objects' \in [LayerPlaces -> Nat] /\ \A i \in Fixed : objects'[i] = objects[i]
    BY <1>1, <1>9 DEF LayerType
  <1> QED
    BY <1>1, <1>2, <1>8, <1>16, <1>17, StartLayers

-----------------------------------------------------------------------------
(* The end of a transaction.                                               *)

LEMMA RefusedEndLayers ==
  ASSUME LayerInv, after_refused
  PROVE LayerOK'
  <1>1. /\ worker = "refused" /\ worker' = "done" /\ mode' = mode
        /\ table' = table /\ layers' = layers /\ entries' = entries /\ out' = out /\ listed' = listed
    BY DEF after_refused, Ends, stateVars
  <1>2. LayerType /\ ObjectsOK /\ TreeOK /\ Reserved /\ ~AttachedTx
    BY <1>1, NotAttached DEF LayerInv, LayerOK
  <1>3. ~AttachedTx' /\ worker' \in Serving
    BY <1>1, NotAttachedThen DEF Serving
  <1>4. mode' # "damaged"
    BY <1>1 DEF LayerInv, StoreInv, HandBase, ModeOK
  <1>5. CASE tx.kind = "Install"
    <2>1. drop_group
      BY <1>5 DEF after_refused
    <2> QED
      BY <1>1, <1>2, <1>3, <1>4, <2>1, DropLayers, ServingLayers
  <1>6. CASE tx.kind # "Install"
    <2>1. objects' = [objects EXCEPT ![SETTINGS_NEW] = 0]
      BY <1>6 DEF after_refused
    <2>2. objects' \in [LayerPlaces -> Nat] /\ \A i \in Fixed : objects'[i] = objects[i]
      BY <1>2, <2>1, Slots DEF LayerType
    <2>3. group' = NoGroup
      BY AfterHand DEF LayerInv, StoreInv
    <2>4. GroupObjects'
      BY <2>3, NoGroupLayers
    <2>5. LayerType' /\ ObjectsOK' /\ TreeOK'
      BY <1>1, <1>2, <1>3, <2>2, SpareObjects
    <2> QED
      BY <1>3, <1>4, <2>4, <2>5, ServingLayers
  <1> QED
    BY <1>5, <1>6

\* The state a transaction published: the tree shows the new table.
LEMMA SwapPublished ==
  ASSUME LayerType, ObjectsOK, TreeOK, SwapShape, TableOK(tx.next), tx.kind \in {"Install", "Remove"},
         tx.kind = "Install" => AttachedTx, ~AttachedTx', table' = tx.next,
         objects' = [i \in LayerPlaces |-> IF i \in tx.detach THEN 0 ELSE objects[i]],
         layers' = [i \in LayerPlaces |-> IF i \in tx.detach THEN 0 ELSE layers[i]],
         entries' = (entries \ tx.detach) \cup (tx.attach \cap Places), out' = out \ tx.detach, listed' = listed
  PROVE LayerType' /\ ObjectsOK' /\ TreeOK'
  <1>1. PICK n, go, come : n = tx.next /\ go = tx.detach /\ come = tx.attach
    OBVIOUS
  <1>2. /\ n.barred = table.barred /\ go \subseteq Places /\ come \subseteq Places /\ come \cap go = {}
        /\ \A i \in go : table.recs[i] # EMPTY /\ n.recs[i] = EMPTY
        /\ \A i \in Fixed \ (go \cup come) : n.recs[i] = table.recs[i]
        /\ \A i \in come : /\ table.recs[i] = EMPTY /\ n.recs[i] # EMPTY /\ objects[i] = n.recs[i].data
                           /\ (listed => n.recs[i].name \notin table.barred)
    BY <1>1 DEF SwapShape
  <1>3. /\ \A i \in LayerPlaces : objects'[i] = (IF i \in go THEN 0 ELSE objects[i])
        /\ \A i \in LayerPlaces : layers'[i] = (IF i \in go THEN 0 ELSE layers[i])
        /\ entries' = (entries \ go) \cup come /\ out' = out \ go /\ table' = n /\ listed' = listed
    BY <1>1, <1>2
  <1>4. LayerType'
    <2>1. objects' \in [LayerPlaces -> Nat] /\ layers' \in [LayerPlaces -> Nat]
      BY DEF LayerType
    <2> QED
      BY <1>2, <1>3, <2>1 DEF LayerType
  <1>5. \A i \in out' : i \notin go /\ i \in out /\ table.recs[i] # EMPTY /\ i \notin come /\ i \in Fixed
    BY <1>2, <1>3 DEF ObjectsOK, LayerType
  <1>6. ObjectsOK'
    <2>1. ASSUME NEW i \in Fixed, n.recs[i] # EMPTY
          PROVE /\ objects'[i] \in {0, n.recs[i].data}
                /\ i \notin out' => objects'[i] = n.recs[i].data
                /\ i \in Places /\ objects'[i] # 0 => i \in entries'
      <3>1. i \notin go /\ i \in LayerPlaces /\ objects'[i] = objects[i]
        BY <1>2, <1>3, <2>1, Slots
      <3>2. CASE i \in come
        BY <1>2, <1>3, <3>1, <3>2
      <3>3. CASE i \notin come
        <4>1. n.recs[i] = table.recs[i] /\ (i \in out <=> i \in out')
          BY <1>2, <1>3, <3>1, <3>3
        <4> QED
          BY <1>3, <2>1, <3>1, <3>3, <4>1 DEF ObjectsOK
      <3> QED
        BY <3>2, <3>3
    <2>2. \A i \in out' : n.recs[i] # EMPTY
      BY <1>2, <1>5
    <2>3. /\ SETTINGS_SLOT \in Fixed /\ SETTINGS_SLOT \notin go \cup come /\ SETTINGS_SLOT \in LayerPlaces
      BY <1>2, Slots
    <2>4. n.recs[SETTINGS_SLOT] = EMPTY => objects'[SETTINGS_SLOT] = 0
      BY <1>2, <1>3, <2>3 DEF ObjectsOK
    <2>5. ASSUME NEW i \in Places, Barred(n, i), listed PROVE i \in out'
      <3>1. n.recs[i] # EMPTY /\ n.recs[i].name \in table.barred
        BY <1>1, <1>2, <2>5, TableIs DEF Barred
      <3>2. i \notin go \cup come /\ i \in Fixed
        BY <1>2, <2>5, <3>1, Slots
      <3>3. Barred(table, i)
        BY <1>2, <3>1, <3>2 DEF Barred
      <3> QED
        BY <1>3, <2>5, <3>2, <3>3 DEF ObjectsOK
    <2> QED
      BY <1>3, <2>1, <2>2, <2>4, <2>5 DEF ObjectsOK, Barred
  <1>7. ASSUME NEW i \in LayerPlaces
        PROVE layers'[i] = IF i = SETTINGS_NEW \/ i \in out' THEN 0 ELSE n.recs[i].data
    <2>1. CASE i \in go
      BY <1>2, <1>3, <2>1, EmptyIs
    <2>2. CASE i \in come
      <3>1. AttachedTx
        <4>1. tx.kind = "Install"
          BY <1>1, <2>2 DEF SwapShape
        <4> QED
          BY <4>1
      <3>2. layers'[i] = objects[i] /\ i # SETTINGS_NEW /\ i \notin out'
        BY <1>1, <1>2, <1>3, <1>5, <2>2, <3>1, Slots DEF TreeOK
      <3> QED
        BY <1>2, <2>2, <3>2
    <2>3. CASE i \notin go \cup come
      <3>1. layers'[i] = Shown(i) /\ (i \in out <=> i \in out')
        BY <1>1, <1>3, <2>3 DEF TreeOK
      <3>2. i # SETTINGS_NEW => n.recs[i] = table.recs[i]
        BY <1>2, <2>3, Slots
      <3> QED
        BY <3>1, <3>2 DEF Shown
    <2> QED
      BY <2>1, <2>2, <2>3
  <1>8. TreeOK'
    BY <1>3, <1>7 DEF TreeOK, Shown
  <1> QED
    BY <1>4, <1>6, <1>8

LEMMA SettingsPublished ==
  ASSUME LayerType, ObjectsOK, TreeOK, SettingsShape, AttachedTx, ~AttachedTx', table' = tx.next,
         objects' = [objects EXCEPT ![SETTINGS_SLOT] = objects[SETTINGS_NEW], ![SETTINGS_NEW] = 0],
         layers' = [layers EXCEPT ![SETTINGS_SLOT] = layers[SETTINGS_NEW], ![SETTINGS_NEW] = 0],
         entries' = (entries \ tx.detach) \cup (tx.attach \cap Places), out' = out \ {SETTINGS_SLOT}, listed' = listed
  PROVE LayerType' /\ ObjectsOK' /\ TreeOK'
  <1>1. PICK n : n = tx.next
    OBVIOUS
  <1>2. /\ n.barred = table.barred /\ tx.attach = {SETTINGS_NEW} /\ tx.detach \subseteq {SETTINGS_SLOT}
        /\ \A i \in Places : n.recs[i] = table.recs[i]
        /\ n.recs[SETTINGS_SLOT] # EMPTY /\ objects[SETTINGS_NEW] = n.recs[SETTINGS_SLOT].data
    BY <1>1 DEF SettingsShape
  <1>3. /\ objects' \in [LayerPlaces -> Nat] /\ layers' \in [LayerPlaces -> Nat]
        /\ objects'[SETTINGS_SLOT] = objects[SETTINGS_NEW] /\ layers'[SETTINGS_SLOT] = layers[SETTINGS_NEW]
        /\ layers'[SETTINGS_NEW] = 0
        /\ \A i \in Places : objects'[i] = objects[i] /\ layers'[i] = layers[i]
    <2>1. /\ objects \in [LayerPlaces -> Nat] /\ layers \in [LayerPlaces -> Nat]
          /\ SETTINGS_SLOT \in LayerPlaces /\ SETTINGS_NEW \in LayerPlaces /\ SETTINGS_NEW # SETTINGS_SLOT
          /\ Places \subseteq LayerPlaces /\ SETTINGS_NEW \notin Places /\ SETTINGS_SLOT \notin Places
      BY Slots DEF LayerType
    <2> QED
      BY <2>1
  <1>4. entries' = entries /\ table' = n /\ SETTINGS_SLOT \notin out'
        /\ (\A i \in Places : i \in out' <=> i \in out) /\ out' \subseteq out
    BY <1>1, <1>2, Slots DEF LayerType
  <1>5. LayerType'
    BY <1>3, <1>4 DEF LayerType
  <1>6. ObjectsOK'
    <2>1. ASSUME NEW i \in Fixed, n.recs[i] # EMPTY
          PROVE /\ objects'[i] \in {0, n.recs[i].data}
                /\ i \notin out' => objects'[i] = n.recs[i].data
                /\ i \in Places /\ objects'[i] # 0 => i \in entries'
      <3>1. CASE i = SETTINGS_SLOT
        BY <1>2, <1>3, <3>1, Slots
      <3>2. CASE i \in Places
        BY <1>2, <1>3, <1>4, <2>1, <3>2 DEF ObjectsOK
      <3> QED
        BY <3>1, <3>2 DEF Fixed
    <2>2. \A i \in out' : n.recs[i] # EMPTY
      BY <1>2, <1>4 DEF ObjectsOK, LayerType, Fixed
    <2>3. listed => \A i \in Places : Barred(n, i) => i \in out'
      BY <1>2, <1>4 DEF ObjectsOK, Barred
    <2> QED
      BY <1>2, <1>4, <2>1, <2>2, <2>3 DEF ObjectsOK, Barred
  <1>7. ASSUME NEW i \in LayerPlaces
        PROVE layers'[i] = IF i = SETTINGS_NEW \/ i \in out' THEN 0 ELSE n.recs[i].data
    <2>1. CASE i = SETTINGS_NEW
      BY <1>3, <2>1
    <2>2. CASE i = SETTINGS_SLOT
      <3>1. layers[SETTINGS_NEW] = objects[SETTINGS_NEW]
        BY <1>2, Slots DEF TreeOK
      <3> QED
        BY <1>2, <1>3, <1>4, <2>2, <3>1, Slots
    <2>3. CASE i \in Places
      <3>1. i \notin tx.attach /\ i \notin tx.detach /\ i # SETTINGS_NEW
        BY <1>2, <2>3, Slots
      <3>2. layers[i] = Shown(i)
        BY <3>1 DEF TreeOK
      <3> QED
        BY <1>2, <1>3, <1>4, <2>3, <3>1, <3>2 DEF Shown
    <2> QED
      BY <2>1, <2>2, <2>3 DEF LayerPlaces
  <1>8. TreeOK'
    BY <1>4, <1>7 DEF TreeOK, Shown
  <1> QED
    BY <1>5, <1>6, <1>8

LEMMA RevokedPublished ==
  ASSUME LayerType, ObjectsOK, TreeOK, RevokedShape, ~AttachedTx, ~AttachedTx', table' = tx.next,
         objects' = [i \in LayerPlaces |-> IF i \in tx.detach THEN 0 ELSE objects[i]],
         layers' = [i \in LayerPlaces |-> IF i \in tx.detach THEN 0 ELSE layers[i]],
         entries' = entries \cup (tx.attach \cap Places), out' = out \cup tx.detach, listed' = TRUE
  PROVE LayerType' /\ ObjectsOK' /\ TreeOK'
  <1>1. PICK n, go : n = tx.next /\ go = tx.detach
    OBVIOUS
  <1>2. /\ tx.attach = {} /\ go \subseteq Places \ out
        /\ \A i \in Fixed : n.recs[i].data = table.recs[i].data /\ (n.recs[i] = EMPTY <=> table.recs[i] = EMPTY)
        /\ \A i \in go : table.recs[i] # EMPTY
        /\ \A i \in Places : Barred(n, i) => i \in out \cup go
    BY <1>1 DEF RevokedShape
  <1>3. /\ \A i \in LayerPlaces : objects'[i] = (IF i \in go THEN 0 ELSE objects[i])
        /\ \A i \in LayerPlaces : layers'[i] = (IF i \in go THEN 0 ELSE layers[i])
        /\ entries' = entries /\ out' = out \cup go /\ table' = n
    BY <1>1, <1>2
  <1>4. LayerType'
    <2>1. objects' \in [LayerPlaces -> Nat] /\ layers' \in [LayerPlaces -> Nat]
      BY DEF LayerType
    <2> QED
      BY <1>2, <1>3, <2>1, Slots DEF LayerType
  <1>5. ObjectsOK'
    <2>1. ASSUME NEW i \in Fixed, n.recs[i] # EMPTY
          PROVE /\ objects'[i] \in {0, n.recs[i].data}
                /\ i \notin out' => objects'[i] = n.recs[i].data
                /\ i \in Places /\ objects'[i] # 0 => i \in entries'
      <3>1. table.recs[i] # EMPTY /\ i \in LayerPlaces /\ n.recs[i].data = table.recs[i].data
        BY <1>2, <2>1, Slots
      <3> QED
        BY <1>3, <3>1 DEF ObjectsOK
    <2>2. \A i \in out' : n.recs[i] # EMPTY
      BY <1>2, <1>3, Slots DEF ObjectsOK, LayerType
    <2>3. SETTINGS_SLOT \in Fixed /\ SETTINGS_SLOT \notin go /\ SETTINGS_SLOT \in LayerPlaces
      BY <1>2, Slots
    <2>4. n.recs[SETTINGS_SLOT] = EMPTY => objects'[SETTINGS_SLOT] = 0
      BY <1>2, <1>3, <2>3 DEF ObjectsOK
    <2> QED
      BY <1>2, <1>3, <2>1, <2>2, <2>4 DEF ObjectsOK, Barred
  <1>6. ASSUME NEW i \in LayerPlaces
        PROVE layers'[i] = IF i = SETTINGS_NEW \/ i \in out' THEN 0 ELSE n.recs[i].data
    <2>1. CASE i \in go
      BY <1>3, <2>1
    <2>2. CASE i \notin go
      <3>1. layers'[i] = Shown(i) /\ (i \in out <=> i \in out')
        BY <1>3, <2>2 DEF TreeOK
      <3>2. i # SETTINGS_NEW => n.recs[i].data = table.recs[i].data
        BY <1>2, Slots
      <3> QED
        BY <3>1, <3>2 DEF Shown
    <2> QED
      BY <2>1, <2>2
  <1>7. TreeOK'
    BY <1>3, <1>6 DEF TreeOK, Shown
  <1> QED
    BY <1>4, <1>5, <1>7

LEMMA SerialPublished ==
  ASSUME LayerType, ObjectsOK, TreeOK, SerialShape, ~AttachedTx, ~AttachedTx', table' = tx.next,
         objects' = [i \in LayerPlaces |-> IF i \in tx.detach THEN 0 ELSE objects[i]],
         layers' = [i \in LayerPlaces |-> IF i \in tx.detach THEN 0 ELSE layers[i]],
         entries' = (entries \ tx.detach) \cup (tx.attach \cap Places), out' = out \ tx.detach, listed' = listed
  PROVE LayerType' /\ ObjectsOK' /\ TreeOK'
  <1>1. /\ tx.detach = {} /\ tx.attach = {} /\ table'.recs = table.recs /\ table'.barred = table.barred
    BY DEF SerialShape
  <1>2. /\ objects' \in [LayerPlaces -> Nat] /\ layers' \in [LayerPlaces -> Nat] /\ entries' = entries /\ out' = out /\ listed' = listed
        /\ \A i \in LayerPlaces : objects'[i] = objects[i] /\ layers'[i] = layers[i]
    BY <1>1 DEF LayerType
  <1>3. LayerType'
    BY <1>2 DEF LayerType
  <1>4. \A i \in Fixed : objects'[i] = objects[i]
    BY <1>2, Slots
  <1>5. ObjectsOK'
    BY <1>1, <1>2, <1>4, Slots DEF ObjectsOK, Barred
  <1>6. TreeOK'
    BY <1>1, <1>2 DEF TreeOK, Shown
  <1> QED
    BY <1>3, <1>5, <1>6

LEMMA MadeEndLayers ==
  ASSUME LayerInv, after_made
  PROVE LayerOK'
  <1>1. /\ worker = "made" /\ worker' = "done" /\ mode' = mode /\ table' = tx.next /\ group' = NoGroup /\ publish
    BY DEF after_made, publish, Ends
  <1>2. LayerType /\ ObjectsOK /\ TreeOK /\ TxShape
    BY <1>1 DEF LayerInv, LayerOK
  <1>3. ~AttachedTx' /\ worker' \in Serving
    BY <1>1, NotAttachedThen DEF Serving
  <1>4. mode' # "damaged" /\ tx.kind \in {"Install"} \cup Changing
    BY <1>1 DEF LayerInv, StoreInv, HandBase, ModeOK, WorkerOK, Ending
  <1>5. TableOK(tx.next)
    BY <1>1 DEF LayerInv, StoreInv, DiskOK, MadeOK, State
  <1>6. AttachedTx <=> tx.kind \in {"Install", "Settings"}
    BY <1>1 DEF AttachedTx, AttachFirst
  <1>7. ASSUME tx.kind # "Settings"
        PROVE /\ objects' = [i \in LayerPlaces |-> IF i \in tx.detach THEN 0 ELSE objects[i]]
              /\ layers' = [i \in LayerPlaces |-> IF i \in tx.detach THEN 0 ELSE layers[i]]
    BY <1>1, <1>7 DEF publish
  <1>8. ASSUME tx.kind # "Revoked"
        PROVE /\ entries' = (entries \ tx.detach) \cup (tx.attach \cap Places) /\ listed' = listed
              /\ out' = IF tx.kind = "Settings" THEN out \ {SETTINGS_SLOT} ELSE out \ tx.detach
    <2>1. listed \in BOOLEAN
      BY <1>2 DEF LayerType
    <2> QED
      BY <1>1, <1>8, <2>1 DEF publish
  <1>9. LayerType' /\ ObjectsOK' /\ TreeOK'
    <2>1. CASE tx.kind \in {"Install", "Remove"}
      <3>1. SwapShape
        BY <1>2, <2>1 DEF TxShape
      <3> QED
        BY <1>1, <1>2, <1>3, <1>5, <1>6, <1>7, <1>8, <2>1, <3>1, SwapPublished
    <2>2. CASE tx.kind = "Settings"
      <3>1. SettingsShape
        BY <1>2, <2>2 DEF TxShape
      <3>2. /\ objects' = [objects EXCEPT ![SETTINGS_SLOT] = objects[SETTINGS_NEW], ![SETTINGS_NEW] = 0]
            /\ layers' = [layers EXCEPT ![SETTINGS_SLOT] = layers[SETTINGS_NEW], ![SETTINGS_NEW] = 0]
        BY <1>1, <2>2 DEF publish
      <3> QED
        BY <1>1, <1>2, <1>3, <1>6, <1>8, <2>2, <3>1, <3>2, SettingsPublished
    <2>3. CASE tx.kind = "Serial"
      <3>1. SerialShape
        BY <1>2, <2>3 DEF TxShape
      <3> QED
        BY <1>1, <1>2, <1>3, <1>6, <1>7, <1>8, <2>3, <3>1, SerialPublished
    <2>4. CASE tx.kind = "Revoked"
      <3>1. RevokedShape
        BY <1>2, <2>4 DEF TxShape
      <3>2. entries' = entries \cup (tx.attach \cap Places) /\ out' = out \cup tx.detach /\ listed' = TRUE
        BY <1>1, <2>4 DEF publish
      <3> QED
        BY <1>1, <1>2, <1>3, <1>6, <1>7, <2>4, <3>1, <3>2, RevokedPublished
    <2> QED
      BY <1>4, <2>1, <2>2, <2>3, <2>4 DEF Changing
  <1>10. GroupObjects'
    BY <1>1, NoGroupLayers
  <1> QED
    BY <1>3, <1>4, <1>9, <1>10, ServingLayers

-----------------------------------------------------------------------------
(* The invariant of the layers.                                            *)

LEMMA LayerStep ==
  ASSUME LayerInv, [Next]_vars
  PROVE LayerOK'
  <1>1. CASE UNCHANGED vars
    BY <1>1, LayersStay DEF vars
  <1>2. CASE Main
    BY <1>2, LayersStay DEF Main
  <1>3. CASE Crash
    BY <1>3, CrashLayers
  <1>4. CASE Worker
    BY <1>4, WorkerSteps, OpenLayers, FormatLayers, TransactLayers, IdleLayers, PumpLayers, RefusalLayers,
       BeginLayers, StageLayers, CommitLayers, RemoveLayers, SerialLayers, SettingsLayers, RevokedLayers,
       RefusedEndLayers, MadeEndLayers DEF Change
  <1> QED
    BY <1>1, <1>2, <1>3, <1>4 DEF Next

\* The tree, the objects and the table agree in every state, and what a
\* transaction attaches and detaches is what its table changes.
THEOREM LayersInvariance == Spec => []LayerInv
  <1>1. Init => LayerInv
    BY InitHand, InitDisk, InitLayers DEF LayerInv, StoreInv
  <1>2. LayerInv /\ [Next]_vars => LayerInv'
    <2> SUFFICES ASSUME LayerInv, [Next]_vars PROVE LayerInv'
      OBVIOUS
    <2>1. HandBase'
      BY HandStep DEF LayerInv, StoreInv
    <2>2. DiskOK' /\ GroupOK'
      BY DiskStep, DiskStutter DEF LayerInv
    <2>3. LayerOK'
      BY LayerStep
    <2> QED
      BY <2>1, <2>2, <2>3 DEF LayerInv, StoreInv
  <1> QED
    BY <1>1, <1>2, PTL DEF Spec

\* Between jobs LAYER_OF has the layers of the accepted state, and of no package
\* whose key the list revokes, when the list was read: commit.rs moves the layers
\* before or after the superblock, undoes them when the transaction fails, and a
\* start attaches them anew. The layers a detach gave up are in the tree besides.
THEOREM LayersShown == Spec => []LayersMatch
  <1>1. LayerInv => LayersMatch
    <2> SUFFICES ASSUME LayerInv, worker = "serve" PROVE LayersMatch
      BY DEF LayersMatch
    <2>1. ObjectsOK /\ TreeOK /\ ~AttachedTx
      BY ServeNow DEF Serving
    <2> QED
      BY <2>1 DEF ObjectsOK, TreeOK, Shown, LayersMatch
  <1> QED
    BY <1>1, LayersInvariance, PTL
=============================================================================
