------------------------------ MODULE PkgStore ------------------------------
(***************************************************************************)
(* The store of the package service (services/pkgd): two copies of the     *)
(* superblock, a table of records written whole into a free extent, and    *)
(* the data the records name.  The worker thread starts the store, formats *)
(* it, and makes its transactions; a write reaches the medium at a flush,  *)
(* and a crash of the machine keeps any part of what was not flushed.      *)
(* Extents are of one size, the table's and the packages' alike; the       *)
(* SHA-256 of a file or of a table is the content itself.                  *)
(***************************************************************************)
EXTENDS Integers, Sequences, SequencesExt, FiniteSets, FiniteSetsExt

CONSTANTS
    Names,          \* names of packages
    PACKAGES,       \* places of packages in the table
    LastExtent,     \* the last extent of the disk
    MaxGen,         \* bound: generations
    MaxMade,        \* bound: contents written as data
    MaxCrash,       \* bound: crashes of the machine
    MaxFail,        \* bound: device calls that fail
    MaxStuck        \* bound: layers the file service does not let go

ASSUME StoreAssumption ==
    /\ PACKAGES \in Nat \ {0}
    /\ LastExtent \in Nat \ {0, 1, 2}
    /\ "" \notin Names

VARIABLES
    medium,     \* the blocks as a crash finds them
    pend,       \* the writes of each block since the last flush, in order
    table,      \* TABLE: the accepted state
    opened,     \* OPENED: its copy of the superblock and its extent
    objects,    \* OBJECTS: the object of each place, by its content; 0 for none
    layers,     \* LAYER_OF: the content attached for a place
    stuck,      \* contents in the tree that LAYER_OF forgot: a detach gave up
    listed,     \* Worker::revoked: the list of revocations was read
    entries,    \* DISK_ENTRIES: the packages the worker knows
    out,        \* packages of the table left without their layer (ghost)
    worker,     \* where the worker stands
    tx,         \* the transaction under way
    mode,       \* STARTING, DAMAGED, NO_STORE of the service
    made,       \* contents written as data so far
    fails, crashes,
    held, flight,   \* what a client was told of, and what is under way (ghosts)
    sure            \* the worker knows what the disk holds; "no" once it goes on
                    \* after a superblock whose write failed, "lost" once a
                    \* start may have found what it did not know of (ghost)

diskVars == <<medium, pend>>
stateVars == <<table, opened>>
layerVars == <<objects, layers, stuck, listed, entries, out>>
boundVars == <<made, fails, crashes>>
ghostVars == <<held, flight, sure>>

SUPERS == 2
Extents == SUPERS..LastExtent
Blocks == 0..LastExtent
SETTINGS_SLOT == PACKAGES
REVOKED_SLOT == PACKAGES + 1
SETTINGS_NEW == PACKAGES + 2
Places == 0..(PACKAGES - 1)
Records == 0..REVOKED_SLOT
LayerPlaces == Places \cup {SETTINGS_SLOT, SETTINGS_NEW}

Zero == [kind |-> "zero"]
Torn == [kind |-> "torn"]
Data(n) == [kind |-> "data", id |-> n]
Super(at, t) == [kind |-> "super", at |-> at, sha |-> t]

EMPTY == [name |-> "", ext |-> 0, data |-> 0, revoked |-> FALSE]
NoTable == [kind |-> "table", gen |-> 0, recs |-> [i \in Records |-> EMPTY],
            serial |-> 0, barred |-> {}]

-----------------------------------------------------------------------------
\* The extents a table and its state hold, and the first that is free.
Occupied(t, at) == {at} \cup {t.recs[i].ext : i \in {j \in Records : t.recs[j] # EMPTY}}
find_free(taken) == LET free == Extents \ taken IN IF free = {} THEN 0 ELSE Min(free)

\* Mutant: the next table is clear of the next state alone.
freeOfNextOnly(next) == find_free(Occupied(next, opened.at))

\* Where the next table goes: clear of the accepted state and of the next one.
free_table_extent(next) ==
    find_free(Occupied(table, opened.at) \cup Occupied(next, opened.at))
extent_for(taken) == find_free(Occupied(table, opened.at) \cup taken)

Find(t, n) == {i \in Places : t.recs[i].name = n}
\* The list of revocations names the key of the package.
Barred(t, i) == t.recs[i].name \in t.barred
Taken(t) == {i \in Places : t.recs[i] # EMPTY}

-----------------------------------------------------------------------------
\* The device: a write waits for a flush; a crash keeps each block as it was or
\* as one of the writes left it. A superblock may be torn, which its own SHA-256
\* refuses; a torn extent reads as an old one does, not as its record says.
NoPend == [b \in Blocks |-> <<>>]
Written(b, c) == [pend EXCEPT ![b] = Append(@, c)]
Flushed == [b \in Blocks |-> IF pend[b] = <<>> THEN medium[b] ELSE Last(pend[b])]

Alive == mode # "nostore"
Write(b, c) == Alive /\ pend' = Written(b, c) /\ UNCHANGED <<medium, fails, mode>>
Flush == Alive /\ medium' = Flushed /\ pend' = NoPend /\ UNCHANGED <<fails, mode>>

\* A device call that fails. The disk service answered with an error, or did
\* not answer in time and counts as dead for good (DISK_WAIT_NS): then no
\* request goes to it. Of a failed write any part may reach the medium; a
\* failed flush may lose what it was to write.
Fails(left) ==
    /\ \/ mode = "nostore" /\ UNCHANGED <<pend, fails, mode>>
       \/ /\ mode # "nostore" /\ fails < MaxFail
          /\ fails' = fails + 1
          /\ pend' \in left
          /\ mode' \in {"nostore", mode}
    /\ UNCHANGED medium
WriteFails(b, c) == Fails({pend, Written(b, c)})
FlushFails == Fails({pend, NoPend})

After(b) == {medium[b]} \cup ToSet(pend[b]) \cup IF b < SUPERS THEN {Torn} ELSE {}
Dirty == {b \in Blocks : pend[b] # <<>>}
Kept ==
    {[b \in Blocks |-> IF b \in Dirty THEN f[b] ELSE medium[b]] :
        f \in {g \in [Dirty -> UNION {After(b) : b \in Dirty}] :
                 \A b \in Dirty : g[b] \in After(b)}}

-----------------------------------------------------------------------------
\* What a state says of the disk: for every record its content. A promise is
\* the table's word, what is read is the medium's.
Promise(t) ==
    [gen |-> t.gen, data |-> [i \in Records |-> t.recs[i].data],
     serial |-> t.serial, barred |-> t.barred]
Whole(r) == r = EMPTY \/ medium[r.ext] = Data(r.data)
ReadBack(t) ==
    [Promise(t) EXCEPT !.data =
        [i \in Records |-> IF Whole(t.recs[i]) THEN t.recs[i].data ELSE -1]]
BlankState == Promise(NoTable)
LostState == [BlankState EXCEPT !.gen = -1]

-----------------------------------------------------------------------------
\* The start: the good copies by generation, highest first, and the first
\* whose table is whole. A block of `bad` cannot be read: its copy is no good.
Good(c, bad) == c \notin bad /\ medium[c].kind = "super"
Loads(c, bad) ==
    Good(c, bad) /\ medium[c].at \notin bad /\ medium[medium[c].at] = medium[c].sha
Order(bad) ==
    IF Good(0, bad) /\ Good(1, bad) /\ medium[1].sha.gen > medium[0].sha.gen
    THEN <<1, 0>> ELSE <<0, 1>>
Chosen(bad) == {c \in {0, 1} : Loads(c, bad) /\ (Loads(1 - c, bad) => c = Order(bad)[1])}
BlankDisk(bad) == medium[0] = Zero /\ medium[1] = Zero /\ bad \cap {0, 1} = {}

\* A package the start takes: read and whole, and neither its flag nor the
\* list, when it is read, says that its key is revoked. The layers of the start
\* are theirs and that of the settings, as far as the file service takes them.
Reads(r, bad) == r # EMPTY /\ r.ext \notin bad /\ Whole(r)
ListRead(t, bad) == Reads(t.recs[REVOKED_SLOT], bad)
Takes(t, i, bad) ==
    /\ Reads(t.recs[i], bad)
    /\ i \in Places => IF ListRead(t, bad) THEN ~Barred(t, i) ELSE ~t.recs[i].revoked
Fixed == Places \cup {SETTINGS_SLOT}

NoTx == [kind |-> "none", next |-> NoTable, detach |-> {}, attach |-> {}, at |-> 0]

\* The state of copy `c`, with the layers of `shown`.
Opens(c, bad, shown) ==
    LET t == medium[c].sha
    IN /\ opened' = [copy |-> c, at |-> medium[c].at]
       /\ table' = t
       /\ layers' = [i \in LayerPlaces |-> IF i \in shown THEN t.recs[i].data ELSE 0]
       /\ objects' = layers'
       /\ listed' = ListRead(t, bad)
       /\ entries' = shown \cap Places
       /\ out' = {i \in Fixed : t.recs[i] # EMPTY} \ shown
       /\ held' = ReadBack(t) /\ flight' = {}
       /\ sure' = IF c \in Chosen({}) THEN sure ELSE "lost"
       /\ worker' = "serve" /\ UNCHANGED stuck

\* The reads of the blocks of `bad` fail; `died` says that a read was not
\* answered in time, and no later one is: before a copy is found good, or while
\* the packages are read. With no good copy a start that read every block knows
\* that the store is damaged; one that could not says so too, and leaves the disk
\* as it is.
open ==
    /\ worker = "off"
    /\ \E bad \in SUBSET Blocks, refused \in SUBSET Fixed, died \in BOOLEAN :
        /\ fails' = fails + Cardinality(bad) + Cardinality(refused) + (IF died THEN 1 ELSE 0)
        /\ fails' = fails \/ fails' <= MaxFail
        /\ \/ /\ mode' = IF died THEN "nostore" ELSE "ok"
              /\ \E c \in Chosen(bad) :
                   Opens(c, bad, {i \in Fixed : Takes(medium[c].sha, i, bad)} \ refused)
           \/ /\ BlankDisk(bad) /\ ~died
              /\ worker' = "format" /\ mode' = "starting"
              /\ held' = BlankState /\ flight' = {}
              /\ UNCHANGED <<stateVars, layerVars, sure>>
           \/ /\ (Chosen(bad) = {} /\ ~BlankDisk(bad)) \/ died
              /\ worker' = "serve" /\ mode' = "damaged"
              /\ IF bad = {} /\ ~died THEN held' = LostState /\ flight' = {}
                 ELSE UNCHANGED <<held, flight>>
              /\ UNCHANGED <<stateVars, layerVars, sure>>
    /\ UNCHANGED <<diskVars, tx, made, crashes>>

\* A new store: the table of generation 1 and a flush, the superblock of
\* copy 0 and a flush. A call that fails ends the start.
First == [NoTable EXCEPT !.gen = 1]
FormatStep(at, to, step) ==
    /\ worker = at
    /\ step /\ worker' = to
    /\ UNCHANGED <<stateVars, layerVars, tx, made, crashes>>
FormatFails(at, step) ==
    /\ worker = at
    /\ step /\ mode' = "nostore" /\ worker' = "stopped"
    /\ UNCHANGED <<stateVars, layerVars, tx, made, crashes, ghostVars>>

format ==
    \/ /\ FormatStep("format", "format_flush", Write(SUPERS, First))
       /\ flight' = {Promise(First)} /\ UNCHANGED <<held, sure>>
    \/ FormatStep("format_flush", "format_super", Flush) /\ UNCHANGED ghostVars
    \/ /\ FormatStep("format_super", "format_last", Write(0, Super(SUPERS, First)))
       /\ UNCHANGED ghostVars
    \/ FormatFails("format", WriteFails(SUPERS, First))
    \/ FormatFails("format_flush", FlushFails)
    \/ FormatFails("format_super", WriteFails(0, Super(SUPERS, First)))
    \/ FormatFails("format_last", FlushFails)

format_done ==
    /\ worker = "format_last"
    /\ medium' = Flushed /\ pend' = NoPend
    /\ table' = First /\ opened' = [copy |-> 0, at |-> SUPERS]
    /\ held' = Promise(First) /\ flight' = {}
    /\ worker' = "serve" /\ mode' = "ok"
    /\ UNCHANGED <<layerVars, tx, boundVars, sure>>
-----------------------------------------------------------------------------
\* A transaction: F1, the table into a free extent and F2, the layers and the
\* superblock in the order of the kind, F3.
AttachFirst == tx.kind \in {"Install", "Settings"}
StepTx(at, to) == worker = at /\ worker' = to
Refuse == flight' = flight \ {Promise(tx.next)} /\ UNCHANGED <<held, sure>>

DataFlushed ==
    /\ StepTx("f1", "table") /\ Flush
    /\ UNCHANGED <<stateVars, layerVars, tx, made, crashes, ghostVars>>

\* A device call before the superblock fails: the state is the old one.
EarlyIo ==
    /\ \/ worker \in {"f1", "f2"} /\ FlushFails
       \/ /\ worker = "table" /\ free_table_extent(tx.next) # 0
          /\ WriteFails(free_table_extent(tx.next), tx.next)
    /\ worker' = "refused" /\ Refuse
    /\ UNCHANGED <<stateVars, layerVars, tx, made, crashes>>

NoSpace ==
    /\ StepTx("table", "refused")
    /\ free_table_extent(tx.next) = 0
    /\ Refuse
    /\ UNCHANGED <<diskVars, stateVars, layerVars, tx, mode, boundVars>>

write_table ==
    /\ StepTx("table", "f2")
    /\ free_table_extent(tx.next) # 0
    /\ Write(free_table_extent(tx.next), tx.next)
    /\ tx' = [tx EXCEPT !.at = free_table_extent(tx.next)]
    /\ UNCHANGED <<stateVars, layerVars, made, crashes, ghostVars>>

TableFlushed ==
    /\ StepTx("f2", IF AttachFirst THEN "attach" ELSE "super") /\ Flush
    /\ UNCHANGED <<stateVars, layerVars, tx, made, crashes, ghostVars>>

\* detach of what shows the contents `gone`: the file service may be busy with
\* another layer for too long or refuse, and the layer stays in the tree.
Detached(gone) ==
    \E left \in SUBSET (gone \ {0}) :
        Cardinality(stuck \cup left) <= MaxStuck /\ stuck' = stuck \cup left
In(f, S) == {f[i] : i \in S}

attach ==
    /\ StepTx("attach", "super")
    /\ layers' = [i \in LayerPlaces |->
                    IF i \in tx.attach THEN objects[i]
                    ELSE IF i \in tx.detach THEN 0 ELSE layers[i]]
    /\ Detached(In(layers, tx.detach))
    /\ UNCHANGED <<diskVars, stateVars, objects, listed, entries, out, tx, mode, boundVars, ghostVars>>

\* Mutant: what was attached goes, and what was detached stays out.
undoHalf(gone) ==
    /\ layers' = [i \in LayerPlaces |-> IF i \in tx.attach \cup tx.detach THEN 0 ELSE layers[i]]
    /\ Detached(gone)
    /\ UNCHANGED out

\* The layers as they were: those attached go (`gone` are the contents detached
\* on the way), those detached come back as far as they have an object and the
\* file service takes them.
undo(gone) ==
    LET back == {i \in tx.detach : objects[i] # 0}
    IN \E lost \in SUBSET back :
         /\ layers' = [i \in LayerPlaces |->
                         IF i \in tx.attach \cup lost THEN 0
                         ELSE IF i \in back THEN objects[i] ELSE layers[i]]
         /\ out' = (out \ back) \cup lost
         /\ Detached(gone)

\* The file service refuses one of the new layers.
AttachRefused ==
    /\ StepTx("attach", "refused")
    /\ \E n \in tx.attach : undo(In(layers, tx.detach) \cup In(objects, tx.attach \ {n}))
    /\ Refuse
    /\ UNCHANGED <<diskVars, stateVars, objects, listed, entries, tx, mode, boundVars>>

Copy == 1 - opened.copy
NextSuper == Super(tx.at, tx.next)

write_super ==
    /\ StepTx("super", "f3")
    /\ Write(Copy, NextSuper)
    /\ UNCHANGED <<stateVars, layerVars, tx, made, crashes, ghostVars>>

\* The superblock or its flush fails: whether it is on the medium is unknown.
LastIo ==
    /\ \/ worker = "super" /\ WriteFails(Copy, NextSuper)
       \/ worker = "f3" /\ FlushFails
    /\ worker' = "refused"
    /\ IF AttachFirst THEN undo(In(layers, tx.attach)) ELSE UNCHANGED <<layers, stuck, out>>
    /\ UNCHANGED <<stateVars, objects, listed, entries, tx, made, crashes, ghostVars>>

Committed ==
    /\ StepTx("f3", "made") /\ Flush
    /\ held' = Promise(tx.next) /\ flight' = {}
    /\ sure' = IF sure = "lost" THEN "lost" ELSE "yes"
    /\ UNCHANGED <<stateVars, layerVars, tx, made, crashes>>

\* After the transaction: the layers of what went, and publish with what each
\* kind applies inside it.
publish ==
    /\ worker = "made"
    /\ table' = tx.next
    /\ opened' = [copy |-> Copy, at |-> tx.at]
    /\ LET moved(f) == IF tx.kind = "Settings"
                       THEN [f EXCEPT ![SETTINGS_SLOT] = f[SETTINGS_NEW], ![SETTINGS_NEW] = 0]
                       ELSE [i \in LayerPlaces |-> IF i \in tx.detach THEN 0 ELSE f[i]]
       IN layers' = moved(layers) /\ objects' = moved(objects)
    /\ entries' = (IF tx.kind = "Revoked" THEN entries ELSE entries \ tx.detach)
                    \cup (tx.attach \cap Places)
    /\ IF AttachFirst THEN UNCHANGED stuck ELSE Detached(In(layers, tx.detach))
    /\ listed' = (listed \/ tx.kind = "Revoked")
    /\ out' = CASE tx.kind = "Revoked" -> out \cup tx.detach
                [] tx.kind = "Settings" -> out \ {SETTINGS_SLOT}
                [] OTHER -> out \ tx.detach
    /\ tx' = NoTx
    /\ UNCHANGED <<diskVars, mode, boundVars, ghostVars>>

transact ==
    \/ DataFlushed \/ EarlyIo \/ NoSpace \/ write_table \/ TableFlushed
    \/ attach \/ AttachRefused \/ write_super \/ LastIo \/ Committed

-----------------------------------------------------------------------------
\* The tables of the transactions.
next_of(t) == [t EXCEPT !.gen = @ + 1]

NewTx(kind, next, go, come) ==
    tx' = [kind |-> kind, next |-> next, detach |-> go, attach |-> come, at |-> 0]

\* The packages of a group in, a package of the same name out.
GroupTable(staged) ==
    LET names == {staged[k].rec.name : k \in DOMAIN staged}
        kept == [i \in Records |->
                   IF i \in Places /\ table.recs[i].name \in names THEN EMPTY ELSE table.recs[i]]
    IN [next_of(table) EXCEPT !.recs =
          [i \in Records |->
             IF \E k \in DOMAIN staged : staged[k].place = i
             THEN (CHOOSE s \in ToSet(staged) : s.place = i).rec ELSE kept[i]]]

RemoveTable(places) ==
    [next_of(table) EXCEPT !.recs =
        [i \in Records |-> IF i \in places THEN EMPTY ELSE table.recs[i]]]

Blob(name, ext, data) == [EMPTY EXCEPT !.name = name, !.ext = ext, !.data = data]
SettingsTable(ext, data) ==
    [next_of(table) EXCEPT !.recs[SETTINGS_SLOT] = Blob("settings", ext, data)]
SerialTable(serial) == [next_of(table) EXCEPT !.serial = serial]

\* The flag is set on the packages the worker knows and the list names, and
\* cleared on every other.
RevokedTable(ext, data, names) ==
    [next_of(table) EXCEPT !.barred = names,
        !.recs = [i \in Records |->
            IF i = REVOKED_SLOT THEN Blob("revoked", ext, data)
            ELSE IF i \in Taken(table)
                 THEN [table.recs[i] EXCEPT !.revoked = i \in entries /\ table.recs[i].name \in names]
                 ELSE table.recs[i]]]
=============================================================================
