------------------------------ MODULE Channel ------------------------------
(***************************************************************************)
(* A channel of the kernel with one session: requests, replies and their   *)
(* tokens, notifications, handles that travel in messages, the references  *)
(* that keep the channel and the session, the close of the channel, and    *)
(* the end of threads and of processes                                     *)
(* (kernel/src/channel/, kernel/src/session.rs, kcore/src/notify.rs,       *)
(* kcore/src/token.rs).                                                    *)
(*                                                                         *)
(* Every call and every portion of cleanup is one section under OBJ, so    *)
(* each is one step here.  What a step lets go may close the channel, post *)
(* CLIENT_GONE and end a wait: the operators that take and give a record   *)
(* `x`, the state of the object graph, compose in the order of the code.   *)
(*                                                                         *)
(* The levels of threads are fixed: the boost of a receiver and            *)
(* thread_set_priority are not modelled.  A portion of cleanup takes one   *)
(* head or one handle (CLOSE_PORTION, REPLIES_PORTION = 1), and a message  *)
(* carries one handle at most (MESSAGE_HANDLES = 1).                       *)
(***************************************************************************)
EXTENDS Integers, Sequences, FiniteSets, SequencesExt

CONSTANTS
    Threads, Procs,
    Of,          \* the process of a thread
    Level,       \* the level of a thread, and of the two slots
    Handles,     \* the handles that can exist: all name the channel
    Labelled,    \* those that name its session
    Receiving,   \* those with RECEIVE; the others have SEND and NOTIFY
    Transfer,    \* those with TRANSFER, which a message may carry
    Held,        \* the handles of each process at first
    N,           \* numbers of the table of thread numbers
    MAX_COUNT,   \* the last count of a number
    Mortal,      \* the processes that may end (a bound)
    Leaving,     \* the threads that may call thread_exit (a bound)
    Upcalled     \* the threads an upcall may be asked for (a bound)

Slots == {"label0", "session"}
None == "none"       \* no thread
NoNumber == -1       \* no thread number
NoToken == <<>>

ASSUME ChannelAssumption ==
    /\ Of \in [Threads -> Procs]
    /\ Level \in [Threads \cup Slots -> Nat]
    /\ Labelled \subseteq Handles /\ Receiving \subseteq Handles
    /\ Transfer \subseteq Handles
    /\ Held \in [Procs -> SUBSET (Handles \ Labelled)]
    /\ \E p \in Procs : Held[p] \cap Receiving # {}
    /\ \A p, q \in Procs : p # q => Held[p] \cap Held[q] = {}
    /\ IsFiniteSet(Threads) /\ IsFiniteSet(Procs) /\ IsFiniteSet(Handles)
    /\ N \in Nat /\ MAX_COUNT \in Nat
    /\ Threads \cap (Slots \cup {None, "dead"}) = {}

VARIABLES
    k,        \* the channel, its session, the waits and the handles
    table,    \* the table of thread numbers
    life,     \* "none", "live" or "ended", of a thread
    index,    \* the number of a thread, or NoNumber
    stage,    \* the stage of a process: Whole, Threads, Replies, ...
    pending,  \* the threads an upcall was asked for and not entered yet
    given,    \* every token given out
    request   \* the token of the accepted request a thread waits for

vars == <<k, table, life, index, stage, pending, given, request>>

Vias == {"channel", "session"}
Tokens == (0 .. N - 1) \X (1 .. MAX_COUNT)

NoWait == <<>>
InReceive == <<"receive">>
InSend(via) == <<"send", via>>
ForReply(p) == <<"reply", p>>
Waits == {NoWait, InReceive} \cup {InSend(v) : v \in Vias}
                             \cup {ForReply(p) : p \in Procs}

TypeOK ==
    /\ k.queue \in Seq(Threads \cup Slots) /\ Len(k.queue) <= Cardinality(Threads) + 2
    /\ k.waiting \in BOOLEAN /\ k.closed \in BOOLEAN /\ k.told \in BOOLEAN
    /\ {k.receivers, k.refs, k.sources, k.copies, k.srefs} \subseteq Nat
    /\ k.cleanup \in {"none", "close", "shell", "freed"}
    /\ k.session \in {"none", "live", "shell"}
    /\ k.bits \in [Slots -> SUBSET {"bit", "gone"}]
    /\ k.waits \in [Threads -> Waits]
    /\ k.transit \in [Threads -> SUBSET Handles]
    /\ k.handles \in [Procs -> SUBSET Handles]
    /\ k.accepted \in [Procs -> SUBSET Threads]
    /\ table.count \in [0 .. N - 1 -> 0 .. MAX_COUNT]
    /\ table.dead \subseteq 0 .. N - 1
    /\ table.holder \in [0 .. N - 1 -> Threads \cup {None}]
    /\ table.used \in 0 .. N
    /\ table.free \in Seq(0 .. N - 1)
    /\ life \in [Threads -> {"none", "live", "ended"}]
    /\ index \in [Threads -> -1 .. N - 1]
    /\ stage \in [Procs -> {"whole", "threads", "replies", "handles", "gone"}]
    /\ pending \subseteq Threads
    /\ given \subseteq Tokens
    /\ request \in [Threads -> Tokens \cup {NoToken}]

\* channel_create and the copies of its handle, before any thread calls.
First == UNION {Held[p] : p \in Procs}
Init ==
    /\ k = [queue |-> <<>>, waiting |-> FALSE, closed |-> FALSE,
            receivers |-> Cardinality(First \cap Receiving),
            refs |-> Cardinality(First), sources |-> 1, cleanup |-> "none",
            copies |-> 0, srefs |-> 0, session |-> "none", told |-> FALSE,
            bits |-> [s \in Slots |-> {}], waits |-> [t \in Threads |-> NoWait],
            transit |-> [t \in Threads |-> {}], handles |-> Held,
            accepted |-> [p \in Procs |-> {}]]
    /\ table = [count |-> [n \in 0 .. N - 1 |-> 0], dead |-> {},
                holder |-> [n \in 0 .. N - 1 |-> None], used |-> 0, free |-> <<>>]
    /\ life = [t \in Threads |-> "none"]
    /\ index = [t \in Threads |-> NoNumber]
    /\ stage = [p \in Procs |-> "whole"]
    /\ pending = {}
    /\ given = {}
    /\ request = [t \in Threads |-> NoToken]

----------------------------------------------------------------------------
(* The queue of a channel: by level, in the order of arrival at a level.   *)

PushTail(q, i) ==
    LET ahead == {j \in DOMAIN q : Level[q[j]] >= Level[i]}
    IN  InsertAt(q, Cardinality(ahead) + 1, i)

IsQueued(x, i) == \E j \in DOMAIN x.queue : x.queue[j] = i

HasReceivers(x) == x.waiting /\ x.queue # <<>>

\* A slot or a request goes to the tail of its level.
Enqueue(x, i) == [x EXCEPT !.queue = PushTail(@, i), !.waiting = FALSE]
\* A receiver does.
WaitIn(x, t) == [x EXCEPT !.queue = PushTail(@, t), !.waiting = TRUE]
\* The head of the top level leaves.
TakeHead(x) == [x EXCEPT !.queue = Tail(@)]
\* A thread leaves wherever it stands.
CancelIn(x, t) == [x EXCEPT !.queue = RemoveAt(@, CHOOSE j \in DOMAIN @ : @[j] = t)]

----------------------------------------------------------------------------
(* References.  The last one queues the shell; the last handle with        *)
(* RECEIVE closes the channel, and the last copy of the session posts      *)
(* CLIENT_GONE.                                                            *)

ReleaseRef(x) ==
    [x EXCEPT !.refs = @ - 1, !.cleanup = IF x.refs = 1 THEN "shell" ELSE @]

\* MUTANT of Close: the stage Close is not begun.
CloseQuietly(x) == [x EXCEPT !.closed = TRUE]

Close(x) ==
    IF x.queue = <<>>
    THEN [x EXCEPT !.closed = TRUE]
    ELSE [x EXCEPT !.closed = TRUE, !.refs = @ + 1, !.cleanup = "close"]

RetainChannel(x, rights) ==
    [x EXCEPT !.refs = @ + 1, !.receivers = IF "RECEIVE" \in rights THEN @ + 1 ELSE @]

ReleaseChannel(x, rights) ==
    LET less == [x EXCEPT !.receivers = @ - 1]
    IN  ReleaseRef(IF "RECEIVE" \notin rights THEN x
                   ELSE IF x.receivers = 1 THEN Close(less) ELSE less)

UnrefSession(x) ==
    [x EXCEPT !.srefs = @ - 1, !.session = IF x.srefs = 1 THEN "shell" ELSE @]

\* A slot holds its owner while it stands in the queue.
OwnerHold(x, s) == IF s = "session" THEN [x EXCEPT !.srefs = @ + 1] ELSE x
OwnerLetGo(x, s) == IF s = "session" THEN UnrefSession(x) ELSE x

\* What a receiver gets from slot `s`, which is empty again.
Notice(x, s) ==
    [x EXCEPT !.told = @ \/ (s = "session" /\ "gone" \in x.bits[s]),
              !.bits[s] = {}]

\* A post: merged, handed to the top receiver that waits, or queued.
Post(x, s, bit) ==
    LET posted == [x EXCEPT !.bits[s] = @ \cup {bit}]
    IN  CASE x.closed -> x
          [] ~x.closed /\ IsQueued(x, s) -> posted
          [] ~x.closed /\ ~IsQueued(x, s) /\ HasReceivers(x) ->
                 ReleaseRef([Notice(TakeHead(posted), s)
                                EXCEPT !.waits[Head(x.queue)] = NoWait])
          [] ~x.closed /\ ~IsQueued(x, s) /\ ~HasReceivers(x) ->
                 OwnerHold(Enqueue(posted, s), s)

RetainSession(x, rights) ==
    LET one == [x EXCEPT !.srefs = @ + 1, !.copies = @ + 1]
    IN  IF "RECEIVE" \in rights THEN RetainChannel(one, rights) ELSE one

\* MUTANT of ReleaseSession: CLIENT_GONE with one copy left.
ReleaseSessionEarly(x, rights) ==
    LET left == IF "RECEIVE" \in rights THEN ReleaseChannel(x, rights) ELSE x
        less == [left EXCEPT !.copies = @ - 1]
    IN  UnrefSession(IF less.copies <= 1 THEN Post(less, "session", "gone") ELSE less)

ReleaseSession(x, rights) ==
    LET left == IF "RECEIVE" \in rights THEN ReleaseChannel(x, rights) ELSE x
        less == [left EXCEPT !.copies = @ - 1]
    IN  UnrefSession(IF less.copies = 0 THEN Post(less, "session", "gone") ELSE less)

Rights(h) == IF h \in Receiving THEN {"RECEIVE"} ELSE {"SEND", "NOTIFY"}

Retain(x, h) ==
    IF h \in Labelled THEN RetainSession(x, Rights(h)) ELSE RetainChannel(x, Rights(h))
Release(x, h) ==
    IF h \in Labelled THEN ReleaseSession(x, Rights(h)) ELSE ReleaseChannel(x, Rights(h))

\* The handle of a message, if it has one, goes as a closed handle does.
ReleaseMoving(x, moving) ==
    IF moving = {} THEN x ELSE Release(x, CHOOSE h \in moving : TRUE)
DropTransit(x, t) ==
    ReleaseMoving([x EXCEPT !.transit[t] = {}], x.transit[t])
\* The handles of a message of a thread of `p` that go at once.
DropHandles(x, p, moving) ==
    ReleaseMoving([x EXCEPT !.handles[p] = @ \ moving], moving)

\* A request that waits in the queue holds what it went through.
Hold(x, via) ==
    IF via = "session" THEN RetainSession(x, {}) ELSE RetainChannel(x, {})
LetGo(x, via) ==
    IF via = "session" THEN ReleaseSession(x, {}) ELSE ReleaseChannel(x, {})

----------------------------------------------------------------------------
(* The table of thread numbers.                                            *)

\* MUTANT of Alloc: the next thread on a number counts from 0 again.
AllocAfresh(t) ==
    LET new == table.used < N
        n   == IF new THEN table.used ELSE Head(table.free)
    IN  /\ new \/ table.free # <<>>
        /\ table' = [table EXCEPT !.used = IF new THEN @ + 1 ELSE @,
                                  !.free = IF new THEN @ ELSE Tail(@),
                                  !.count[n] = 0, !.holder[n] = t, !.dead = @ \ {n}]
        /\ index' = [index EXCEPT ![t] = n]

Alloc(t) ==
    LET new == table.used < N
        n   == IF new THEN table.used ELSE Head(table.free)
    IN  /\ new \/ table.free # <<>>
        /\ table' = [table EXCEPT !.used = IF new THEN @ + 1 ELSE @,
                                  !.free = IF new THEN @ ELSE Tail(@),
                                  !.holder[n] = t, !.dead = @ \ {n}]
        /\ index' = [index EXCEPT ![t] = n]

\* The table once the number comes back, retired at the last count.
FreeNumber(tb, n) ==
    [tb EXCEPT !.holder[n] = None,
               !.free = IF tb.count[n] = MAX_COUNT THEN @ ELSE Append(@, n)]

CountLeft(t) == table.count[index[t]] # MAX_COUNT

\* A token names the last request accepted from the thread on its number.
Token(tb, n) == <<n, tb.count[n]>>
\* The count has the width of its field: past MAX_COUNT it would be 0 again.
AcceptNumber(tb, n) ==
    [tb EXCEPT !.count[n] = (@ + 1) % (MAX_COUNT + 1), !.dead = @ \ {n}]
MarkDead(tb, n) == [tb EXCEPT !.dead = @ \cup {n}]

\* MUTANT of Check: the number alone names the request.
CheckNumber(token) ==
    IF token[1] \in table.dead THEN "dead" ELSE table.holder[token[1]]

\* What `check` says of a token: the thread, None for BAD_STATE, "dead".
Check(token) ==
    CASE table.count[token[1]] # token[2] -> None
      [] table.count[token[1]] = token[2] /\ token[1] \in table.dead -> "dead"
      [] table.count[token[1]] = token[2] /\ token[1] \notin table.dead ->
             table.holder[token[1]]

----------------------------------------------------------------------------
(* Messages.                                                               *)

\* A thread at EL0 of a process that has not ended makes a call. One that entered
\* the kernel before the end and has its section after it (check_alive answers
\* BAD_STATE to what would fill its table) is left out.
Calls(t) == life[t] = "live" /\ k.waits[t] = NoWait /\ stage[Of[t]] = "whole"

\* The handles a thread may put in a message, next to handle `h`.
Movable(t, h) == {{}} \cup {{m} : m \in (k.handles[Of[t]] \cap Transfer) \ {h}}

\* The handles on their way in `from` go into the table of process `p`.
Deliver(x, p, from) ==
    [x EXCEPT !.handles[p] = @ \cup x.transit[from], !.transit[from] = {}]

\* The request of `client` goes to a thread of process `p`.
Accept(x, p, client) ==
    Deliver([x EXCEPT !.accepted[p] = @ \cup {client},
                      !.waits[client] = ForReply(p)], p, client)

TakeNumber(client) ==
    LET tb == AcceptNumber(table, index[client])
    IN  /\ table' = tb
        /\ given' = given \cup {Token(tb, index[client])}
        /\ request' = [request EXCEPT ![client] = Token(tb, index[client])]

ViaOf(h) == IF h \in Labelled THEN "session" ELSE "channel"

SendCall(t, h, moving) ==
    /\ Calls(t)
    /\ h \in k.handles[Of[t]] \ Receiving
    /\ moving \in Movable(t, h)
    /\ CountLeft(t)

\* The channel is closed, or the receiver's table has no room: the handles
\* of the message go.
SendFails(t, h, moving) ==
    /\ SendCall(t, h, moving)
    /\ moving # {}
    /\ k.closed \/ HasReceivers(k)
    /\ k' = DropHandles(k, Of[t], moving)
    /\ UNCHANGED <<table, life, index, stage, pending, given, request>>

\* An upcall was asked for after the thread's last look: nothing waits.
SendInterrupted(t, h, moving) ==
    /\ SendCall(t, h, moving)
    /\ ~k.closed /\ ~HasReceivers(k)
    /\ t \in pending
    /\ k' = DropHandles(k, Of[t], moving)
    /\ UNCHANGED <<table, life, index, stage, pending, given, request>>

\* No receiver waits: the request does, with its handles.
SendQueued(t, h, moving) ==
    LET out == [k EXCEPT !.handles[Of[t]] = @ \ moving, !.transit[t] = moving,
                         !.waits[t] = InSend(ViaOf(h))]
    IN  /\ SendCall(t, h, moving)
        /\ ~k.closed /\ ~HasReceivers(k)
        /\ t \notin pending
        /\ k' = Hold(Enqueue(out, t), ViaOf(h))
        /\ UNCHANGED <<table, life, index, stage, pending, given, request>>

\* The top receiver that waits takes the request, on either path of send.
SendMet(t, h, moving) ==
    LET r   == Head(k.queue)
        out == [k EXCEPT !.handles[Of[t]] = @ \ moving, !.transit[t] = moving,
                         !.waits[r] = NoWait]
    IN  /\ SendCall(t, h, moving)
        /\ ~k.closed /\ HasReceivers(k)
        /\ k' = ReleaseRef(Accept(TakeHead(out), Of[r], t))
        /\ TakeNumber(t)
        /\ UNCHANGED <<life, index, stage, pending>>

ReceiveCall(t) == Calls(t) /\ k.handles[Of[t]] \cap Receiving # {}

Queued(i) == ~k.waiting /\ k.queue # <<>> /\ Head(k.queue) = i

ReceiveSlot(t, s) ==
    /\ ReceiveCall(t)
    /\ Queued(s)
    /\ k' = OwnerLetGo(Notice(TakeHead(k), s), s)
    /\ UNCHANGED <<table, life, index, stage, pending, given, request>>

ReceiveRequest(t, client) ==
    /\ ReceiveCall(t)
    /\ Queued(client)
    /\ k' = LetGo(Accept(TakeHead(k), Of[t], client), k.waits[client][2])
    /\ TakeNumber(client)
    /\ UNCHANGED <<life, index, stage, pending>>

\* MUTANT of ReceiveUnfit: what the sender's wait held is not let go.
ReceiveUnfitKeeps(t, client) ==
    /\ ReceiveCall(t)
    /\ Queued(client)
    /\ k.transit[client] # {}
    /\ k' = DropTransit([TakeHead(k) EXCEPT !.waits[client] = NoWait], client)
    /\ UNCHANGED <<table, life, index, stage, pending, given, request>>

\* No room for the handles: the sender fails, and the call starts over.
ReceiveUnfit(t, client) ==
    /\ ReceiveCall(t)
    /\ Queued(client)
    /\ k.transit[client] # {}
    /\ k' = LetGo(DropTransit([TakeHead(k) EXCEPT !.waits[client] = NoWait], client),
                  k.waits[client][2])
    /\ UNCHANGED <<table, life, index, stage, pending, given, request>>

\* Nothing is there: the thread waits, unless an upcall was asked for.
ReceiveWaits(t) ==
    /\ ReceiveCall(t)
    /\ k.waiting \/ k.queue = <<>>
    /\ t \notin pending
    /\ k' = RetainChannel(WaitIn([k EXCEPT !.waits[t] = InReceive], t), {})
    /\ UNCHANGED <<table, life, index, stage, pending, given, request>>

\* A thread may answer with any token it was ever told.
ReplyCall(t, token, moving) ==
    /\ Calls(t)
    /\ token \in given
    /\ moving \in Movable(t, None)

\* The client of the request ended: PEER_CLOSED, and the handles go.
ReplyDead(t, token, moving) ==
    /\ ReplyCall(t, token, moving)
    /\ moving # {}
    /\ Check(token) = "dead"
    /\ k' = DropHandles(k, Of[t], moving)
    /\ UNCHANGED <<table, life, index, stage, pending, given, request>>

\* The client wakes, with the message and its handles or, with no room for
\* them, with an error.
Reply(t, token, moving) ==
    LET client == Check(token)
        woken  == [k EXCEPT !.accepted[Of[t]] = @ \ {client}, !.waits[client] = NoWait,
                            !.handles[Of[t]] = @ \ moving, !.transit[t] = moving]
    IN  /\ ReplyCall(t, token, moving)
        /\ client \in Threads
        /\ k.waits[client] = ForReply(Of[t])
        /\ \/ k' = Deliver(woken, Of[client], t)
           \/ moving # {} /\ k' = DropTransit(woken, t)
        /\ request' = [request EXCEPT ![client] = NoToken]
        /\ UNCHANGED <<table, life, index, stage, pending, given>>

Notify(t, h) ==
    /\ Calls(t)
    /\ h \in k.handles[Of[t]] \ Receiving
    /\ ~k.closed
    /\ k' = Post(k, IF h \in Labelled THEN "session" ELSE "label0", "bit")
    /\ UNCHANGED <<table, life, index, stage, pending, given, request>>

----------------------------------------------------------------------------
(* Handles.                                                                *)

Unused(h) == /\ \A p \in Procs : h \notin k.handles[p]
             /\ \A t \in Threads : h \notin k.transit[t]

CloseHandle(t, h) ==
    /\ Calls(t)
    /\ h \in k.handles[Of[t]]
    /\ k' = DropHandles(k, Of[t], {h})
    /\ UNCHANGED <<table, life, index, stage, pending, given, request>>

\* handle_duplicate with no label: a copy with the rights of `h` or fewer.
Duplicate(t, h, copy) ==
    /\ Calls(t)
    /\ h \in k.handles[Of[t]] /\ Unused(copy)
    /\ copy \in Labelled <=> h \in Labelled
    /\ copy \in Receiving => h \in Receiving
    /\ k' = Retain([k EXCEPT !.handles[Of[t]] = @ \cup {copy}], copy)
    /\ UNCHANGED <<table, life, index, stage, pending, given, request>>

\* handle_duplicate with a label: a session of the channel and its first
\* copy.  The model has one session at a time.
Label(t, h, copy) ==
    /\ Calls(t)
    /\ h \in k.handles[Of[t]] \ Labelled /\ copy \in Labelled /\ Unused(copy)
    /\ copy \in Receiving => h \in Receiving
    /\ ~k.closed
    /\ k.session = "none"
    /\ k' = Retain([RetainChannel(k, {}) EXCEPT
                        !.sources = @ + 1, !.session = "live", !.told = FALSE,
                        !.handles[Of[t]] = @ \cup {copy}], copy)
    /\ UNCHANGED <<table, life, index, stage, pending, given, request>>

\* The handle of a new session found no room: the session goes again, and
\* nobody heard of it.
LabelUnfit(t, h) ==
    /\ Calls(t)
    /\ h \in k.handles[Of[t]] \ Labelled
    /\ Labelled # {}
    /\ ~k.closed
    /\ k.session = "none"
    /\ k' = [RetainChannel(k, {}) EXCEPT
                 !.sources = @ + 1, !.session = "shell", !.told = TRUE]
    /\ UNCHANGED <<table, life, index, stage, pending, given, request>>

----------------------------------------------------------------------------
(* Interruptions and ends.                                                 *)

InQueue(t) == k.waits[t] \in {InReceive} \cup {InSend(v) : v \in Vias}

\* What the wait of `t` held.
WaitedVia(t) == IF k.waits[t] = InReceive THEN "channel" ELSE k.waits[t][2]

\* MUTANT of Withdraw: the slot stays in the queue.
WithdrawWaitOnly(x, t) == [x EXCEPT !.waits[t] = NoWait]

Withdraw(x, t) == CancelIn([x EXCEPT !.waits[t] = NoWait], t)

Interrupt(t) ==
    /\ InQueue(t)
    /\ k' = LetGo(DropTransit(Withdraw(k, t), t), WaitedVia(t))
    /\ UNCHANGED <<table, life, index, stage, pending, given, request>>

\* thread_upcall_request: the request, and the wait it ends, in one section.
RequestUpcall(t) ==
    /\ t \in Upcalled
    /\ life[t] = "live"
    /\ t \notin pending
    /\ pending' = pending \cup {t}
    /\ k' = IF InQueue(t) THEN LetGo(DropTransit(Withdraw(k, t), t), WaitedVia(t)) ELSE k
    /\ UNCHANGED <<table, life, index, stage, given, request>>

\* The thread goes to EL0 by way of its entry.
EnterUpcall(t) ==
    /\ Calls(t)
    /\ t \in pending
    /\ pending' = pending \ {t}
    /\ UNCHANGED <<k, table, life, index, stage, given, request>>

Create(t) ==
    /\ life[t] = "none"
    /\ stage[Of[t]] = "whole"
    /\ Alloc(t)
    /\ life' = [life EXCEPT ![t] = "live"]
    /\ UNCHANGED <<k, stage, pending, given, request>>

\* sched::exit, of the running thread or by the stage Threads of a process
\* that ended: a wait for a reply marks its request dead, any other wait is
\* withdrawn.  A thread of another CPU keeps its number until that CPU ends
\* it (serve_exit).
CancelTable(t) ==
    IF \E p \in Procs : k.waits[t] = ForReply(p) THEN MarkDead(table, index[t]) ELSE table

CancelWait(t) ==
    CASE InQueue(t) -> LetGo(Withdraw(k, t), WaitedVia(t))
      [] ~InQueue(t) -> [k EXCEPT !.waits[t] = NoWait,
                                  !.accepted = [p \in Procs |-> @[p] \ {t}]]

Exit(t) ==
    /\ (Calls(t) /\ t \in Leaving) \/ (life[t] = "live" /\ stage[Of[t]] = "threads")
    /\ life' = [life EXCEPT ![t] = "ended"]
    /\ k' = CancelWait(t)
    /\ \/ /\ table' = FreeNumber(CancelTable(t), index[t])
          /\ index' = [index EXCEPT ![t] = NoNumber]
       \/ /\ table' = CancelTable(t)
          /\ UNCHANGED index
    /\ request' = [request EXCEPT ![t] = NoToken]
    /\ pending' = pending \ {t}
    /\ UNCHANGED <<stage, given>>

ServeExit(t) ==
    /\ life[t] = "ended"
    /\ index[t] # NoNumber
    /\ table' = FreeNumber(table, index[t])
    /\ index' = [index EXCEPT ![t] = NoNumber]
    /\ UNCHANGED <<k, life, stage, pending, given, request>>

\* The portion of a thread nothing refers to.
CleanThread(t) ==
    /\ life[t] = "ended"
    /\ index[t] = NoNumber
    /\ life' = [life EXCEPT ![t] = "none"]
    /\ k' = DropTransit(k, t)
    /\ UNCHANGED <<table, index, stage, pending, given, request>>

EndProcess(p) ==
    /\ p \in Mortal
    /\ stage[p] = "whole"
    /\ stage' = [stage EXCEPT ![p] = "threads"]
    /\ UNCHANGED <<k, table, life, index, pending, given, request>>

\* MUTANT of ThreadsDone: the stage Replies is passed over.
ThreadsToHandles(p) ==
    /\ stage[p] = "threads"
    /\ \A t \in Threads : Of[t] = p => life[t] # "live"
    /\ stage' = [stage EXCEPT ![p] = "handles"]
    /\ UNCHANGED <<k, table, life, index, pending, given, request>>

\* MUTANT of ThreadsDone: the stage ends with threads that still wait.
ThreadsDoneEarly(p) ==
    /\ stage[p] = "threads"
    /\ stage' = [stage EXCEPT ![p] = "replies"]
    /\ UNCHANGED <<k, table, life, index, pending, given, request>>

\* The stages after the threads: the clients of the accepted requests wake
\* with PEER_CLOSED, then the handles go.
ThreadsDone(p) ==
    /\ stage[p] = "threads"
    /\ \A t \in Threads : Of[t] = p => life[t] # "live"
    /\ stage' = [stage EXCEPT ![p] = "replies"]
    /\ UNCHANGED <<k, table, life, index, pending, given, request>>

WakeClient(p, client) ==
    /\ stage[p] = "replies"
    /\ client \in k.accepted[p]
    /\ \A other \in k.accepted[p] : Level[other] <= Level[client]
    /\ k' = [k EXCEPT !.accepted[p] = @ \ {client}, !.waits[client] = NoWait]
    /\ request' = [request EXCEPT ![client] = NoToken]
    /\ UNCHANGED <<table, life, index, stage, pending, given>>

RepliesDone(p) ==
    /\ stage[p] = "replies"
    /\ k.accepted[p] = {}
    /\ stage' = [stage EXCEPT ![p] = "handles"]
    /\ UNCHANGED <<k, table, life, index, pending, given, request>>

ReleaseHandle(p, h) ==
    /\ stage[p] = "handles"
    /\ h \in k.handles[p]
    /\ k' = DropHandles(k, p, {h})
    /\ UNCHANGED <<table, life, index, stage, pending, given, request>>

HandlesDone(p) ==
    /\ stage[p] = "handles"
    /\ k.handles[p] = {}
    /\ stage' = [stage EXCEPT ![p] = "gone"]
    /\ UNCHANGED <<k, table, life, index, pending, given, request>>

----------------------------------------------------------------------------
(* The portions of the channel and of its session.                         *)

\* What the stage Close does with the head of the queue.
CloseHead(x) ==
    LET i     == Head(x.queue)
        woken == [TakeHead(x) EXCEPT !.waits[i] = NoWait]
    IN  CASE i \in Slots -> OwnerLetGo([TakeHead(x) EXCEPT !.bits[i] = {}], i)
          [] i \in Threads /\ x.waits[i] = InReceive -> ReleaseRef(woken)
          [] i \in Threads /\ x.waits[i] # InReceive ->
                 LetGo(DropTransit(woken, i), x.waits[i][2])

CleanChannel ==
    LET x == IF k.queue = <<>> THEN k ELSE CloseHead(k)
    IN  /\ k.cleanup = "close"
        /\ k' = IF x.queue = <<>> THEN ReleaseRef([x EXCEPT !.cleanup = "none"]) ELSE x
        /\ UNCHANGED <<table, life, index, stage, pending, given, request>>

FreeChannel ==
    /\ k.cleanup = "shell"
    /\ k' = [k EXCEPT !.cleanup = "freed"]
    /\ UNCHANGED <<table, life, index, stage, pending, given, request>>

CleanSession ==
    /\ k.session = "shell"
    /\ k' = ReleaseRef([k EXCEPT !.session = "none", !.sources = @ - 1])
    /\ UNCHANGED <<table, life, index, stage, pending, given, request>>

----------------------------------------------------------------------------
Portions ==
    \/ CleanChannel \/ FreeChannel \/ CleanSession
    \/ \E t \in Threads : ServeExit(t) \/ CleanThread(t)
    \/ \E p \in Procs : ThreadsDone(p) \/ RepliesDone(p) \/ HandlesDone(p)
    \/ \E p \in Procs, c \in Threads : WakeClient(p, c)
    \/ \E p \in Procs, h \in Handles : ReleaseHandle(p, h)

Next ==
    \/ Portions
    \/ \E t \in Threads :
          \/ ReceiveWaits(t) \/ Interrupt(t) \/ RequestUpcall(t) \/ EnterUpcall(t)
          \/ Create(t) \/ Exit(t)
          \/ \E s \in Slots : ReceiveSlot(t, s)
          \/ \E c \in Threads : ReceiveRequest(t, c) \/ ReceiveUnfit(t, c)
          \/ \E h \in Handles : Notify(t, h) \/ CloseHandle(t, h) \/ LabelUnfit(t, h)
          \/ \E h, copy \in Handles : Duplicate(t, h, copy) \/ Label(t, h, copy)
          \/ \E h \in Handles : \E moving \in Movable(t, h) :
                \/ SendFails(t, h, moving) \/ SendInterrupted(t, h, moving)
                \/ SendQueued(t, h, moving) \/ SendMet(t, h, moving)
          \/ \E token \in given, moving \in Movable(t, None) :
                ReplyDead(t, token, moving) \/ Reply(t, token, moving)
    \/ \E p \in Procs : EndProcess(p)

\* The cleanup queue is served: the portions of the channel and of a process
\* that ended come, whatever the other threads do.
Spec ==
    /\ Init /\ [][Next]_vars
    /\ WF_vars(CleanChannel)
    /\ \A t \in Threads : WF_vars(stage[Of[t]] = "threads" /\ Exit(t))
    /\ \A p \in Procs : WF_vars(ThreadsDone(p) \/ \E c \in Threads : WakeClient(p, c))

----------------------------------------------------------------------------
(* Where the references to the channel and to the session are.             *)

Everywhere == UNION ({k.handles[p] : p \in Procs} \cup {k.transit[t] : t \in Threads})

\* The handles somewhere that name the channel or the session, and the
\* requests that wait: what the counts count.
Requests(via) == {t \in Threads : k.waits[t] = InSend(via)}
Receivers == {t \in Threads : k.waits[t] = InReceive}

\* The counts that keep the channel and the session are those of the handles
\* in tables and on their way, of the waits, of the sources, of queued slots
\* and of the stage Close, whatever a message that failed, an interruption,
\* a close or an end let go in between: nothing that refers to the channel
\* finds it freed, and nothing keeps it for ever. A handle is in one table or
\* on its way with one message, never in both (take_handles, put_handles).
ReferencesExact ==
    /\ k.receivers = Cardinality(Everywhere \cap Receiving)
    /\ k.copies = Cardinality(Everywhere \cap Labelled) + Cardinality(Requests("session"))
    /\ k.srefs = k.copies + (IF IsQueued(k, "session") THEN 1 ELSE 0)
    /\ k.refs = Cardinality(Everywhere \ Labelled) + Cardinality(Everywhere \cap Labelled \cap Receiving)
                + Cardinality(Requests("channel")) + Cardinality(Receivers)
                + (IF k.session # "none" THEN 1 ELSE 0)
                + (IF k.cleanup = "close" THEN 1 ELSE 0)
    /\ k.cleanup \in {"shell", "freed"} <=> k.refs = 0
    /\ k.closed <=> k.receivers = 0
    /\ k.session = "live" <=> k.srefs > 0
    /\ k.sources = IF k.session = "none" THEN 1 ELSE 2
    /\ \A h \in Handles :
        Cardinality({p \in Procs : h \in k.handles[p]})
        + Cardinality({t \in Threads : h \in k.transit[t]}) <= 1

\* A handle goes into the table of no process past its stage Threads, whose
\* stage Handles may be over: whoever waits for one when its process ends is
\* gone before (the assertion of put_handles).
PutInTime ==
    [][\A p \in Procs :
          stage[p] \in {"replies", "handles", "gone"}
              => k'.handles[p] \subseteq k.handles[p]]_vars

\* A channel's queue holds receivers that wait or else slots and requests,
\* never both, and a thread stands in it exactly while it waits there: a
\* request and a receiver never wait for each other.
NeverBoth ==
    /\ \A t \in Threads : IsQueued(k, t) <=> InQueue(t)
    /\ \A i, j \in DOMAIN k.queue :
          (k.queue[i] \in Receivers) <=> (k.queue[j] \in Receivers)
    /\ \A s \in Slots : IsQueued(k, s) <=> k.bits[s] # {}

\* CLIENT_GONE comes after every request and every handle of the label, at
\* whatever level its slot stands; and it comes: with the last copy gone it
\* is in the slot or was received while the channel is open (spec 5.3).
GoneIsLast ==
    /\ k.told => k.copies = 0 /\ Everywhere \cap Labelled = {}
    /\ k.session # "none" /\ k.copies = 0 /\ ~k.closed
          => k.told \/ "gone" \in k.bits["session"]

\* A reply reaches the request its token was given for, and no other: not a
\* later request of the thread, not a request of a later thread on the same
\* number, not one another process accepted (kcore/src/token.rs check).
AnswersItsRequest ==
    \A p \in Procs, token \in given :
        LET client == Check(token)
        IN  client \in Threads /\ k.waits[client] = ForReply(p)
                => request[client] = token

\* No token is given out twice, over ends of threads and reuse of numbers.
TokenOnce ==
    [][\A t \in Threads :
          request'[t] \notin {NoToken, request[t]} => request'[t] \notin given]_vars

\* A thread does not wait in send or receive with an upcall asked for: a
\* request that came while the call was on its way found no wait to end, so
\* the call must see it before it blocks.
NoSleepOnUpcall == \A t \in pending : ~InQueue(t)

\* Nobody waits for ever in a channel that closed.
ClosedWakes ==
    (k.closed /\ \E t \in Threads : InQueue(t)) ~> (\A t \in Threads : ~InQueue(t))

\* The clients whose requests a process accepted do not outwait its end.
RepliesWake ==
    \A p \in Procs : (stage[p] # "whole" /\ k.accepted[p] # {}) ~> (k.accepted[p] = {})
============================================================================
