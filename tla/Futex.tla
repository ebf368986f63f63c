------------------------------- MODULE Futex -------------------------------
(***************************************************************************)
(* Waits by address of the POSIX layer and the lock of the layer           *)
(* (lib/posix-sync), with the delivery of signals that ends a wait         *)
(* (lib/posix-abi, signals.rs): one bucket of the table, the threads of    *)
(* one process, each with its block, its channel and its timer.            *)
(*                                                                         *)
(* A thread's calls are a stack of frames: its program at the bottom, a    *)
(* delivery of signals above it, whose handlers may wait by address with   *)
(* the SAME block.  Threads interleave between any two steps that another  *)
(* thread can tell apart.                                                  *)
(***************************************************************************)
EXTENDS Integers, Sequences, FiniteSets, SequencesExt

CONSTANTS
    Threads,     \* the threads of the process
    Level,       \* the effective level of each (posix_thread::effective_level)
    AppWords,    \* words of the program, each 0 or 1
    LockWord,    \* the word of a LayerLock: 0 free, 1 held, 2 held with waiters
    Plans,       \* bound: the calls each thread makes, its handlers' included, and
                 \* the signals, stops and cancellations that come from outside
    Deadlines,   \* whether waits of the program have deadlines, or do not
    Uses,        \* bound: the kinds of calls each thread makes
    Signalled,   \* bound: the threads they come for
    MaxDepth     \* bound: frames of a thread, its program's included

Words == AppWords \cup {LockWord}
NoWord == "none"
Nobody == "nobody"

ASSUME FutexAssumption ==
    /\ IsFiniteSet(Threads) /\ Level \in [Threads -> Nat]
    /\ LockWord \notin AppWords /\ NoWord \notin Words /\ Nobody \notin Threads
    /\ Uses \in [Threads -> SUBSET {"lock", "wait", "wake"}]
    /\ Plans \subseteq [ops : [Threads -> Nat], signals : Nat]
    /\ Signalled \subseteq Threads /\ MaxDepth \in Nat \ {0}
    /\ Deadlines \subseteq BOOLEAN

VARIABLES
    word,      \* the words waits compare
    waiters,   \* Bucket::waiters
    lock,      \* Bucket::lock, by its holder
    list,      \* the nodes linked into the bucket, by their threads
    addr,      \* Block::address: the word of a linked node, or NoWord
    owner,     \* history: the frame that linked the node
    waiting,   \* Block::flags, WAITING
    slot,      \* the bits in the slot of label 0 of the thread's channel
    note,      \* a notification of the timer waits in the channel
    timer,     \* the frame whose deadline the timer is armed for, or 0
    stack,     \* the frames of each thread
    entry,     \* the kernel holds a request of an entry for the thread
    deferred,  \* Block::flags, ENTRY_DEFERRED
    pending,   \* an unblocked signal pends on the thread
    stop,      \* another thread stops the process (fork, exec)
    asked,     \* Block::flags, CANCEL_PENDING
    ops,       \* calls left to each thread
    signals,   \* events from outside left
    over       \* history: threads a handler of which began over a wait

bucketVars == <<waiters, lock, list, addr, owner>>
channelVars == <<slot, note, timer>>
entryVars == <<entry, deferred, pending, stop, asked, signals, over>>
vars == <<word, bucketVars, waiting, channelVars, stack, entryVars, ops>>

----------------------------------------------------------------------------
(* Frames *)

\* Where a frame of a program or a handler stands when it is in no call.
Outside == {"program", "handler"}
\* The parts of a delivery during which entries stay out.
Preparing == {"park", "check", "take"}
\* The parts of futex_wait from the linked node to the look at it again.
Sleeping == {"arm", "receive"}
Waiting == Sleeping \cup {"count", "compare", "cancel", "finish"}
Waking == {"wakeRead", "wakeLock", "waking"}

Frame == [pc : Outside \cup Preparing \cup Waiting \cup Waking \cup {"swap", "held"},
          back : Outside,              \* where the call returns to
          layer : BOOLEAN,             \* the call is one of LayerLock
          w : Words \cup {NoWord},     \* the word of the call
          val : 0..2,                  \* the value a wait compares with
          dl : BOOLEAN,                \* the wait has a deadline
          due : BOOLEAN,               \* ... which has passed
          out : {"none", "again", "woken", "entry", "timedout"},
          got : BOOLEAN,               \* history: a waker counted this wait
          left : 0..Cardinality(Threads),  \* threads the wake may still wake
          ended : BOOLEAN,             \* the delivery ended a wait (abandon)
          native : BOOLEAN]            \* the delivery is an entry's, with its frame

NoCall(where) ==
    [pc |-> where, back |-> where, layer |-> FALSE, w |-> NoWord, val |-> 0,
     dl |-> FALSE, due |-> FALSE, out |-> "none", got |-> FALSE, left |-> 0,
     ended |-> FALSE, native |-> FALSE]

Top(t) == stack[t][Len(stack[t])]
At(t, pc) == Top(t).pc = pc
SetTop(t, f) == stack' = [stack EXCEPT ![t][Len(stack[t])] = f]
Goto(t, pc) == SetTop(t, [Top(t) EXCEPT !.pc = pc])

\* A call of the frame, and its end: back to the program or the handler with
\* what the call answered.
Called(f, pc, layer) ==
    [NoCall(f.back) EXCEPT !.pc = pc, !.layer = layer, !.ended = f.ended,
                            !.native = f.native]
Ended(f, out) ==
    [NoCall(f.back) EXCEPT !.out = out, !.got = f.got, !.ended = f.ended,
                            !.native = f.native]

\* The depth of critical sections of the thread (enter, leave) is not zero.
Critical(t) ==
    \/ Top(t).layer
    \/ lock = t
    \/ Top(t).pc \in Preparing

\* The end of the outermost section delivers an entry that came inside it
\* before the thread does anything else.
Runs(t) == ~deferred[t] \/ Critical(t)

----------------------------------------------------------------------------
(* The bucket *)

\* After the last node of the thread's level or a higher one.
insert(t) ==
    LET lower == {i \in 1..Len(list) : Level[list[i]] < Level[t]}
        place == IF lower = {} THEN Len(list) + 1
                 ELSE CHOOSE i \in lower : \A j \in lower : i <= j
    IN  list' = InsertAt(list, place, t)

\* MUTANT of remove: the count of the bucket keeps the node.
removeUncounted(t) ==
    /\ list' = SelectSeq(list, LAMBDA u : u # t)
    /\ addr' = [addr EXCEPT ![t] = NoWord]
    /\ waiters' = waiters

remove(t) ==
    /\ list' = SelectSeq(list, LAMBDA u : u # t)
    /\ addr' = [addr EXCEPT ![t] = NoWord]
    /\ waiters' = waiters - 1

Init ==
    /\ word = [w \in Words |-> 0]
    /\ waiters = 0 /\ lock = Nobody /\ list = <<>>
    /\ addr = [t \in Threads |-> NoWord]
    /\ owner = [t \in Threads |-> 0]
    /\ waiting = [t \in Threads |-> FALSE]
    /\ slot = [t \in Threads |-> {}]
    /\ note = [t \in Threads |-> FALSE]
    /\ timer = [t \in Threads |-> 0]
    /\ stack = [t \in Threads |-> <<NoCall("program")>>]
    /\ entry = [t \in Threads |-> FALSE]
    /\ deferred = [t \in Threads |-> FALSE]
    /\ pending = [t \in Threads |-> FALSE]
    /\ stop = [t \in Threads |-> FALSE]
    /\ asked = [t \in Threads |-> FALSE]
    /\ \E plan \in Plans : ops = plan.ops /\ signals = plan.signals
    /\ over = {}

----------------------------------------------------------------------------
(* futex_wait *)

\* The program or a handler waits while the word keeps the value it read.
CallWait(t, w, dl) ==
    /\ Top(t).pc \in Outside /\ Runs(t) /\ ops[t] > 0
    /\ ops' = [ops EXCEPT ![t] = @ - 1]
    /\ SetTop(t, [Called(Top(t), "count", FALSE) EXCEPT
                    !.w = w, !.val = word[w], !.dl = dl])
    /\ UNCHANGED <<word, bucketVars, waiting, channelVars, entryVars>>

\* Counted before the comparison: a waker that changed the word sees it.
Count(t) ==
    /\ At(t, "count") /\ Runs(t)
    /\ waiters' = waiters + 1
    /\ Goto(t, "compare")
    /\ UNCHANGED <<word, lock, list, addr, owner, waiting, channelVars, entryVars, ops>>

\* What follows an answer of futex_wait: LayerLock::lock takes any answer for
\* a reason to look at its word again.
Answer(f, out) == IF f.layer THEN [f EXCEPT !.pc = "swap"] ELSE Ended(f, out)

\* Under the lock of the bucket: EAGAIN when the word differs, else the node
\* is linked and the thread marked WAITING.
Compare(t) ==
    /\ At(t, "compare") /\ Runs(t) /\ lock = Nobody
    /\ LET f == Top(t) IN
       \/ /\ word[f.w] # f.val
          /\ waiters' = waiters - 1
          /\ SetTop(t, Answer(f, "again"))
          /\ UNCHANGED <<list, addr, owner, waiting>>
       \/ /\ word[f.w] = f.val
          /\ addr' = [addr EXCEPT ![t] = f.w]
          /\ owner' = [owner EXCEPT ![t] = Len(stack[t])]
          /\ insert(t)
          /\ waiting' = [waiting EXCEPT ![t] = TRUE]
          /\ Goto(t, IF f.dl THEN "arm" ELSE "receive")
          /\ UNCHANGED waiters
    /\ UNCHANGED <<word, lock, channelVars, entryVars, ops>>

\* timer_set: a deadline in the past fires at once.
Arm(t) ==
    /\ At(t, "arm") /\ Runs(t)
    /\ timer' = [timer EXCEPT ![t] = IF Top(t).due THEN 0 ELSE Len(stack[t])]
    /\ note' = [note EXCEPT ![t] = @ \/ Top(t).due]
    /\ Goto(t, "receive")
    /\ UNCHANGED <<word, bucketVars, waiting, slot, entryVars, ops>>

\* The deadline of a wait passes; a timer armed for it fires.
Pass(t, d) ==
    /\ d \in 1..Len(stack[t])
    /\ stack[t][d].pc \in Waiting /\ stack[t][d].dl /\ ~stack[t][d].due
    /\ stack' = [stack EXCEPT ![t][d].due = TRUE]
    /\ note' = [note EXCEPT ![t] = @ \/ timer[t] = d]
    /\ timer' = [timer EXCEPT ![t] = IF @ = d THEN 0 ELSE @]
    /\ UNCHANGED <<word, bucketVars, waiting, slot, entryVars, ops>>

\* The wait has its outcome: timer_cancel if it had a deadline, then the lock.
Received(f, out) ==
    [f EXCEPT !.pc = IF f.dl THEN "cancel" ELSE "finish", !.out = out]

\* receive gives the bits of the slot: a waker's, or those of someone who
\* asks the thread to look again.
ReceiveBits(t) ==
    /\ At(t, "receive") /\ Runs(t) /\ slot[t] # {}
    /\ SetTop(t, Received(Top(t), IF "CANCEL" \in slot[t] THEN "entry" ELSE "woken"))
    /\ slot' = [slot EXCEPT ![t] = {}]
    /\ UNCHANGED <<word, bucketVars, waiting, note, timer, entryVars, ops>>

\* receive gives a notification of the timer, perhaps one of an earlier wait:
\* the wait goes on unless its own deadline has passed.
ReceiveTimer(t) ==
    /\ At(t, "receive") /\ Runs(t) /\ note[t]
    /\ note' = [note EXCEPT ![t] = FALSE]
    /\ LET f == Top(t) IN
       IF f.dl /\ f.due
       THEN SetTop(t, Received(f, "timedout"))
       ELSE UNCHANGED stack
    /\ UNCHANGED <<word, bucketVars, waiting, slot, timer, entryVars, ops>>

\* timer_cancel, which leaves a notification that is in the channel already.
CancelTimer(t) ==
    /\ At(t, "cancel") /\ Runs(t)
    /\ timer' = [timer EXCEPT ![t] = 0]
    /\ Goto(t, "finish")
    /\ UNCHANGED <<word, bucketVars, waiting, slot, note, entryVars, ops>>

\* MUTANT of Finish: the outcome stands although a waker unlinked the node.
FinishBlindly(t) ==
    /\ At(t, "finish") /\ Runs(t) /\ lock = Nobody
    /\ waiting' = [waiting EXCEPT ![t] = FALSE]
    /\ IF addr[t] = Top(t).w THEN remove(t) ELSE UNCHANGED <<waiters, list, addr>>
    /\ SetTop(t, Answer(Top(t), Top(t).out))
    /\ UNCHANGED <<word, lock, owner, channelVars, entryVars, ops>>

\* Under the lock of the bucket: a node that is still linked leaves, and the
\* outcome stands; a node that is gone means that the wait was answered.
Finish(t) ==
    /\ At(t, "finish") /\ Runs(t) /\ lock = Nobody
    /\ waiting' = [waiting EXCEPT ![t] = FALSE]
    /\ LET f == Top(t) IN
       \/ /\ addr[t] = f.w
          /\ remove(t)
          /\ SetTop(t, Answer(f, f.out))
       \/ /\ addr[t] # f.w
          /\ SetTop(t, Answer(f, IF f.out = "timedout" THEN "woken" ELSE f.out))
          /\ UNCHANGED <<waiters, list, addr>>
    /\ UNCHANGED <<word, lock, owner, channelVars, entryVars, ops>>

----------------------------------------------------------------------------
(* futex_wake *)

\* The program or a handler changes a word, then wakes all who wait on it.
CallWake(t, w) ==
    /\ Top(t).pc \in Outside /\ Runs(t) /\ ops[t] > 0
    /\ ops' = [ops EXCEPT ![t] = @ - 1]
    /\ word' = [word EXCEPT ![w] = 1 - @]
    /\ SetTop(t, [Called(Top(t), "wakeRead", FALSE) EXCEPT
                    !.w = w, !.left = Cardinality(Threads)])
    /\ UNCHANGED <<bucketVars, waiting, channelVars, entryVars>>

\* With no waiter counted in the bucket the lock is not taken.
WakeRead(t) ==
    /\ At(t, "wakeRead") /\ Runs(t)
    /\ SetTop(t, IF waiters = 0 THEN Ended(Top(t), "none")
                 ELSE [Top(t) EXCEPT !.pc = "wakeLock"])
    /\ UNCHANGED <<word, bucketVars, waiting, channelVars, entryVars, ops>>

WakeLock(t) ==
    /\ At(t, "wakeLock") /\ Runs(t) /\ lock = Nobody
    /\ lock' = t
    /\ Goto(t, "waking")
    /\ UNCHANGED <<word, waiters, list, addr, owner, waiting, channelVars, entryVars, ops>>

\* The places of the nodes of the word in the list.
OfWord(w) == {i \in 1..Len(list) : addr[list[i]] = w}

\* The first node of the word leaves the list and its thread is notified
\* under the lock: once the waiter sees its node gone, nothing more touches
\* its channel.
WakeOne(t) ==
    /\ At(t, "waking") /\ Top(t).left > 0
    /\ \E i \in OfWord(Top(t).w) :
       /\ \A j \in OfWord(Top(t).w) : i <= j
       /\ LET u == list[i] IN
          /\ remove(u)
          /\ slot' = [slot EXCEPT ![u] = @ \cup {"WAKE"}]
          /\ stack' = [stack EXCEPT ![t][Len(stack[t])].left = @ - 1,
                                    ![u][owner[u]].got = TRUE]
    /\ UNCHANGED <<word, lock, owner, waiting, note, timer, entryVars, ops>>

WakeUnlock(t) ==
    /\ At(t, "waking") /\ (Top(t).left = 0 \/ OfWord(Top(t).w) = {})
    /\ lock' = Nobody
    /\ SetTop(t, Ended(Top(t), "none"))
    /\ UNCHANGED <<word, waiters, list, addr, owner, waiting, channelVars, entryVars, ops>>

----------------------------------------------------------------------------
(* LayerLock *)

\* lock and try_lock: the CAS from 0 to 1; lock goes on to its loop.
CallLock(t) ==
    /\ Top(t).pc \in Outside /\ Runs(t) /\ ops[t] > 0
    /\ ops' = [ops EXCEPT ![t] = @ - 1]
    /\ LET free == word[LockWord] = 0 IN
       /\ word' = [word EXCEPT ![LockWord] = IF free THEN 1 ELSE @]
       /\ SetTop(t, Called(Top(t), IF free THEN "held" ELSE "swap", TRUE))
    /\ UNCHANGED <<bucketVars, waiting, channelVars, entryVars>>

\* MUTANTS of Swap: a thread that finds the lock free forgets that others may
\* wait; a thread takes a lock that has no waiters marked.
SwapOne(t) ==
    /\ At(t, "swap") /\ Runs(t)
    /\ word' = [word EXCEPT ![LockWord] = IF @ = 0 THEN 1 ELSE 2]
    /\ SetTop(t, IF word[LockWord] = 0 THEN Called(Top(t), "held", TRUE)
                 ELSE [Called(Top(t), "count", TRUE) EXCEPT !.w = LockWord, !.val = 2])
    /\ UNCHANGED <<bucketVars, waiting, channelVars, entryVars, ops>>
SwapUnmarked(t) ==
    /\ At(t, "swap") /\ Runs(t)
    /\ word' = [word EXCEPT ![LockWord] = 2]
    /\ SetTop(t, IF word[LockWord] # 2 THEN Called(Top(t), "held", TRUE)
                 ELSE [Called(Top(t), "count", TRUE) EXCEPT !.w = LockWord, !.val = 2])
    /\ UNCHANGED <<bucketVars, waiting, channelVars, entryVars, ops>>

\* The loop of lock: 2 into the word; a free lock is taken, else a wait for 2.
Swap(t) ==
    /\ At(t, "swap") /\ Runs(t)
    /\ word' = [word EXCEPT ![LockWord] = 2]
    /\ SetTop(t, IF word[LockWord] = 0 THEN Called(Top(t), "held", TRUE)
                 ELSE [Called(Top(t), "count", TRUE) EXCEPT !.w = LockWord, !.val = 2])
    /\ UNCHANGED <<bucketVars, waiting, channelVars, entryVars, ops>>

\* The guard drops: 0 into the word, and a wake of one when it said 2.
Unlock(t) ==
    /\ At(t, "held") /\ Runs(t)
    /\ word' = [word EXCEPT ![LockWord] = 0]
    /\ SetTop(t, IF word[LockWord] = 2
                 THEN [Called(Top(t), "wakeRead", TRUE) EXCEPT !.w = LockWord, !.left = 1]
                 ELSE Ended(Top(t), "none"))
    /\ UNCHANGED <<bucketVars, waiting, channelVars, entryVars, ops>>

----------------------------------------------------------------------------
(* Signals: the events from outside, and the delivery *)

\* A signal for the thread: the bit in its block, then a request of its entry.
Kill(t) ==
    /\ signals > 0 /\ signals' = signals - 1
    /\ pending' = [pending EXCEPT ![t] = TRUE]
    /\ entry' = [entry EXCEPT ![t] = TRUE]
    /\ UNCHANGED <<word, bucketVars, waiting, channelVars, stack, deferred, stop, asked, over, ops>>

\* Another thread stops the process for a fork.
Stop(t) ==
    /\ signals > 0 /\ signals' = signals - 1
    /\ stop' = [stop EXCEPT ![t] = TRUE]
    /\ entry' = [entry EXCEPT ![t] = TRUE]
    /\ UNCHANGED <<word, bucketVars, waiting, channelVars, stack, deferred, pending, asked, over, ops>>

\* A request of cancellation reaches the channel; for a thread at one of its
\* points (or with the asynchronous type) it asks for an entry too, which ends a
\* receive as thread_interrupt does.
Cancel(t, point) ==
    /\ signals > 0 /\ signals' = signals - 1
    /\ asked' = [asked EXCEPT ![t] = TRUE]
    /\ slot' = [slot EXCEPT ![t] = @ \cup {"CANCEL"}]
    /\ entry' = [entry EXCEPT ![t] = @ \/ point]
    /\ UNCHANGED <<word, bucketVars, waiting, note, timer, stack, deferred,
                   pending, stop, over, ops>>

\* A delivery of signals begins above what the thread was doing; in a process
\* that another thread stops it begins with park.
Delivery(t, native) ==
    [NoCall("handler") EXCEPT !.pc = IF stop[t] THEN "park" ELSE "check", !.native = native]

\* A receive that an entry interrupts ends with Interrupted; one that the
\* thread has not called yet is called after the entry.
Interrupted(t, inside) ==
    LET f == Top(t)
    IN  [stack[t] EXCEPT ![Len(stack[t])] =
            IF f.pc = "receive" /\ inside THEN Received(f, "entry") ELSE f]

\* The kernel enters the thread (dispatch): inside a critical section the entry
\* only marks itself deferred; one with nothing to do returns.
Enter(t, inside) ==
    /\ entry[t] /\ Top(t).pc \notin Preparing
    /\ Len(stack[t]) < MaxDepth
    /\ entry' = [entry EXCEPT ![t] = FALSE]
    /\ LET here == Interrupted(t, inside)
           idle == ~deferred[t] /\ ~stop[t] /\ ~asked[t] /\ ~pending[t]
       IN  \/ /\ Critical(t)
              /\ deferred' = [deferred EXCEPT ![t] = TRUE]
              /\ stack' = [stack EXCEPT ![t] = here]
           \/ /\ ~Critical(t)
              /\ stack' = [stack EXCEPT ![t] = IF idle THEN here
                                                ELSE Append(here, Delivery(t, TRUE))]
              /\ UNCHANGED deferred
    /\ UNCHANGED <<word, bucketVars, waiting, channelVars, pending, stop, asked, signals, over, ops>>

\* The end of the outermost section delivers the entry it deferred.
DeliverDeferred(t) ==
    /\ deferred[t] /\ ~Critical(t) /\ Len(stack[t]) < MaxDepth
    /\ deferred' = [deferred EXCEPT ![t] = FALSE]
    /\ stack' = [stack EXCEPT ![t] = Append(@, Delivery(t, FALSE))]
    /\ UNCHANGED <<word, bucketVars, waiting, channelVars, entry, pending, stop, asked, signals, over, ops>>

\* MUTANT of park: what the receives of the park took is not made good.
parkQuietly(t) ==
    /\ At(t, "park")
    /\ stop' = [stop EXCEPT ![t] = FALSE]
    /\ slot' = [slot EXCEPT ![t] = {}]
    /\ note' = [note EXCEPT ![t] = FALSE]
    /\ Goto(t, "check")
    /\ UNCHANGED <<word, bucketVars, waiting, timer, entry, deferred, pending, asked, signals, over,
                   ops>>

\* park: a thread of a stopped process receives on its channel until the stop
\* ends, whatever the channel held is gone, and the thread sends itself WAKE,
\* with CANCEL when a request of cancellation stands.
park(t) ==
    /\ At(t, "park")
    /\ stop' = [stop EXCEPT ![t] = FALSE]
    /\ slot' = [slot EXCEPT ![t] = {"WAKE"} \cup IF asked[t] THEN {"CANCEL"} ELSE {}]
    /\ note' = [note EXCEPT ![t] = FALSE]
    /\ Goto(t, "check")
    /\ UNCHANGED <<word, bucketVars, waiting, timer, entry, deferred, pending, asked, signals, over,
                   ops>>

\* A pending signal ends the wait of the thread before its handler runs.
abandon(t) ==
    /\ waiting' = [waiting EXCEPT ![t] = FALSE]
    /\ IF waiting[t] /\ addr[t] # NoWord
       THEN lock = Nobody /\ remove(t)
       ELSE UNCHANGED <<waiters, list, addr>>

Check(t) ==
    /\ At(t, "check")
    /\ IF pending[t] THEN abandon(t) ELSE UNCHANGED <<waiting, waiters, list, addr>>
    /\ SetTop(t, [Top(t) EXCEPT !.pc = "take", !.ended = pending[t] /\ waiting[t]])
    /\ UNCHANGED <<word, lock, owner, channelVars, entryVars, ops>>

\* The loop of deliver_signal: the next pending signal runs its handler.
Take(t) ==
    /\ At(t, "take") /\ pending[t]
    /\ deferred' = [deferred EXCEPT ![t] = FALSE]
    /\ pending' = [pending EXCEPT ![t] = FALSE]
    /\ over' = IF waiting[t] THEN over \cup {t} ELSE over
    /\ Goto(t, "handler")
    /\ UNCHANGED <<word, bucketVars, waiting, channelVars, entry, stop, asked, signals, ops>>

\* The handler returns to the loop.
Return(t) ==
    /\ At(t, "handler") /\ Runs(t)
    /\ SetTop(t, [NoCall("handler") EXCEPT !.pc = "take", !.ended = Top(t).ended,
                                             !.native = Top(t).native])
    /\ UNCHANGED <<word, bucketVars, waiting, channelVars, entryVars, ops>>

\* MUTANT of resume_wait: the wait is marked again, with nothing to end it.
resumeQuietly(t) ==
    /\ At(t, "take") /\ ~pending[t]
    /\ deferred' = [deferred EXCEPT ![t] = FALSE]
    /\ waiting' = [waiting EXCEPT ![t] = @ \/ Top(t).ended]
    /\ stack' = [stack EXCEPT ![t] = Front(@)]
    /\ UNCHANGED <<word, bucketVars, channelVars, entry, pending, stop, asked, signals, over, ops>>

\* With no signal left the delivery ends, and the wait it ended goes on as one
\* that was woken. A delivery that is no entry's leaves a signal whose handler
\* wants the interrupted context to an entry the thread asks for.
resume_wait(t) ==
    /\ At(t, "take")
    /\ \/ ~pending[t] /\ UNCHANGED entry
       \/ pending[t] /\ ~Top(t).native /\ entry' = [entry EXCEPT ![t] = TRUE]
    /\ deferred' = [deferred EXCEPT ![t] = FALSE]
    /\ waiting' = [waiting EXCEPT ![t] = @ \/ Top(t).ended]
    /\ slot' = [slot EXCEPT ![t] = IF Top(t).ended THEN @ \cup {"WAKE"} ELSE @]
    /\ stack' = [stack EXCEPT ![t] = Front(@)]
    /\ UNCHANGED <<word, bucketVars, note, timer, pending, stop, asked, signals, over, ops>>

----------------------------------------------------------------------------
\* The calls a thread may make, and the steps of a call it has made.
Call(t) ==
    \/ "lock" \in Uses[t] /\ CallLock(t)
    \/ "wake" \in Uses[t] /\ \E w \in AppWords : CallWake(t, w)
    \/ "wait" \in Uses[t] /\ \E w \in AppWords, dl \in Deadlines : CallWait(t, w, dl)

Step(t) ==
    \/ Count(t) \/ Compare(t) \/ Arm(t) \/ ReceiveBits(t) \/ ReceiveTimer(t)
    \/ CancelTimer(t) \/ Finish(t)
    \/ WakeRead(t) \/ WakeLock(t) \/ WakeOne(t) \/ WakeUnlock(t)
    \/ Swap(t) \/ Unlock(t)
    \/ (\E inside \in BOOLEAN : Enter(t, inside)) \/ DeliverDeferred(t) \/ park(t)
    \/ Check(t) \/ Take(t) \/ Return(t) \/ resume_wait(t)

Outer(t) ==
    /\ t \in Signalled
    /\ Kill(t) \/ Stop(t) \/ \E point \in BOOLEAN : Cancel(t, point)

Next == \E t \in Threads :
    Call(t) \/ Step(t) \/ Outer(t) \/ \E d \in 1..MaxDepth : Pass(t, d)

Spec == Init /\ [][Next]_vars

\* While some thread can run, some thread runs (the levels of the threads may
\* keep any one of them back), and time goes on; nothing makes a program call
\* or a signal come.
Running == \E t \in Threads : Step(t)
Time == \E t \in Threads, d \in 1..MaxDepth : Pass(t, d)
Fairness == WF_vars(Running) /\ WF_vars(Time)

LiveSpec == Spec /\ Fairness

----------------------------------------------------------------------------
(* Properties *)

Frames == UNION {{<<t, i>> : i \in 1..Len(stack[t])} : t \in Threads}
FrameAt(x) == stack[x[1]][x[2]]
Linked == {t \in Threads : addr[t] # NoWord}

\* A handler finds no node of its thread linked (signals.rs:2205, "A wait by
\* address of this thread ends before the first handler"; posix-sync, abandon).
\* A delivery looks once whether a signal pends, and takes signals later.
HandlerUnlinked == \A t \in Threads : At(t, "handler") => addr[t] = NoWord

\* Until a handler begins over a wait that was not ended, the bucket is exact:
\* the list holds each linked node once, higher levels first, and the count,
\* which a waker reads without the lock, is the linked nodes and the threads
\* about to compare, no more and no fewer (Bucket; insert, remove, futex_wait,
\* abandon, wake_local).
BucketExact == over = {} =>
    /\ Len(list) = Cardinality(Linked) /\ {list[i] : i \in 1..Len(list)} = Linked
    /\ \A i, j \in 1..Len(list) : i < j => Level[list[i]] >= Level[list[j]]
    /\ waiters = Cardinality(Linked)
                 + Cardinality({x \in Frames : FrameAt(x).pc = "compare"})

\* A thread in LayerLock::lock that is awake will put 2 into the word.
Awake(t) ==
    /\ Top(t).layer
    /\ Top(t).pc \in {"swap", "count", "compare", "cancel", "finish"}
       \/ (At(t, "receive") /\ slot[t] # {})

\* Until a handler begins over a wait that was not ended, no wakeup is lost: a
\* thread that sleeps in receive with nothing in its slot has its node linked,
\* and if its word has changed, a waker of the word is on its way, or, for the
\* lock of the layer, a thread that will mark the word again ("Wakeups are not
\* lost", posix-sync/src/lib.rs:26).
NoLostWake == over = {} =>
    \A t \in Threads : At(t, "receive") /\ slot[t] = {} =>
        LET f == Top(t) IN
        /\ addr[t] = f.w
        /\ \/ word[f.w] = f.val
           \/ \E x \in Frames : FrameAt(x).pc \in Waking /\ FrameAt(x).w = f.w
           \/ f.layer /\ \E u \in Threads : Awake(u)

\* A wake that counted a thread is never answered as a timeout: the deadline
\* of a wait may pass while a waker unlinks its node (futex_wait, 578-588).
WakeIsKept ==
    \A x \in Frames : FrameAt(x).pc \in Outside /\ FrameAt(x).got
        => FrameAt(x).out # "timedout"

\* One thread at most holds the lock of the layer, and the word says so while
\* one does (LayerLock).
LayerExclusive ==
    /\ Cardinality({x \in Frames : FrameAt(x).pc = "held"}) <= 1
    /\ \A x \in Frames : FrameAt(x).pc = "held" => word[LockWord] # 0

\* Whoever calls LayerLock::lock holds the lock some day, with signals, stops
\* and stale notifications in between (LayerLock::lock, LayerGuard::drop).
InLayer(t) == Top(t).layer /\ ~At(t, "held") /\ Top(t).pc \notin Waking
LockComes == \A t \in Threads : InLayer(t) ~> At(t, "held")

\* A wait with a deadline ends some day, whatever happened to its timer and to
\* the notification: a handler that waits with the same timer cancels it, a
\* park receives what the channel held (futex_wait, park, resume_wait). A
\* handler that began over the wait may cancel its timer for good.
DeadlineEnds ==
    \A t \in {u \in Threads : "wait" \in Uses[u]} :
        stack[t][1].dl ~> (~stack[t][1].dl \/ over # {})
============================================================================
