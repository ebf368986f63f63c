--------------------------- MODULE ProcessControl ---------------------------
(***************************************************************************)
(* Suspension, continuation and the first stages of the teardown of one    *)
(* process (kernel/src/process/control.rs, process/teardown.rs) with its   *)
(* one item in the queues of cleanup (kernel/src/cleanup.rs).  A portion   *)
(* takes the item off the queue of its CPU with no hold of OBJ, reads the  *)
(* stage, and only then enters its section: another CPU may suspend,       *)
(* continue or kill the process in between.  Threads belong to a CPU each; *)
(* another CPU asks that CPU by a command (kernel/src/cmd.rs).             *)
(*                                                                         *)
(* The stages from Stop to Notify are one stage here, "rest"; the wait for *)
(* the CPUs at the stage Threads (gate_seen) is what Qsbr promises of it:  *)
(* no CPU has a thread of the process at EL0.                              *)
(*                                                                         *)
(* Two histories are kept, since two races of the code break what its      *)
(* comments promise: `raced` says that a suspension took the level of a    *)
(* continuation whose portion ran, `again` that the teardown began with    *)
(* the thread that ended the process still among those it is to stop.      *)
(***************************************************************************)
EXTENDS Integers, FiniteSets

CONSTANTS
    CPUs,
    Threads,
    NoThread,
    Home,             \* the CPU of each thread
    UNPARK_PORTION,   \* threads one portion continues at most
    THREADS_PORTION   \* threads one portion stops at most

ASSUME HomeAssumption == Home \in [Threads -> CPUs] /\ NoThread \notin Threads
ASSUME ThreadsAssumption == IsFiniteSet(Threads)
ASSUME PortionAssumption ==
    UNPARK_PORTION \in Nat \ {0} /\ THREADS_PORTION \in Nat \ {0}

VARIABLES
    stage,     \* Process::stage: "whole", "threads", "rest", "shell", "gone"
    gate,      \* Process::gate: the flags SUSPENDED and ENDING that are set
    parked,    \* Process::parked: the list of parked threads
    resume,    \* Process::resume_level: 0, or 1 for any level
    refs,      \* Process::refs
    handles,   \* handles to the process among them: 0 or 1
    todo,      \* the threads from threads_next on: those to stop
    queue,     \* the CPU in whose queue the item stands, or none
    where,     \* each thread: "ready", "cpu", "parked", "dead", "clean", or
               \* "lost": dead, and nobody lets its last reference go
    posted,    \* the commands on their way to the CPU of each thread; UNHELD is
               \* an EXIT whose word hands no reference over
    cur,       \* the thread of the process each CPU selected
    pc,        \* what each CPU does
    failed,    \* the assertion or the promise that broke, or "none": the
               \* model follows the kernel no further
    raced,     \* history: a suspension met a portion of the continuation
    again      \* history: a thread that ended is to be stopped once more

vars == <<stage, gate, parked, resume, refs, handles, todo, queue, where, posted,
          cur, pc, failed, raced, again>>
process == <<stage, gate, resume, refs, handles, todo, queue>>
threads == <<parked, where, posted>>
cpus == <<cur, pc>>
history == <<raced, again>>

\* The threads in the list of a whole process: thread_exit takes its thread out.
Listed == {t \in Threads : where[t] \notin {"dead", "clean", "lost"}}

\* The threads that hold a reference to the process.
Holders == {t \in Threads : where[t] # "clean"}

\* thread::is_held is false: the thread ended, or its end is on its way.
Ended(t) == where[t] \in {"dead", "clean", "lost"} \/ "EXIT" \in posted[t]

\* A portion took the item off its queue and has not entered its section.
Running == \E c \in CPUs : pc[c] \in {"taken", "continue", "clean"}

Queued == queue # {}

\* cleanup::enqueue and requeue; the queue asserts that the item is in none.
Enqueue(c) ==
    IF Queued THEN failed' = "ItemQueuedTwice" /\ UNCHANGED queue
    ELSE queue' = {c} /\ UNCHANGED failed

Init ==
    /\ stage = "whole" /\ gate = {} /\ parked = {} /\ resume = 0
    /\ handles = 1
    /\ refs = 1 + Cardinality(Threads)
    /\ todo = {}
    /\ queue = {}
    /\ where = [t \in Threads |-> "ready"]
    /\ posted = [t \in Threads |-> {}]
    /\ cur = [c \in CPUs |-> NoThread]
    /\ pc = [c \in CPUs |-> "kernel"]
    /\ failed = "none" /\ raced = FALSE /\ again = FALSE

\* CPU `c` is inside the kernel, outside any section, with nothing begun.
InKernel(c) == failed = "none" /\ pc[c] = "kernel"

-----------------------------------------------------------------------------
(* teardown::begin and the release of a reference.                         *)

\* Mutant: a kill enqueues the item of a continuation whose portion runs.
BeginQueues(c, S, gone) ==
    /\ todo' = S
    /\ stage' = IF S = {} THEN "rest" ELSE "threads"
    /\ resume' = 0
    /\ refs' = refs - gone + (IF resume = 0 THEN 1 ELSE 0)
    /\ IF resume # 0 /\ Queued THEN queue' = {c} /\ UNCHANGED failed ELSE Enqueue(c)

\* teardown::begin on CPU `c` with the threads `S` to stop; `gone` references
\* went with the call.  A queued continuation leaves its item and its
\* reference to the teardown; one whose portion runs keeps both.
Begin(c, S, gone) ==
    /\ todo' = S
    /\ stage' = IF S = {} THEN "rest" ELSE "threads"
    /\ resume' = 0
    /\ refs' = refs - gone + (IF resume = 0 THEN 1 ELSE 0)
    /\ IF resume = 0 THEN Enqueue(c)
       ELSE queue' = (IF Queued THEN {c} ELSE {}) /\ UNCHANGED failed

\* process::release of one reference: the last one ends a whole process, and
\* queues a shell.  `S` are the threads to stop that the call leaves.
Release(c, S) ==
    IF refs > 1 THEN refs' = refs - 1 /\ todo' = S /\ UNCHANGED <<stage, resume, queue, failed>>
    ELSE IF stage = "whole" THEN Begin(c, {}, 1)
    ELSE /\ refs' = 0
         /\ Enqueue(c)
         /\ todo' = S
         /\ UNCHANGED <<stage, resume>>

-----------------------------------------------------------------------------
(* process_control and process_kill, through a handle on any CPU.          *)

\* Mutant: a continuation cancelled in the queue keeps its reference.
SuspendLeaks(c) ==
    /\ InKernel(c)
    /\ handles > 0 /\ stage = "whole" /\ "SUSPENDED" \notin gate
    /\ gate' = gate \union {"SUSPENDED"}
    /\ resume' = 0
    /\ queue' = IF resume # 0 THEN {} ELSE queue
    /\ raced' = (raced \/ (resume # 0 /\ ~Queued))
    /\ UNCHANGED <<stage, refs, handles, todo, threads, cpus, failed, again>>

\* control(suspend): the gate goes up and the continuation is cancelled; of
\* one whose portion runs only resume_level is cleared (cancel).
Suspend(c) ==
    /\ InKernel(c)
    /\ handles > 0 /\ stage = "whole" /\ "SUSPENDED" \notin gate
    /\ gate' = gate \union {"SUSPENDED"}
    /\ resume' = 0
    /\ IF resume # 0 /\ Queued
       THEN queue' = {} /\ refs' = refs - 1
       ELSE UNCHANGED <<queue, refs>>
    /\ raced' = (raced \/ (resume # 0 /\ ~Queued))
    /\ UNCHANGED <<stage, handles, todo, threads, cpus, failed, again>>

\* control(continue): the gate goes down; with threads parked and no
\* continuation, one is queued with a reference of its own.
Continue(c) ==
    /\ InKernel(c)
    /\ handles > 0 /\ stage = "whole" /\ "SUSPENDED" \in gate
    /\ gate' = gate \ {"SUSPENDED"}
    /\ IF parked # {} /\ resume = 0
       THEN resume' = 1 /\ refs' = refs + 1 /\ Enqueue(c)
       ELSE UNCHANGED <<resume, refs, queue, failed>>
    /\ UNCHANGED <<stage, handles, todo, threads, cpus, history>>

\* process::end through a handle: the gate says ENDING, the teardown begins.
Kill(c) ==
    /\ InKernel(c)
    /\ handles > 0 /\ stage = "whole"
    /\ gate' = gate \union {"ENDING"}
    /\ Begin(c, Listed, 0)
    /\ UNCHANGED <<handles, threads, cpus, history>>

\* The handle is closed.
CloseHandle(c) ==
    /\ InKernel(c)
    /\ handles > 0
    /\ handles' = handles - 1
    /\ Release(c, todo)
    /\ UNCHANGED <<gate, threads, cpus, history>>

\* thread_set_priority of a thread of another CPU (sched::set_priority): LEVEL
\* goes to its CPU.
SetPriority(c, t) ==
    /\ InKernel(c)
    /\ Home[t] # c /\ ~Ended(t)
    /\ posted' = [posted EXCEPT ![t] = @ \union {"LEVEL"}]
    /\ UNCHANGED <<process, parked, where, cpus, failed, history>>

-----------------------------------------------------------------------------
(* Threads: the way to EL0 and back, and the commands of other CPUs.       *)

\* thread::run of a ready thread: park_if_suspended reads the gate without a
\* lock; a gate that is down lets it to EL0.
Select(c, t) ==
    /\ InKernel(c)
    /\ Home[t] = c /\ where[t] = "ready"
    /\ cur' = [cur EXCEPT ![c] = t]
    /\ where' = [where EXCEPT ![t] = "cpu"]
    /\ pc' = [pc EXCEPT ![c] = IF gate = {} THEN "el0" ELSE "park"]
    /\ UNCHANGED <<process, parked, posted, failed, history>>

\* Mutant: the thread parks though the gate went down before the section.
ParkBlindly(c) ==
    /\ failed = "none" /\ pc[c] = "park"
    /\ where' = [where EXCEPT ![cur[c]] = "parked"]
    /\ parked' = parked \union {cur[c]}
    /\ cur' = [cur EXCEPT ![c] = NoThread]
    /\ pc' = [pc EXCEPT ![c] = "kernel"]
    /\ UNCHANGED <<process, posted, failed, history>>

\* park_selected: the gate is read again in the section.
ParkSelected(c) ==
    /\ failed = "none" /\ pc[c] = "park"
    /\ IF gate = {}
       THEN pc' = [pc EXCEPT ![c] = "el0"] /\ UNCHANGED <<parked, where, cur>>
       ELSE /\ where' = [where EXCEPT ![cur[c]] = "parked"]
            /\ parked' = parked \union {cur[c]}
            /\ cur' = [cur EXCEPT ![c] = NoThread]
            /\ pc' = [pc EXCEPT ![c] = "kernel"]
    /\ UNCHANGED <<process, posted, failed, history>>

\* A call or an interrupt: the thread is ready again.
Enter(c) ==
    /\ failed = "none" /\ pc[c] = "el0"
    /\ where' = [where EXCEPT ![cur[c]] = "ready"]
    /\ cur' = [cur EXCEPT ![c] = NoThread]
    /\ pc' = [pc EXCEPT ![c] = "kernel"]
    /\ UNCHANGED <<process, parked, posted, failed, history>>

\* sched::exit of a thread on its own CPU; one with commands on their way
\* leaves its last reference to the command EXIT.
ExitHere(t) ==
    /\ where' = [where EXCEPT ![t] = "dead"]
    /\ posted' = [posted EXCEPT ![t] = IF @ = {} THEN {} ELSE @ \union {"EXIT"}]

\* thread_exit: the thread leaves the list; the last one ends a process that
\* lives.
ThreadExit(c) ==
    /\ failed = "none" /\ pc[c] = "el0"
    /\ ExitHere(cur[c])
    /\ IF stage = "whole" /\ Listed = {cur[c]}
       THEN gate' = gate \union {"ENDING"} /\ Begin(c, {}, 0)
       ELSE todo' = todo \ {cur[c]} /\ UNCHANGED <<stage, gate, resume, refs, queue, failed>>
    /\ cur' = [cur EXCEPT ![c] = NoThread]
    /\ pc' = [pc EXCEPT ![c] = "kernel"]
    /\ UNCHANGED <<handles, parked, history>>

\* process_exit, a fault, or process_kill of one's own process (stop): the
\* thread leaves the scheduler and stays in the list.  begin passes over it
\* where it heads the list; anywhere else it is among those to stop.
ProcessExit(c, S) ==
    /\ failed = "none" /\ pc[c] = "el0" /\ stage = "whole"
    /\ S = Listed \ {cur[c]} \/ (S = Listed /\ S # {cur[c]})
    /\ ExitHere(cur[c])
    /\ gate' = gate \union {"ENDING"}
    /\ Begin(c, S, 0)
    /\ again' = (cur[c] \in S)
    /\ cur' = [cur EXCEPT ![c] = NoThread]
    /\ pc' = [pc EXCEPT ![c] = "kernel"]
    /\ UNCHANGED <<handles, parked, raced>>

\* What the flags `F` of a thread make of it: serve_unpark, serve_level,
\* serve_exit, in this order.
Served(t, F) ==
    IF "UNHELD" \in F THEN "lost"
    ELSE IF "EXIT" \in F THEN "dead"
    ELSE IF "UNPARK" \in F /\ ~Ended(t) THEN "ready"
    ELSE where[t]

\* cmd::drain on the CPU of the thread.
Serve(c, t) ==
    /\ InKernel(c)
    /\ Home[t] = c /\ posted[t] # {}
    /\ posted' = [posted EXCEPT ![t] = {}]
    /\ where' = [where EXCEPT ![t] = Served(t, posted[t])]
    /\ parked' = IF posted[t] \cap {"EXIT", "UNHELD"} # {} THEN parked \ {t} ELSE parked
    /\ UNCHANGED <<process, cpus, failed, history>>

\* The portion of a dead thread (thread::clean): it leaves the list, and its
\* reference to the process goes.
CleanThread(c, t) ==
    /\ InKernel(c)
    /\ where[t] = "dead" /\ posted[t] = {}
    /\ where' = [where EXCEPT ![t] = "clean"]
    /\ Release(c, todo \ {t})
    /\ UNCHANGED <<gate, handles, parked, posted, cpus, history>>

-----------------------------------------------------------------------------
(* Portions of cleanup.                                                    *)

\* cleanup::portion: the item leaves the queue of this CPU, under the lock of
\* that queue alone.  A second portion while one runs breaks the promise on
\* which clean and cancel work without a lock.
Take(c) ==
    /\ InKernel(c)
    /\ c \in queue
    /\ queue' = {}
    /\ pc' = [pc EXCEPT ![c] = "taken"]
    /\ failed' = IF Running THEN "SecondPortion" ELSE failed
    /\ UNCHANGED <<stage, gate, resume, refs, handles, todo, threads, cur, history>>

\* teardown::clean reads the stage before its section.
ReadStage(c) ==
    /\ failed = "none" /\ pc[c] = "taken"
    /\ pc' = [pc EXCEPT ![c] = IF stage = "whole" THEN "continue" ELSE "clean"]
    /\ UNCHANGED <<process, threads, cur, failed, history>>

\* The sets of threads one portion serves, of those it finds.
Portions(S, n) ==
    {P \in SUBSET S : Cardinality(P) = (IF Cardinality(S) < n THEN Cardinality(S) ELSE n)}

\* sched::unpark of threads that left the list: here, or by a command.
Unpark(c, P) ==
    /\ where' = [t \in Threads |-> IF t \in P /\ Home[t] = c THEN "ready" ELSE where[t]]
    /\ posted' = [t \in Threads |->
                    IF t \in P /\ Home[t] # c THEN posted[t] \union {"UNPARK"} ELSE posted[t]]
    /\ parked' = parked \ P

\* Mutant: the portion of an ended process drops the item.
EndedDrops(c) ==
    /\ failed = "none" /\ pc[c] = "continue" /\ stage # "whole"
    /\ pc' = [pc EXCEPT ![c] = "kernel"]
    /\ UNCHANGED <<process, threads, cur, failed, history>>

\* control::portion found the process ended: the item goes back for the
\* teardown, with the reference of the continuation.
PortionEnded(c) ==
    /\ failed = "none" /\ pc[c] = "continue" /\ stage # "whole"
    /\ Enqueue(c)
    /\ pc' = [pc EXCEPT ![c] = "kernel"]
    /\ UNCHANGED <<stage, gate, resume, refs, handles, todo, threads, cur, history>>

\* control::portion asserts that the continuation has a reference.
PortionAsserts(c) ==
    /\ failed = "none" /\ pc[c] = "continue" /\ stage = "whole" /\ resume = 0
    /\ failed' = "ContinuationWithoutReference"
    /\ UNCHANGED <<process, threads, cpus, history>>

\* control::portion with the gate down and more parked threads than it
\* serves: the continuation is queued again.
PortionLeft(c, P) ==
    /\ failed = "none" /\ pc[c] = "continue" /\ stage = "whole" /\ resume # 0
    /\ gate = {} /\ P # parked
    /\ Unpark(c, P)
    /\ Enqueue(c)
    /\ pc' = [pc EXCEPT ![c] = "kernel"]
    /\ UNCHANGED <<stage, gate, resume, refs, handles, todo, cur, history>>

\* Mutant: the last portion forgets to clear resume_level.
DoneUncleared(c, P) ==
    /\ failed = "none" /\ pc[c] = "continue" /\ stage = "whole" /\ resume # 0
    /\ gate = {} => P = parked
    /\ IF gate = {} THEN Unpark(c, P) ELSE UNCHANGED threads
    /\ refs' = refs - 1
    /\ pc' = [pc EXCEPT ![c] = "kernel"]
    /\ UNCHANGED <<stage, gate, resume, queue, handles, todo, cur, failed, history>>

\* control::portion in its last portion: the list is empty, or a suspension
\* holds the rest; the reference of the continuation goes.
PortionDone(c, P) ==
    /\ failed = "none" /\ pc[c] = "continue" /\ stage = "whole" /\ resume # 0
    /\ gate = {} => P = parked
    /\ IF gate = {} THEN Unpark(c, P) ELSE UNCHANGED threads
    /\ resume' = 0
    /\ IF refs > 1 THEN refs' = refs - 1 /\ UNCHANGED <<stage, todo, queue, failed>>
       ELSE todo' = {} /\ stage' = "rest" /\ refs' = 1 /\ Enqueue(c)
    /\ pc' = [pc EXCEPT ![c] = "kernel"]
    /\ UNCHANGED <<gate, handles, cur, history>>

\* The stage Threads waits until no thread of the process is at EL0.
GateUnseen(c) ==
    /\ failed = "none" /\ pc[c] = "clean" /\ stage = "threads"
    /\ \E d \in CPUs : pc[d] = "el0"
    /\ Enqueue(c)
    /\ pc' = [pc EXCEPT ![c] = "kernel"]
    /\ UNCHANGED <<stage, gate, resume, refs, handles, todo, threads, cur, history>>

\* sched::exit in stop_threads of a thread that ended before: with commands on
\* their way the word of its EXIT is written anew, with no reference to hand
\* over; of another CPU and with its number given back, it cannot be asked.
ExitAgain(c, t) == Ended(t) /\ posted[t] # {}
Unaskable(c, t) == Ended(t) /\ posted[t] = {} /\ Home[t] # c

\* The commands of the threads after sched::exit of those in `P`.
Asked(c, P) ==
    [t \in Threads |->
        IF t \notin P THEN posted[t]
        ELSE IF ExitAgain(c, t) THEN (posted[t] \ {"EXIT"}) \union {"UNHELD"}
        ELSE IF ~Ended(t) /\ (Home[t] # c \/ posted[t] # {}) THEN posted[t] \union {"EXIT"}
        ELSE posted[t]]

\* Mutant: the stage Threads does not wait for the CPUs.
StopUnseen(c, P) ==
    /\ failed = "none" /\ pc[c] = "clean" /\ stage = "threads"
    /\ \A t \in P : ~Unaskable(c, t)
    /\ todo' = todo \ P
    /\ stage' = IF todo = P THEN "rest" ELSE "threads"
    /\ LET here == {t \in P : Home[t] = c /\ ~Ended(t)} IN
        /\ where' = [t \in Threads |-> IF t \in here THEN "dead" ELSE where[t]]
        /\ parked' = parked \ here
    /\ posted' = Asked(c, P)
    /\ Enqueue(c)
    /\ pc' = [pc EXCEPT ![c] = "kernel"]
    /\ UNCHANGED <<gate, resume, refs, handles, cur, history>>

\* stop_threads: the threads of a portion leave the scheduler, here or by a
\* command to their CPU; then the next stage.
StopThreads(c, P) ==
    /\ failed = "none" /\ pc[c] = "clean" /\ stage = "threads"
    /\ \A d \in CPUs : pc[d] # "el0"
    /\ \A t \in P : ~Unaskable(c, t)
    /\ todo' = todo \ P
    /\ stage' = IF todo = P THEN "rest" ELSE "threads"
    /\ LET here == {t \in P : Home[t] = c /\ ~Ended(t)} IN
        /\ where' = [t \in Threads |-> IF t \in here THEN "dead" ELSE where[t]]
        /\ parked' = parked \ here
    /\ posted' = Asked(c, P)
    /\ Enqueue(c)
    /\ pc' = [pc EXCEPT ![c] = "kernel"]
    /\ UNCHANGED <<gate, resume, refs, handles, cur, history>>

\* stop_threads reaches a thread that cannot be asked: cmd::ask_exit expects
\* its number (thread::index).
StopPanics(c, P) ==
    /\ failed = "none" /\ pc[c] = "clean" /\ stage = "threads"
    /\ \A d \in CPUs : pc[d] # "el0"
    /\ \E t \in P : Unaskable(c, t)
    /\ failed' = "EndedThreadHasNoNumber"
    /\ UNCHANGED <<process, threads, cpus, history>>

\* The stages from Stop to Notify; the reference of the queue goes with the
\* last, which queues the shell when nothing else holds it.
RestStages(c) ==
    /\ failed = "none" /\ pc[c] = "clean" /\ stage = "rest"
    /\ stage' = "shell"
    /\ refs' = refs - 1
    /\ IF refs = 1 THEN Enqueue(c) ELSE UNCHANGED <<queue, failed>>
    /\ pc' = [pc EXCEPT ![c] = "kernel"]
    /\ UNCHANGED <<gate, resume, handles, todo, threads, cur, history>>

\* The portion of the shell gives its memory back.
FreeShell(c) ==
    /\ failed = "none" /\ pc[c] = "clean" /\ stage = "shell"
    /\ stage' = "gone"
    /\ pc' = [pc EXCEPT ![c] = "kernel"]
    /\ UNCHANGED <<gate, resume, refs, handles, todo, queue, threads, cur, failed, history>>

-----------------------------------------------------------------------------
Portion(c) ==
    \/ ReadStage(c) \/ PortionEnded(c) \/ PortionAsserts(c)
    \/ \E P \in Portions(parked, UNPARK_PORTION) : PortionLeft(c, P) \/ PortionDone(c, P)
    \/ GateUnseen(c)
    \/ \E P \in Portions(todo, THREADS_PORTION) : StopThreads(c, P) \/ StopPanics(c, P)
    \/ RestStages(c) \/ FreeShell(c)

Control(c) ==
    \/ Suspend(c) \/ Continue(c) \/ Kill(c) \/ CloseHandle(c)
    \/ \E t \in Threads : SetPriority(c, t)

User(c) ==
    \/ Enter(c) \/ ThreadExit(c)
    \/ \E S \in SUBSET Threads : ProcessExit(c, S)

Own(c) ==
    \/ Take(c) \/ Portion(c) \/ ParkSelected(c)
    \/ \E t \in Threads : Serve(c, t) \/ CleanThread(c, t)

Next ==
    \E c \in CPUs :
        Control(c) \/ User(c) \/ Own(c) \/ \E t \in Threads : Select(c, t)

Spec == Init /\ [][Next]_vars

\* A CPU in the kernel goes on by itself, and one that is rung comes in from
\* EL0; commands are served and cleanup runs although the CPU keeps finding
\* threads to run (a portion wins over threads of its level).
Fairness ==
    /\ \A c \in CPUs :
        /\ WF_vars(Portion(c)) /\ WF_vars(ParkSelected(c)) /\ WF_vars(Enter(c))
        /\ SF_vars(Take(c))
    /\ \A t \in Threads :
        /\ SF_vars(Serve(Home[t], t))
        /\ SF_vars(\E c \in CPUs : CleanThread(c, t))

LiveSpec == Spec /\ Fairness

-----------------------------------------------------------------------------
(* The type invariant.                                                     *)
TypeOK ==
    /\ stage \in {"whole", "threads", "rest", "shell", "gone"}
    /\ gate \in SUBSET {"SUSPENDED", "ENDING"}
    /\ parked \in SUBSET Threads /\ todo \in SUBSET Threads
    /\ resume \in {0, 1}
    /\ refs \in Int /\ handles \in {0, 1}
    /\ queue \in SUBSET CPUs
    /\ where \in [Threads -> {"ready", "cpu", "parked", "dead", "clean", "lost"}]
    /\ posted \in [Threads -> SUBSET {"UNPARK", "LEVEL", "EXIT", "UNHELD"}]
    /\ cur \in [CPUs -> Threads \union {NoThread}]
    /\ pc \in [CPUs -> {"kernel", "park", "el0", "taken", "continue", "clean"}]
    /\ failed \in {"none", "ContinuationWithoutReference", "ItemQueuedTwice", "SecondPortion",
                   "EndedThreadHasNoNumber"}
    /\ raced \in BOOLEAN /\ again \in BOOLEAN

\* The item is in one place (cleanup::Item: "An object has one item: it is
\* queued again only after its first portion took it out"): in a queue or in
\* one portion, through every race of continue and kill with the portion that
\* took it, until a suspension meets that portion.  And it is not lost: a
\* continuation and a teardown always have theirs, and so has a shell nothing
\* refers to.
ItemOnce ==
    raced \/
        /\ Queued => ~Running
        /\ \A c, d \in CPUs : c \in queue /\ d \in queue => c = d
        /\ \A c, d \in CPUs : pc[c] \in {"taken", "continue", "clean"}
                               /\ pc[d] \in {"taken", "continue", "clean"} => c = d
        /\ (resume # 0 \/ stage \in {"threads", "rest"} \/ (stage = "shell" /\ refs = 0))
            => Queued \/ Running

\* What refers to the process: its handles, its threads that were not cleaned,
\* and the item while it is a continuation or a teardown.
Referring ==
    handles + Cardinality(Holders)
        + (IF resume # 0 \/ stage \in {"threads", "rest"} THEN 1 ELSE 0)

\* The process never goes while something refers to it.  And no reference is
\* left over: the item of a continuation hands its reference to the teardown
\* exactly once, until a suspension meets the continuation's portion.
References ==
    /\ refs >= Referring
    /\ raced \/ refs = Referring

\* The assertions and promises of the code hold but for two races.  A
\* continuation without a reference, an item queued twice and a second portion
\* come of a suspension that met a portion (cancel clears resume_level of a
\* continuation it leaves to its portion).  An exit asked of a thread without
\* a number, and a thread whose last reference nobody lets go, come of a
\* teardown that began with the thread that called it deeper in the list than
\* its head ("A thread that ended before stays as it is", sched::exit).
AssertionsHold ==
    /\ failed \in {"ContinuationWithoutReference", "ItemQueuedTwice", "SecondPortion"} => raced
    /\ failed = "EndedThreadHasNoNumber" \/ (\E t \in Threads : where[t] = "lost") => again

\* No parked thread is forgotten (control: the look at the list and the end of
\* the continuation are one section): with the gate down, a thread the
\* scheduler holds parked is on its way, by a continuation or by a command.
\* And the list holds parked threads alone, none that ended and whose memory
\* goes (control::unlist).
NobodyForgotten ==
    /\ \A t \in Threads : where[t] = "parked" =>
        /\ t \in parked \/ posted[t] \cap {"UNPARK", "EXIT"} # {}
        /\ gate = {} /\ t \in parked => resume # 0
    /\ \A t \in parked : where[t] = "parked"

\* "Nothing leaves the scheduler while a thread of the process may still run at
\* EL0 on another CPU" (stop_threads), and none enters EL0 afterwards.
StoppedForGood ==
    /\ todo # {} => stage = "threads"
    /\ stage \in {"rest", "shell", "gone"} => \A c \in CPUs : pc[c] # "el0"
    /\ \A t \in Threads : posted[t] \cap {"EXIT", "UNHELD"} # {} =>
        \A c \in CPUs : pc[c] = "el0" => cur[c] # t

\* A thread that is parked continues once the gate is down for good, and ends
\* once the process ends, unless an assertion stops the kernel
\* (AssertionsHold says when).
ParkedGoesOn ==
    \A t \in Threads :
        where[t] = "parked" ~> (where[t] # "parked" \/ "SUSPENDED" \in gate \/ failed # "none")

\* A process that ended is torn down to its shell, unless an assertion stops
\* the kernel.
TornDown == stage = "threads" ~> (stage \in {"shell", "gone"} \/ failed # "none")

\* control::portion asserts that a continuation has a reference.
ContinuationHasReference == failed # "ContinuationWithoutReference"
=============================================================================
