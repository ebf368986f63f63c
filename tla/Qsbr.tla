------------------------------- MODULE Qsbr -------------------------------
(***************************************************************************)
(* Quiescent-state reclamation (kcore/src/qsbr.rs, kernel/src/qsbr.rs) and *)
(* the way out of the kernel that drives it (kernel/src/sched.rs,          *)
(* exit_loop and sleep).  Each access to a word that CPUs share (the epoch *)
(* counter, a mark, PENDING, a gate, a link) is a step of its own; the     *)
(* marks and the counter are SeqCst in the source, so the steps interleave *)
(* and are not reordered.                                                  *)
(*                                                                         *)
(* Two uses of the period are modelled: objects that are unlinked, retired *)
(* and freed (the bindings of interrupt lines), and the wait of a          *)
(* suspension for every CPU to have been in the kernel since the gate of   *)
(* the process went up (begin_wait, passed, end_wait).                     *)
(***************************************************************************)
EXTENDS Integers, Sequences, FiniteSets

CONSTANTS
    CPUs,
    Objects,
    MaxEpoch,       \* bound: the epochs given out
    RECLAIM_BATCH   \* the objects one section frees at most

ASSUME EpochAssumption == MaxEpoch \in Nat \ {0}
ASSUME ObjectsAssumption == IsFiniteSet(Objects)
ASSUME BatchAssumption == RECLAIM_BATCH \in Nat \ {0}

\* u64::MAX in the source: past every epoch.
IDLE == MaxEpoch + 1

VARIABLES
    epoch,      \* Grace::epoch
    seen,       \* Grace::seen, the mark of each CPU
    pending,    \* PENDING
    retired,    \* Local::retired of each CPU, oldest first
    ep,         \* Deferred::epoch of each object
    life,       \* where each object is: see Reclamation
    held,       \* the objects a CPU has a pointer to, read without a lock
    gate,       \* Process::gate of one process: its threads stop before EL0
                \* while it is not "open"; "quiet" once the suspension that
                \* raised it was reported complete
    wait,       \* the epoch a suspension waits for; 0 for none
    user,       \* the CPUs that have a thread of that process at EL0
    rung,       \* the CPUs with an SGI or a bell pending (idle::ring)
    pc,         \* where each CPU is
    got,        \* the epoch a CPU loaded and has not stored yet
    obj,        \* the object a CPU is retiring, at "append"
    scan,       \* the CPUs whose marks Grace::passed has read so far
    batch       \* the objects reclaim took off its list, not freed yet

vars == <<epoch, seen, pending, retired, ep, life, held, gate, wait,
          user, rung, pc, got, obj, scan, batch>>
grace == <<epoch, seen>>
lists == <<retired, ep, life>>
waits == <<gate, wait>>
local == <<got, obj, scan, batch>>

PCs == {"el0", "kernel", "append", "wait1", "wait2", "look", "top", "load",
        "store", "scan", "free", "go", "idle", "wake"}

To(c, where) == pc' = [pc EXCEPT ![c] = where]

\* Grace::cpu_passed
CpuPassed(c, e) == seen[c] >= e

\* kick: every other CPU that has not passed `e` is rung.
Kick(me, e) ==
    rung' = rung \union {c \in CPUs \ {me} : ~CpuPassed(c, e)}

\* A suspension raised the gate and has not taken its epoch yet.
Beginning == \E c \in CPUs : pc[c] \in {"wait1", "wait2"}

\* The bound on the epochs: one is left for a suspension that is beginning.
Room == epoch + (IF Beginning THEN 1 ELSE 0) < MaxEpoch

-----------------------------------------------------------------------------
(* The CPUs start in the kernel, quiescent for nothing.                    *)
Init ==
    /\ epoch = 1
    /\ seen = [c \in CPUs |-> 0]
    /\ pending = 0
    /\ retired = [c \in CPUs |-> <<>>]
    /\ ep = [o \in Objects |-> 0]
    /\ life = [o \in Objects |-> "free"]
    /\ held = [c \in CPUs |-> {}]
    /\ gate = "open"
    /\ wait = 0
    /\ user = {}
    /\ rung = {}
    /\ pc = [c \in CPUs |-> "kernel"]
    /\ got = [c \in CPUs |-> 0]
    /\ obj = [c \in CPUs |-> {}]
    /\ scan = [c \in CPUs |-> {}]
    /\ batch = [c \in CPUs |-> {}]

-----------------------------------------------------------------------------
(* In the kernel: calls, handlers of interrupts and portions of cleanup.   *)

\* An entry from EL0: a call or fault of the thread, or an interrupt.
Enter(c) ==
    /\ pc[c] = "el0"
    /\ To(c, "kernel")
    /\ user' = user \ {c}
    /\ rung' = rung \ {c}
    /\ UNCHANGED <<grace, pending, lists, held, waits, local>>

\* irq::bind: an object in free memory, and the link that names it.
Link(c, o) ==
    /\ pc[c] = "kernel"
    /\ life[o] = "free"
    /\ life' = [life EXCEPT ![o] = "linked"]
    /\ UNCHANGED <<grace, pending, retired, ep, held, waits, user, rung, pc, local>>

\* irq::line_binding: the link is read without a lock.
Read(c, o) ==
    /\ pc[c] = "kernel"
    /\ life[o] = "linked"
    /\ held' = [held EXCEPT ![c] = @ \union {o}]
    /\ UNCHANGED <<grace, pending, lists, waits, user, rung, pc, local>>

\* irq::release_handle: the last handle takes the object out of its link.
Unlink(c, o) ==
    /\ pc[c] = "kernel"
    /\ life[o] = "linked"
    /\ life' = [life EXCEPT ![o] = "unlinked"]
    /\ UNCHANGED <<grace, pending, retired, ep, held, waits, user, rung, pc, local>>

\* Mutant: the object gets the epoch before its retirement.
RetireOldEpoch(c, o) ==
    /\ pc[c] = "kernel"
    /\ life[o] = "unlinked"
    /\ Room
    /\ epoch' = epoch + 1
    /\ ep' = [ep EXCEPT ![o] = epoch]
    /\ life' = [life EXCEPT ![o] = "retired"]
    /\ obj' = [obj EXCEPT ![c] = {o}]
    /\ To(c, "append")
    /\ UNCHANGED <<seen, pending, retired, held, waits, user, rung, got, scan, batch>>

\* retire: Grace::retire moves the counter on ...
RetireEpoch(c, o) ==
    /\ pc[c] = "kernel"
    /\ life[o] = "unlinked"
    /\ Room
    /\ epoch' = epoch + 1
    /\ ep' = [ep EXCEPT ![o] = epoch + 1]
    /\ life' = [life EXCEPT ![o] = "retired"]
    /\ obj' = [obj EXCEPT ![c] = {o}]
    /\ To(c, "append")
    /\ UNCHANGED <<seen, pending, retired, held, waits, user, rung, got, scan, batch>>

\* Mutant: no CPU is asked to enter the kernel.
RetireUnkicked(c) ==
    /\ pc[c] = "append"
    /\ \E o \in obj[c] : retired' = [retired EXCEPT ![c] = Append(@, o)]
    /\ pending' = pending + 1
    /\ obj' = [obj EXCEPT ![c] = {}]
    /\ To(c, "kernel")
    /\ UNCHANGED <<grace, ep, life, held, waits, user, rung, got, scan, batch>>

\* ... and the node goes to the tail of this CPU's list; then the kick.
RetireAppend(c) ==
    /\ pc[c] = "append"
    /\ \E o \in obj[c] :
         /\ retired' = [retired EXCEPT ![c] = Append(@, o)]
         /\ Kick(c, ep[o])
    /\ pending' = pending + 1
    /\ obj' = [obj EXCEPT ![c] = {}]
    /\ To(c, "kernel")
    /\ UNCHANGED <<grace, ep, life, held, waits, user, got, scan, batch>>

\* process::control with a suspension: the gate goes up under OBJ.
GateUp(c) ==
    /\ pc[c] = "kernel"
    /\ gate = "open"
    /\ wait = 0
    /\ ~Beginning   \* bound: one suspension waits at a time
    /\ Room
    /\ gate' = "shut"
    /\ To(c, "wait1")
    /\ UNCHANGED <<grace, pending, lists, held, wait, user, rung, local>>

\* begin_wait: PENDING first, so that the CPUs mark themselves ...
BeginWait(c) ==
    /\ pc[c] = "wait1"
    /\ pending' = pending + 1
    /\ To(c, "wait2")
    /\ UNCHANGED <<grace, lists, held, waits, user, rung, local>>

\* ... then the epoch and the kick.
WaitEpoch(c) ==
    /\ pc[c] = "wait2"
    /\ epoch' = epoch + 1
    /\ wait' = epoch + 1
    /\ Kick(c, epoch + 1)
    /\ To(c, "kernel")
    /\ UNCHANGED <<seen, pending, lists, held, gate, user, local>>

\* syscall::mem::quiet: a look of the long call at the marks, one at a time.
Look(c) ==
    /\ pc[c] = "kernel"
    /\ wait # 0
    /\ \A d \in CPUs : pc[d] # "look"   \* the thread that waits is on one CPU
    /\ To(c, "look")
    /\ UNCHANGED <<grace, pending, lists, held, waits, user, rung, local>>

LookNext(c, d) ==
    /\ pc[c] = "look"
    /\ d \notin scan[c]
    /\ CpuPassed(d, wait)
    /\ scan' = [scan EXCEPT ![c] = @ \union {d}]
    /\ UNCHANGED <<grace, pending, lists, held, waits, user, rung, pc, got, obj, batch>>

\* The laggards are asked again and the call starts over.
LookAgain(c, d) ==
    /\ pc[c] = "look"
    /\ d \notin scan[c]
    /\ ~CpuPassed(d, wait)
    /\ Kick(c, wait)
    /\ held' = [held EXCEPT ![c] = {}]
    /\ scan' = [scan EXCEPT ![c] = {}]
    /\ To(c, "top")
    /\ UNCHANGED <<grace, pending, lists, waits, user, got, obj, batch>>

\* Every CPU passed: end_wait, and the call reports the suspension.
LookDone(c) ==
    /\ pc[c] = "look"
    /\ scan[c] = CPUs
    /\ pending' = pending - 1
    /\ wait' = 0
    /\ gate' = IF gate = "shut" THEN "quiet" ELSE gate
    /\ scan' = [scan EXCEPT ![c] = {}]
    /\ To(c, "kernel")
    /\ UNCHANGED <<grace, lists, held, user, rung, got, obj, batch>>

\* process::control with a continuation, from any CPU.
GateDown(c) ==
    /\ pc[c] = "kernel"
    /\ gate # "open"
    /\ gate' = "open"
    /\ UNCHANGED <<grace, pending, lists, held, wait, user, rung, pc, local>>

\* sched::resume abandons the stack, and with it every pointer on it.
Resume(c) ==
    /\ pc[c] = "kernel"
    /\ held' = [held EXCEPT ![c] = {}]
    /\ To(c, "top")
    /\ UNCHANGED <<grace, pending, lists, waits, user, rung, local>>

-----------------------------------------------------------------------------
(* The way out of the kernel, exit_loop.                                   *)

\* A pending interrupt is handled first.
Poll(c) ==
    /\ pc[c] = "top"
    /\ c \in rung
    /\ rung' = rung \ {c}
    /\ To(c, "kernel")
    /\ UNCHANGED <<grace, pending, lists, held, waits, user, local>>

\* decide, then qsbr::pending: with nothing pending the CPU is not marked.
\* What was decided (a thread, a portion, sleep) shows at "go".
Decide(c) ==
    /\ pc[c] = "top"
    /\ To(c, IF pending = 0 THEN "go" ELSE "load")
    /\ UNCHANGED <<grace, pending, lists, held, waits, user, rung, local>>

\* Grace::quiesce is a load of the counter ...
QuiesceLoad(c) ==
    /\ pc[c] = "load"
    /\ got' = [got EXCEPT ![c] = epoch]
    /\ To(c, "store")
    /\ UNCHANGED <<grace, pending, lists, held, waits, user, rung, obj, scan, batch>>

\* ... and a store of the mark.
QuiesceStore(c) ==
    /\ pc[c] = "store"
    /\ seen' = [seen EXCEPT ![c] = got[c]]
    /\ got' = [got EXCEPT ![c] = 0]
    /\ To(c, "scan")
    /\ UNCHANGED <<epoch, pending, lists, held, waits, user, rung, obj, scan, batch>>

\* reclaim: Grace::passed reads the mark of one CPU for the head of the list.
Scanning(c) ==
    /\ pc[c] = "scan"
    /\ pending # 0 \/ batch[c] # {}
    /\ Cardinality(batch[c]) < RECLAIM_BATCH
    /\ retired[c] # <<>>

ScanNext(c, d) ==
    /\ Scanning(c)
    /\ d \notin scan[c]
    /\ CpuPassed(d, ep[Head(retired[c])])
    /\ scan' = [scan EXCEPT ![c] = @ \union {d}]
    /\ UNCHANGED <<grace, pending, lists, held, waits, user, rung, pc, got, obj, batch>>

\* Mutant: one CPU past the epoch is taken for all of them.
ScanTakeEarly(c) ==
    /\ Scanning(c)
    /\ scan[c] # {}
    /\ batch' = [batch EXCEPT ![c] = @ \union {Head(retired[c])}]
    /\ retired' = [retired EXCEPT ![c] = Tail(@)]
    /\ scan' = [scan EXCEPT ![c] = {}]
    /\ UNCHANGED <<grace, pending, ep, life, held, waits, user, rung, pc, got, obj>>

\* The period of the head passed: it comes off the list.
ScanTake(c) ==
    /\ Scanning(c)
    /\ scan[c] = CPUs
    /\ batch' = [batch EXCEPT ![c] = @ \union {Head(retired[c])}]
    /\ retired' = [retired EXCEPT ![c] = Tail(@)]
    /\ scan' = [scan EXCEPT ![c] = {}]
    /\ UNCHANGED <<grace, pending, ep, life, held, waits, user, rung, pc, got, obj>>

\* The look at the list ends: it is empty, the batch is full, nothing was
\* pending, or some CPU has not passed the period of the head.
ScanEnd(c) ==
    /\ pc[c] = "scan"
    /\ \/ ~Scanning(c)
       \/ /\ Scanning(c)
          /\ \E d \in CPUs \ scan[c] : ~CpuPassed(d, ep[Head(retired[c])])
    /\ scan' = [scan EXCEPT ![c] = {}]
    /\ pending' = pending - Cardinality(batch[c])
    /\ To(c, IF batch[c] = {} THEN "go" ELSE "free")
    /\ UNCHANGED <<grace, lists, held, waits, user, rung, got, obj, batch>>

\* The section under OBJ: the memory goes back, and the loop starts over.
Free(c) ==
    /\ pc[c] = "free"
    /\ life' = [o \in Objects |-> IF o \in batch[c] THEN "free" ELSE life[o]]
    /\ batch' = [batch EXCEPT ![c] = {}]
    /\ To(c, "top")
    /\ UNCHANGED <<grace, pending, retired, ep, held, waits, user, rung, got, obj, scan>>

\* Mutant: the gate is not read again after the mark.
RunUnchecked(c) ==
    /\ pc[c] = "go"
    /\ user' = user \union {c}
    /\ To(c, "el0")
    /\ UNCHANGED <<grace, pending, lists, held, waits, rung, local>>

\* thread::run of a thread of the process: the gate is read once more, after
\* the mark ...
RunGated(c) ==
    /\ pc[c] = "go"
    /\ gate = "open"
    /\ user' = user \union {c}
    /\ To(c, "el0")
    /\ UNCHANGED <<grace, pending, lists, held, waits, rung, local>>

\* ... and a gated thread is parked instead.
Park(c) ==
    /\ pc[c] = "go"
    /\ gate # "open"
    /\ To(c, "top")
    /\ UNCHANGED <<grace, pending, lists, held, waits, user, rung, local>>

\* thread::run of a thread of another process.
RunOther(c) ==
    /\ pc[c] = "go"
    /\ To(c, "el0")
    /\ UNCHANGED <<grace, pending, lists, held, waits, user, rung, local>>

\* cleanup::portion
Clean(c) ==
    /\ pc[c] = "go"
    /\ To(c, "kernel")
    /\ UNCHANGED <<grace, pending, lists, held, waits, user, rung, local>>

\* sleep: Grace::idle, then the wait for an interrupt.
Sleep(c) ==
    /\ pc[c] = "go"
    /\ seen' = [seen EXCEPT ![c] = IDLE]
    /\ To(c, "idle")
    /\ UNCHANGED <<epoch, pending, lists, held, waits, user, rung, local>>

\* An interrupt ends the sleep; qsbr::awake is a load ...
Wake(c) ==
    /\ pc[c] = "idle"
    /\ got' = [got EXCEPT ![c] = epoch]
    /\ rung' = rung \ {c}
    /\ To(c, "wake")
    /\ UNCHANGED <<grace, pending, lists, held, waits, user, obj, scan, batch>>

\* ... and a store, with a fence before the first load of a link.
Awake(c) ==
    /\ pc[c] = "wake"
    /\ seen' = [seen EXCEPT ![c] = got[c]]
    /\ got' = [got EXCEPT ![c] = 0]
    /\ To(c, "kernel")
    /\ UNCHANGED <<epoch, pending, lists, held, waits, user, rung, obj, scan, batch>>

-----------------------------------------------------------------------------
Kernel(c) ==
    \/ \E o \in Objects : Link(c, o) \/ Read(c, o) \/ Unlink(c, o) \/ RetireEpoch(c, o)
    \/ GateUp(c) \/ Look(c) \/ GateDown(c)

\* The steps a CPU in the kernel takes by itself, one after another.
Proceed(c) ==
    \/ RetireAppend(c) \/ BeginWait(c) \/ WaitEpoch(c)
    \/ \E d \in CPUs : LookNext(c, d) \/ LookAgain(c, d) \/ ScanNext(c, d)
    \/ LookDone(c) \/ Resume(c) \/ Poll(c) \/ Decide(c)
    \/ QuiesceLoad(c) \/ QuiesceStore(c)
    \/ ScanTake(c) \/ ScanEnd(c) \/ Free(c)
    \/ RunGated(c) \/ Park(c) \/ RunOther(c) \/ Clean(c) \/ Sleep(c) \/ Awake(c)

Next == \E c \in CPUs : Kernel(c) \/ Proceed(c) \/ Enter(c) \/ Wake(c)

Spec == Init /\ [][Next]_vars

\* A CPU in the kernel goes on by itself (interrupts are masked there); one
\* at EL0 or asleep may stay so for good unless it was rung.  Interrupts do
\* not come faster than the loop handles them, so that it decides again and
\* again (strong fairness of Decide).
Fairness ==
    \A c \in CPUs :
        /\ WF_vars(Proceed(c))
        /\ SF_vars(Decide(c))
        /\ WF_vars(c \in rung /\ Enter(c))
        /\ WF_vars(c \in rung /\ Wake(c))

LiveSpec == Spec /\ Fairness

-----------------------------------------------------------------------------
(* The type invariant.                                                     *)
TypeOK ==
    /\ epoch \in 1 .. MaxEpoch
    /\ seen \in [CPUs -> 0 .. IDLE]
    /\ pending \in Int
    /\ retired \in [CPUs -> Seq(Objects)]
    /\ ep \in [Objects -> 0 .. MaxEpoch]
    /\ life \in [Objects -> {"free", "linked", "unlinked", "retired"}]
    /\ held \in [CPUs -> SUBSET Objects]
    /\ gate \in {"open", "shut", "quiet"}
    /\ wait \in 0 .. MaxEpoch
    /\ user \in SUBSET CPUs /\ rung \in SUBSET CPUs
    /\ pc \in [CPUs -> PCs]
    /\ got \in [CPUs -> 0 .. MaxEpoch]
    /\ obj \in [CPUs -> SUBSET Objects] /\ batch \in [CPUs -> SUBSET Objects]
    /\ scan \in [CPUs -> SUBSET CPUs]

\* No CPU holds a pointer into memory that went back (kernel/src/irq.rs,
\* deliver: "the binding stays in place until this CPU passes a quiescent
\* point"): a look at LINES on one CPU against the unbind, the retirement and
\* the scan of the marks on another.
NoUseAfterFree ==
    \A c \in CPUs, o \in Objects : o \in held[c] => life[o] # "free"

\* A suspension that was reported complete is: while the gate stays up, no
\* CPU has a thread of the process at EL0 (process_control_waited: "complete
\* when no thread of the process is at EL0 on another CPU").
SuspensionIsQuiet ==
    gate = "quiet" => user = {}

\* Objects are read, retired and freed as Reclamation promises.
Abstract == INSTANCE Reclamation
Reclaims == Abstract!Spec

\* The period of a retired object ends whatever the CPUs run (retire: "the
\* period of the object ends in the time the CPUs take to answer").
PeriodEnds ==
    \A o \in Objects :
        life[o] = "retired" ~>
            (life[o] # "retired" \/ \A c \in CPUs : CpuPassed(c, ep[o]))

-----------------------------------------------------------------------------
(* The strengthening of the two safety properties that is inductive; the   *)
(* proofs are in QsbrProofs.                                               *)

\* A mark is an epoch that was given out, or IDLE on a CPU asleep or waking;
\* a CPU holds pointers only on a kernel stack that is not empty.
MarkInv ==
    /\ \A c \in CPUs :
        /\ seen[c] <= epoch \/ (seen[c] = IDLE /\ pc[c] \in {"idle", "wake"})
        /\ got[c] <= epoch
        /\ held[c] # {} => pc[c] \in {"kernel", "append", "wait1", "wait2", "look"}
    /\ Beginning => epoch < MaxEpoch

\* A retired object is held only by CPUs that have not passed its epoch.
RetiredInv ==
    \A o \in Objects : life[o] = "retired" =>
        /\ 0 < ep[o] /\ ep[o] <= epoch
        /\ \A c \in CPUs : o \in held[c] => seen[c] < ep[o]

\* A retired object is in one place: on its way to a list, in one list once,
\* or in one batch.
PlaceInv ==
    /\ \A c \in CPUs :
        /\ obj[c] # {} => pc[c] = "append"
        /\ batch[c] # {} => pc[c] \in {"scan", "free"}
        /\ \A o \in obj[c] \union batch[c] : life[o] = "retired"
        /\ \A i \in DOMAIN retired[c] : life[retired[c][i]] = "retired"
    /\ \A c \in CPUs, d \in CPUs :
        /\ obj[c] \intersect batch[d] = {}
        /\ c # d => obj[c] \intersect obj[d] = {} /\ batch[c] \intersect batch[d] = {}
        /\ \A i \in DOMAIN retired[c] : retired[c][i] \notin obj[d] \union batch[d]
        /\ \A i \in DOMAIN retired[c], j \in DOMAIN retired[d] :
              retired[c][i] = retired[d][j] => c = d /\ i = j

\* The CPUs whose marks were found past an epoch hold the object no more.
ScanInv ==
    \A c \in CPUs :
        /\ scan[c] # {} => pc[c] \in {"scan", "look"}
        /\ pc[c] = "scan" /\ scan[c] # {} =>
              /\ retired[c] # <<>>
              /\ \A d \in scan[c] : Head(retired[c]) \notin held[d]
        /\ \A o \in batch[c], d \in CPUs : o \notin held[d]

\* A CPU at EL0 in the gated process has not passed the epoch of the wait.
GateInv ==
    /\ \A c \in user : pc[c] = "el0"
    /\ wait <= epoch
    /\ wait # 0 => ~Beginning
    /\ gate # "open" /\ wait # 0 => \A c \in user : seen[c] < wait
    /\ \A c \in CPUs : pc[c] = "look" =>
        /\ wait # 0
        /\ \A d \in CPUs : pc[d] = "look" => c = d
        /\ gate # "open" => scan[c] \intersect user = {}
    /\ \A c \in CPUs, d \in CPUs :
        pc[c] \in {"wait1", "wait2"} /\ pc[d] \in {"wait1", "wait2"} => c = d
    /\ gate = "quiet" => wait = 0 /\ ~Beginning /\ user = {}

Inductive ==
    /\ TypeOK /\ MarkInv /\ RetiredInv /\ NoUseAfterFree
    /\ PlaceInv /\ ScanInv /\ GateInv
=============================================================================
