------------------------------ MODULE Commands ------------------------------
(***************************************************************************)
(* Commands between CPUs (kernel/src/cmd.rs), the bell that announces them *)
(* (kernel/src/idle.rs) and the part of the way out of the kernel that     *)
(* takes them (sched.rs: exit_loop, sleep).  The scheduling state of a     *)
(* thread belongs to its CPU; another CPU sets a flag in the thread under  *)
(* OBJ, and later, outside OBJ, puts the thread into the queue to its CPU  *)
(* and rings.  A CPU that idles polls a word for a while and then sleeps.  *)
(*                                                                         *)
(* WAKE stands for the flags of a thread that comes back to the scheduler  *)
(* (WAKE, START, UNPARK), LEVEL for LEVEL and BOOST.  A section under OBJ  *)
(* is one step.  The chain of dying timers (timer.rs: REAPED), which rides *)
(* on the same SGI, is its length.                                         *)
(***************************************************************************)
EXTENDS Integers, Sequences, FiniteSets

CONSTANTS
    CPUs,
    Threads,
    NoThread,
    Home,          \* the CPU of each thread (thread::cpu_of)
    DRAIN_BATCH,   \* threads one drain takes at most
    MaxReaped,     \* bound: dying timers in one chain
    PollOn         \* POLL_ON: "yes" or "no"

ASSUME HomeAssumption == Home \in [Threads -> CPUs] /\ NoThread \notin Threads
ASSUME BatchAssumption == DRAIN_BATCH \in Nat \ {0} /\ MaxReaped \in Nat

VARIABLES
    cmds,     \* the flags of each thread that are on their way
    life,     \* each thread: "runs", "waits", "woken", "ended", "dead"
    ref,      \* the kernel's reference to each thread: "held" or "gone"
    copier,   \* the thread each CPU copies a message to, outside OBJ
    outbox,   \* what the sections of each CPU posted
    kicks,    \* the CPUs that the outbox asks in with no command
    rings,    \* rings[to][from]
    mask,     \* the CPUs that flush has still to ring
    to,       \* the CPU that ring found not polling
    word,     \* the word of each CPU: POLLING, BELL
    sgi,      \* the CPUs at which SGI_CMD is pending
    reaped,   \* dying timers that wait for each CPU
    pc,       \* what each CPU does
    batch,    \* the threads and flags drain took
    left,     \* the queues this pass of take_batch has still to look at
    bell      \* the CPUs whose poll a bell ended and that drain for it

vars == <<cmds, life, ref, copier, outbox, kicks, rings, mask, to, word, sgi, reaped,
          pc, batch, left, bell>>
thread == <<life, ref>>
send == <<outbox, kicks, mask, to>>
idle == <<word, bell>>
drain == <<batch, left>>

\* The flags of a thread, and what drain takes: a thread with its flags.
Flags == SUBSET {"WAKE", "LEVEL", "EXIT"}
Commanded == Threads \X Flags

\* Where a CPU may be.
Labels == {"loop", "decide", "el0", "copy", "flush", "ring", "sgi", "poll",
           "unpoll", "quiet", "wfi", "take", "took", "serve", "self", "after"}

Init ==
    /\ cmds = [t \in Threads |-> {}]
    /\ life = [t \in Threads |-> "runs"]
    /\ ref = [t \in Threads |-> "held"]
    /\ copier = [c \in CPUs |-> NoThread]
    /\ outbox = [c \in CPUs |-> <<>>]
    /\ kicks = [c \in CPUs |-> {}]
    /\ rings = [c \in CPUs |-> [d \in CPUs |-> <<>>]]
    /\ mask = [c \in CPUs |-> {}]
    /\ to = [c \in CPUs |-> c]
    /\ word = [c \in CPUs |-> {}]
    /\ sgi = {}
    /\ reaped = [c \in CPUs |-> 0]
    /\ pc = [c \in CPUs |-> "loop"]
    /\ batch = [c \in CPUs |-> <<>>]
    /\ left = [c \in CPUs |-> {}]
    /\ bell = {}

\* thread::is_held: the scheduler holds the thread and no end is on its way.
IsHeld(t) == life[t] \in {"runs", "waits", "woken"}

Go(c, label) == pc' = [pc EXCEPT ![c] = label]

-----------------------------------------------------------------------------
(* Sections that post: a call, or a portion of cleanup.                    *)

\* Mutant: the thread goes into the outbox with every flag.
PostAgain(c, t, flag) ==
    /\ cmds' = [cmds EXCEPT ![t] = @ \union {flag}]
    /\ outbox' = [outbox EXCEPT ![c] = Append(@, t)]

\* post: only the first flag puts the thread into the outbox.
Post(c, t, flag) ==
    /\ cmds' = [cmds EXCEPT ![t] = @ \union {flag}]
    /\ outbox' = IF cmds[t] = {} THEN [outbox EXCEPT ![c] = Append(@, t)] ELSE outbox

\* CPU `c` serves a call of its running thread, or begins a portion.
InSection(c) == pc[c] \in {"el0", "decide"}

\* sched::wake of a thread that a section took out of its queue, with or
\* without a message that is copied after the section (copy_later).
Wake(c, t, message) ==
    /\ InSection(c)
    /\ life[t] = "waits"
    /\ IF Home[t] = c
       THEN life' = [life EXCEPT ![t] = "runs"] /\ UNCHANGED <<cmds, outbox>>
       ELSE life' = [life EXCEPT ![t] = "woken"] /\ Post(c, t, "WAKE")
    /\ copier' = [copier EXCEPT ![c] = IF message = "yes" THEN t ELSE @]
    /\ Go(c, IF message = "yes" THEN "copy" ELSE "flush")
    /\ UNCHANGED <<ref, kicks, mask, to, rings, sgi, reaped, idle, drain>>

\* Mutant: a boost does not ask whether the scheduler holds the thread.
LevelUnheld(c, t) ==
    /\ InSection(c)
    /\ Home[t] # c
    /\ Post(c, t, "LEVEL")
    /\ Go(c, "flush")
    /\ UNCHANGED <<thread, copier, kicks, mask, to, rings, sgi, reaped, idle, drain>>

\* sched::set_priority and boost of a thread of another CPU.
SetLevel(c, t) ==
    /\ InSection(c)
    /\ Home[t] # c /\ IsHeld(t)
    /\ Post(c, t, "LEVEL")
    /\ Go(c, "flush")
    /\ UNCHANGED <<thread, copier, kicks, mask, to, rings, sgi, reaped, idle, drain>>

\* sched::exit.  The end of a thread of another CPU, which is not at EL0
\* (control::gate_seen), goes by EXIT; a thread of this CPU with commands on
\* their way leaves the reference to an EXIT that follows them.  A thread that
\* ended is not ended again here: the teardown that does is ProcessControl's.
Exit(c, t) ==
    /\ InSection(c)
    /\ IsHeld(t)
    /\ IF Home[t] # c
       THEN /\ pc[Home[t]] # "el0"
            /\ life' = [life EXCEPT ![t] = "ended"]
            /\ Post(c, t, "EXIT")
            /\ UNCHANGED ref
       ELSE /\ life' = [life EXCEPT ![t] = "dead"]
            /\ IF cmds[t] # {}
               THEN Post(c, t, "EXIT") /\ UNCHANGED ref
               ELSE ref' = [ref EXCEPT ![t] = "gone"] /\ UNCHANGED <<cmds, outbox>>
    /\ Go(c, "flush")
    /\ UNCHANGED <<copier, kicks, mask, to, rings, sgi, reaped, idle, drain>>

\* The running thread begins to wait.
Receive(c, t) ==
    /\ pc[c] = "el0"
    /\ Home[t] = c /\ life[t] = "runs"
    /\ life' = [life EXCEPT ![t] = "waits"]
    /\ Go(c, "flush")
    /\ UNCHANGED <<cmds, ref, copier, send, rings, sgi, reaped, idle, drain>>

\* timer::post_reap: the first timer of the chain asks its CPU in (kick).
PostReap(c, d) ==
    /\ InSection(c)
    /\ d # c /\ reaped[d] < MaxReaped
    /\ reaped' = [reaped EXCEPT ![d] = @ + 1]
    /\ kicks' = IF reaped[d] = 0 THEN [kicks EXCEPT ![c] = @ \union {d}] ELSE kicks
    /\ Go(c, "flush")
    /\ UNCHANGED <<cmds, thread, copier, outbox, mask, to, rings, sgi, idle, drain>>

-----------------------------------------------------------------------------
(* flush_deferred: the copy, the queues, the rings.                        *)

\* flush_copy_now.
Copy(c) ==
    /\ pc[c] = "copy"
    /\ copier' = [copier EXCEPT ![c] = NoThread]
    /\ Go(c, "flush")
    /\ UNCHANGED <<cmds, thread, send, rings, sgi, reaped, idle, drain>>

\* flush: one thread goes into the queue to its CPU.
Push(c) ==
    /\ pc[c] = "flush" /\ outbox[c] # <<>>
    /\ LET t == Head(outbox[c]) IN
        /\ rings' = [rings EXCEPT ![Home[t]][c] = Append(@, t)]
        /\ mask' = [mask EXCEPT ![c] = @ \union {Home[t]}]
    /\ outbox' = [outbox EXCEPT ![c] = Tail(@)]
    /\ UNCHANGED <<cmds, thread, copier, kicks, to, sgi, reaped, pc, idle, drain>>

\* flush: the outbox is empty, the rings follow.
Pushed(c) ==
    /\ pc[c] = "flush" /\ outbox[c] = <<>>
    /\ mask' = [mask EXCEPT ![c] = @ \union kicks[c]]
    /\ kicks' = [kicks EXCEPT ![c] = {}]
    /\ Go(c, "ring")
    /\ UNCHANGED <<cmds, thread, copier, outbox, to, rings, sgi, reaped, idle, drain>>

\* Mutant: a bell that rang already is not followed by an SGI.
RingOnce(c, d) ==
    /\ pc[c] = "ring" /\ d \in mask[c]
    /\ mask' = [mask EXCEPT ![c] = @ \ {d}]
    /\ word' = IF PollOn = "yes" THEN [word EXCEPT ![d] = @ \union {"BELL"}] ELSE word
    /\ IF PollOn = "yes" /\ word[d] # {}
       THEN UNCHANGED <<pc, to>>
       ELSE to' = [to EXCEPT ![c] = d] /\ Go(c, "sgi")
    /\ UNCHANGED <<cmds, thread, copier, outbox, kicks, rings, sgi, reaped, bell, drain>>

\* ring: one fetch_or of BELL, whose old value says whether `d` polls.
Ring(c, d) ==
    /\ pc[c] = "ring" /\ d \in mask[c]
    /\ mask' = [mask EXCEPT ![c] = @ \ {d}]
    /\ word' = IF PollOn = "yes" THEN [word EXCEPT ![d] = @ \union {"BELL"}] ELSE word
    /\ IF PollOn = "yes" /\ "POLLING" \in word[d]
       THEN UNCHANGED <<pc, to>>
       ELSE to' = [to EXCEPT ![c] = d] /\ Go(c, "sgi")
    /\ UNCHANGED <<cmds, thread, copier, outbox, kicks, rings, sgi, reaped, bell, drain>>

\* ring: gic::send_sgi.
SendSgi(c) ==
    /\ pc[c] = "sgi"
    /\ sgi' = sgi \union {to[c]}
    /\ to' = [to EXCEPT ![c] = c]
    /\ Go(c, "ring")
    /\ UNCHANGED <<cmds, thread, copier, outbox, kicks, mask, rings, reaped, idle, drain>>

\* take_batch begins.
TakeFrom(c) == left' = [left EXCEPT ![c] = CPUs \ {c}] /\ Go(c, "take")

\* Nothing is left to ring: the next turn of exit_loop, or the drain of a bell.
Flushed(c) ==
    /\ pc[c] = "ring" /\ mask[c] = {}
    /\ IF c \in bell
       THEN TakeFrom(c) /\ bell' = bell \ {c}
       ELSE Go(c, "loop") /\ UNCHANGED <<left, bell>>
    /\ UNCHANGED <<cmds, thread, copier, send, rings, sgi, reaped, word, batch>>

-----------------------------------------------------------------------------
(* exit_loop and sleep.                                                    *)

\* A turn looks for an interrupt first, and then decides.
Turn(c) ==
    /\ pc[c] = "loop"
    /\ IF c \in sgi
       THEN sgi' = sgi \ {c} /\ TakeFrom(c)
       ELSE Go(c, "decide") /\ UNCHANGED <<sgi, left>>
    /\ UNCHANGED <<cmds, thread, copier, send, rings, reaped, idle, batch>>

\* Decision::Run; thread::run makes the copy that waits first, so none does.
Run(c) ==
    /\ pc[c] = "decide"
    /\ \E t \in Threads : Home[t] = c /\ life[t] = "runs"
    /\ Go(c, "el0")
    /\ UNCHANGED <<cmds, thread, copier, send, rings, sgi, reaped, idle, drain>>

\* An interrupt brings the CPU in from EL0.
Interrupted(c) ==
    /\ pc[c] = "el0" /\ c \in sgi
    /\ Go(c, "loop")
    /\ UNCHANGED <<cmds, thread, copier, send, rings, sgi, reaped, idle, drain>>

\* Decision::Idle: sleep, which polls first when the machine does (poll).
Sleep(c) ==
    /\ pc[c] = "decide"
    /\ \A t \in Threads : Home[t] = c => life[t] # "runs"
    /\ IF PollOn = "yes"
       THEN word' = [word EXCEPT ![c] = {"POLLING"}] /\ Go(c, "poll")
       ELSE Go(c, "wfi") /\ UNCHANGED word
    /\ UNCHANGED <<cmds, thread, copier, send, rings, sgi, reaped, bell, drain>>

\* poll: an interrupt or a bell ends the window.
PollSees(c) ==
    /\ pc[c] = "poll"
    /\ c \in sgi \/ "BELL" \in word[c]
    /\ Go(c, "unpoll")
    /\ UNCHANGED <<cmds, thread, copier, send, rings, sgi, reaped, idle, drain>>

\* poll: the window runs out, after a look that saw nothing.
PollQuiet(c) ==
    /\ pc[c] = "poll"
    /\ Go(c, "quiet")
    /\ UNCHANGED <<cmds, thread, copier, send, rings, sgi, reaped, idle, drain>>

\* Mutant: a bell in the last moment of the window does not count.
UnpollQuiet(c) ==
    /\ pc[c] \in {"unpoll", "quiet"}
    /\ word' = [word EXCEPT ![c] = {}]
    /\ IF pc[c] = "quiet"
       THEN Go(c, "wfi") /\ UNCHANGED <<sgi, left, bell>>
       ELSE IF c \in sgi
       THEN /\ sgi' = sgi \ {c} /\ TakeFrom(c)
            /\ bell' = IF "BELL" \in word[c] THEN bell \union {c} ELSE bell
       ELSE IF "BELL" \in word[c] THEN TakeFrom(c) /\ UNCHANGED <<sgi, bell>>
       ELSE Go(c, "loop") /\ UNCHANGED <<sgi, left, bell>>
    /\ UNCHANGED <<cmds, thread, copier, send, rings, reaped, batch>>

\* The end of poll: one fetch_and clears the word, whose old value says
\* whether a bell rang; sleep then waits, or handles the interrupt, the bell
\* or both.
Unpoll(c) ==
    /\ pc[c] \in {"unpoll", "quiet"}
    /\ word' = [word EXCEPT ![c] = {}]
    /\ IF pc[c] = "quiet" /\ "BELL" \notin word[c]
       THEN Go(c, "wfi") /\ UNCHANGED <<sgi, left, bell>>
       ELSE IF c \in sgi
       THEN /\ sgi' = sgi \ {c} /\ TakeFrom(c)
            /\ bell' = IF "BELL" \in word[c] THEN bell \union {c} ELSE bell
       ELSE IF "BELL" \in word[c] THEN TakeFrom(c) /\ UNCHANGED <<sgi, bell>>
       ELSE Go(c, "loop") /\ UNCHANGED <<sgi, left, bell>>
    /\ UNCHANGED <<cmds, thread, copier, send, rings, reaped, batch>>

\* gic::wait: wfi returns with an SGI pending.
WfiSgi(c) ==
    /\ pc[c] = "wfi" /\ c \in sgi
    /\ sgi' = sgi \ {c} /\ TakeFrom(c)
    /\ UNCHANGED <<cmds, thread, copier, send, rings, reaped, idle, batch>>

\* gic::wait: another interrupt ends the sleep, nobody knows when.
WfiOther(c) ==
    /\ pc[c] = "wfi"
    /\ Go(c, "loop")
    /\ UNCHANGED <<cmds, thread, copier, send, rings, sgi, reaped, idle, drain>>

-----------------------------------------------------------------------------
(* drain.                                                                  *)

\* take_batch looks at the next queue of its pass, with no lock: the flags of
\* the thread it takes are cleared.  "took": the pass found something.
Look(c, d) ==
    /\ pc[c] \in {"take", "took"} /\ d \in left[c]
    /\ Len(batch[c]) < DRAIN_BATCH
    /\ left' = [left EXCEPT ![c] = @ \ {d}]
    /\ IF rings[c][d] = <<>>
       THEN UNCHANGED <<cmds, rings, batch, pc>>
       ELSE LET t == Head(rings[c][d]) IN
            /\ rings' = [rings EXCEPT ![c][d] = Tail(@)]
            /\ cmds' = [cmds EXCEPT ![t] = {}]
            /\ batch' = [batch EXCEPT ![c] = Append(@, <<t, cmds[t]>>)]
            /\ Go(c, "took")
    /\ UNCHANGED <<thread, copier, send, sgi, reaped, idle>>

\* The pass ends; one that found something is followed by another.
Pass(c) ==
    /\ pc[c] = "took" /\ left[c] = {} /\ Len(batch[c]) < DRAIN_BATCH
    /\ TakeFrom(c)
    /\ UNCHANGED <<cmds, thread, copier, send, rings, sgi, reaped, idle, batch>>

\* The batch is full, or a pass found nothing.
Taken(c) ==
    \/ pc[c] \in {"take", "took"} /\ Len(batch[c]) = DRAIN_BATCH
    \/ pc[c] = "take" /\ left[c] = {}

\* The threads the batch wakes.
Wakes(c) == {t \in Threads : \E i \in 1..Len(batch[c]) : batch[c][i][1] = t /\ "WAKE" \in batch[c][i][2]}

\* Mutant: the batch is served before the copies are made.
UnwaitedCopies(c) ==
    /\ Taken(c)
    /\ Go(c, IF batch[c] = <<>> /\ reaped[c] = 0 THEN "flush" ELSE "serve")
    /\ left' = [left EXCEPT ![c] = {}]
    /\ UNCHANGED <<cmds, thread, copier, send, rings, sgi, reaped, idle, batch>>

\* serve_batch waits for the copies of the messages of the woken threads; with
\* nothing taken and no timer it returns.
WaitCopies(c) ==
    /\ Taken(c)
    /\ \A d \in CPUs : copier[d] \notin Wakes(c)
    /\ Go(c, IF batch[c] = <<>> /\ reaped[c] = 0 THEN "flush" ELSE "serve")
    /\ left' = [left EXCEPT ![c] = {}]
    /\ UNCHANGED <<cmds, thread, copier, send, rings, sgi, reaped, idle, batch>>

\* What serve makes of a thread whose flags the batch holds.
Served(t, flags) ==
    IF "EXIT" \in flags THEN "dead"
    ELSE IF "WAKE" \in flags /\ IsHeld(t) THEN "runs"
    ELSE life[t]

\* serve_all: the flags of every thread of the batch, and the timers that fill
\* the rest of its places, in one section.
ServeAll(c) ==
    /\ pc[c] = "serve"
    /\ life' = [t \in Threads |->
                  IF \E i \in 1..Len(batch[c]) : batch[c][i][1] = t
                  THEN Served(t, UNION {batch[c][i][2] : i \in {j \in 1..Len(batch[c]) : batch[c][j][1] = t}})
                  ELSE life[t]]
    /\ ref' = [t \in Threads |->
                 IF \E i \in 1..Len(batch[c]) : batch[c][i][1] = t /\ "EXIT" \in batch[c][i][2]
                 THEN "gone" ELSE ref[t]]
    /\ LET places == DRAIN_BATCH - Len(batch[c])
           rest == IF reaped[c] > places THEN reaped[c] - places ELSE 0
       IN  /\ reaped' = [reaped EXCEPT ![c] = rest]
           /\ Go(c, IF rest > 0 THEN "self" ELSE IF Len(batch[c]) = DRAIN_BATCH THEN "after" ELSE "flush")
    /\ batch' = [batch EXCEPT ![c] = <<>>]
    /\ UNCHANGED <<cmds, copier, send, rings, sgi, idle, left>>

\* serve_batch: with timers left, or after a full batch with threads left, the
\* CPU sends itself an SGI.
After(c) ==
    /\ pc[c] \in {"self", "after"}
    /\ sgi' = IF pc[c] = "self" \/ \E d \in CPUs \ {c} : rings[c][d] # <<>>
              THEN sgi \union {c} ELSE sgi
    /\ Go(c, "flush")
    /\ UNCHANGED <<cmds, thread, copier, send, rings, reaped, idle, drain>>

-----------------------------------------------------------------------------
Section(c) ==
    \/ \E t \in Threads :
        \/ \E message \in {"yes", "no"} : Wake(c, t, message)
        \/ SetLevel(c, t) \/ Exit(c, t) \/ Receive(c, t)
    \/ \E d \in CPUs : PostReap(c, d)

\* What a CPU in the kernel, or asleep with an SGI pending, goes on with.
Kernel(c) ==
    \/ Copy(c) \/ Push(c) \/ Pushed(c) \/ SendSgi(c) \/ Flushed(c)
    \/ Turn(c) \/ Run(c) \/ Interrupted(c) \/ Sleep(c)
    \/ PollSees(c) \/ PollQuiet(c) \/ Unpoll(c) \/ WfiSgi(c)
    \/ Pass(c) \/ WaitCopies(c) \/ ServeAll(c) \/ After(c)
    \/ \E d \in CPUs : Ring(c, d) \/ Look(c, d)

Next == \E c \in CPUs : Section(c) \/ Kernel(c) \/ WfiOther(c)

Spec == Init /\ [][Next]_vars

\* A CPU in the kernel goes on by itself, since interrupts are masked there;
\* an SGI brings one in from EL0 or wakes it.
LiveSpec == Spec /\ \A c \in CPUs : WF_vars(Kernel(c))

-----------------------------------------------------------------------------
(* The type invariant.                                                     *)
TypeOK ==
    /\ cmds \in [Threads -> Flags]
    /\ life \in [Threads -> {"runs", "waits", "woken", "ended", "dead"}]
    /\ ref \in [Threads -> {"held", "gone"}]
    /\ copier \in [CPUs -> Threads \union {NoThread}]
    /\ outbox \in [CPUs -> Seq(Threads)]
    /\ kicks \in [CPUs -> SUBSET CPUs]
    /\ rings \in [CPUs -> [CPUs -> Seq(Threads)]]
    /\ mask \in [CPUs -> SUBSET CPUs]
    /\ to \in [CPUs -> CPUs]
    /\ word \in [CPUs -> SUBSET {"POLLING", "BELL"}]
    /\ sgi \in SUBSET CPUs
    /\ reaped \in [CPUs -> Nat]
    /\ pc \in [CPUs -> Labels]
    /\ batch \in [CPUs -> Seq(Commanded)]
    /\ left \in [CPUs -> SUBSET CPUs]
    /\ bell \in SUBSET CPUs

\* How often a thread stands in a sequence.
Times(t, s) == Cardinality({i \in 1..Len(s) : s[i] = t})

\* "A thread stands in the queues once at most" (cmd.rs), which is why a queue
\* is never full and push never waits: from its first flag until its CPU takes
\* it, a thread with commands is in one outbox or one queue, once, and that
\* queue leads to its CPU from another.
OnceInQueues ==
    \A t \in Threads :
        /\ cmds[t] # {} =>
            \/ \E c \in CPUs \ {Home[t]} :
                /\ Times(t, outbox[c]) = 1
                /\ \A d \in CPUs : (d # c => Times(t, outbox[d]) = 0) /\ Times(t, rings[Home[t]][d]) = 0
            \/ \E c \in CPUs \ {Home[t]} :
                /\ Times(t, rings[Home[t]][c]) = 1
                /\ \A d \in CPUs : (d # c => Times(t, rings[Home[t]][d]) = 0) /\ Times(t, outbox[d]) = 0
        /\ cmds[t] = {} => \A c, d \in CPUs : Times(t, outbox[c]) = 0 /\ Times(t, rings[d][c]) = 0

\* "The kernel's reference keeps the thread until the owner serves the
\* commands" (post): no thread whose reference went stands in an outbox, a
\* queue or a batch.
KeptByReference ==
    \A t \in Threads : ref[t] = "gone" =>
        \A c, d \in CPUs :
            /\ Times(t, outbox[c]) = 0 /\ Times(t, rings[c][d]) = 0
            /\ \A i \in 1..Len(batch[c]) : batch[c][i][1] # t

\* A woken thread runs once the copy of its message is made, though another
\* CPU's command may bring it to its CPU before (drain: wait_copies).
WokenAfterCopy ==
    \A c \in CPUs : pc[c] = "el0" =>
        \A t \in Threads : Home[t] = c /\ life[t] = "runs" => \A d \in CPUs : copier[d] # t

\* A ring for CPU `c` is on its way: a CPU is about to ring it, the SGI is
\* pending, the poller will see the bell, or it drains for the bell.
Alerted(c) ==
    \/ c \in sgi \/ c \in bell
    \/ \E d \in CPUs : c \in mask[d] \/ (pc[d] = "sgi" /\ to[d] = c)
    \/ word[c] = {"POLLING", "BELL"}

\* drain of CPU `c` will still see what is in the queue from `d`.
WillSee(c, d) ==
    \/ pc[c] = "took" \/ (pc[c] = "take" /\ (d \in left[c] \/ Len(batch[c]) = DRAIN_BATCH))
    \/ pc[c] = "serve" /\ Len(batch[c]) = DRAIN_BATCH
    \/ pc[c] \in {"self", "after"}

\* No command is lost (idle.rs: "a bell is either seen by the poller or comes
\* with an SGI"): whatever stands in a queue or a chain of a CPU, that CPU is
\* about to look at it or will be rung.
Rung ==
    \A c \in CPUs :
        /\ \A d \in CPUs : rings[c][d] # <<>> => Alerted(c) \/ WillSee(c, d)
        /\ reaped[c] > 0 =>
            \/ Alerted(c) \/ pc[c] \in {"take", "took", "serve", "self"}
            \/ \E d \in CPUs : c \in kicks[d]

\* Every command is taken, whatever the CPUs do meanwhile, and the kernel's
\* reference to a thread that ended goes.
Taking ==
    \A t \in Threads :
        /\ cmds[t] # {} ~> cmds[t] = {}
        /\ ~IsHeld(t) ~> ref[t] = "gone"
=============================================================================
