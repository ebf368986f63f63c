------------------------------ MODULE IrqLines ------------------------------
(***************************************************************************)
(* Interrupt bindings (kernel/src/irq.rs) and the handler of shared lines  *)
(* (kernel/src/interrupt.rs).  The shared lines are routed to one CPU,     *)
(* whose handler looks a line up in LINES without a lock; the calls on     *)
(* bindings run on any CPU in sections under OBJ.  What the handler can    *)
(* see between two writes of a section (LINES and the enable bit of the    *)
(* line) is a step of its own.  The memory of bindings goes back as        *)
(* Reclamation promises.                                                   *)
(***************************************************************************)
EXTENDS Integers, FiniteSets

CONSTANTS
    Lines,        \* shared lines
    Bindings,     \* places of bindings in the pools of their payers
    NoBinding,    \* a null entry of LINES
    MAX_SLOTS,    \* sources a channel holds at most, its own slot among them
    MaxHandles    \* bound: handles to one binding

ASSUME BindingAssumption == NoBinding \notin Bindings /\ IsFiniteSet(Bindings)
ASSUME LinesAssumption == Lines # {}
ASSUME BoundAssumption == MAX_SLOTS \in Nat \ {0} /\ MaxHandles \in Nat \ {0}

VARIABLES
    lines,      \* LINES
    enabled,    \* GICD_ISENABLER: the lines that are open
    edge,       \* GICD_ICFGR: the lines that are edge-triggered
    pending,    \* the lines whose device asks for service
    life,       \* where the place of each binding is: see Reclamation
    line,       \* Irq::line
    handles,    \* Irq::handles
    refs,       \* Irq::refs
    masked,     \* the bindings with Irq::masked
    queued,     \* the bindings whose slot stands in the queue of the channel
    cleanup,    \* the bindings in the cleanup queue
    channel,    \* "open", or "closed" for good
    sources,    \* Channel::sources: the slots taken, its own among them
    waiting,    \* receivers that wait in the channel: 0 or 1
    section,    \* who is inside a section under OBJ, and how far
    handler     \* the interrupt handler: where it is, its line, what it read

vars == <<lines, enabled, edge, pending, life, line, handles, refs, masked,
          queued, cleanup, channel, sources, waiting, section, handler>>
gic == <<enabled, edge, pending>>
counts == <<handles, refs, cleanup>>
chan == <<channel, sources, waiting>>

Free == [at |-> "none", b |-> NoBinding]
AnyLine == CHOOSE l \in Lines : TRUE
Rest == [at |-> "rest", line |-> AnyLine, b |-> NoBinding]

Init ==
    /\ lines = [l \in Lines |-> NoBinding]
    /\ enabled = {} /\ edge = {} /\ pending = {}
    /\ life = [b \in Bindings |-> "free"]
    /\ line = [b \in Bindings |-> AnyLine]
    /\ handles = [b \in Bindings |-> 0]
    /\ refs = [b \in Bindings |-> 0]
    /\ masked = {} /\ queued = {} /\ cleanup = {}
    /\ channel = "open" /\ sources = 1 /\ waiting = 0
    /\ section = Free
    /\ handler = Rest

-----------------------------------------------------------------------------
(* Counted references.                                                     *)

\* irq::release: the last reference queues the binding for cleanup.
Release(b, hs) ==
    /\ handles' = [handles EXCEPT ![b] = @ - hs]
    /\ refs' = [refs EXCEPT ![b] = @ - 1]
    /\ cleanup' = IF refs[b] = 1 THEN cleanup \union {b} ELSE cleanup

\* Source::post in an open channel: the slot merges, goes to the receiver
\* that waits, or into the queue, where it holds the binding.
Post(b) ==
    IF channel = "closed" \/ b \in queued THEN UNCHANGED <<queued, refs, waiting>>
    ELSE IF waiting = 1 THEN waiting' = 0 /\ UNCHANGED <<queued, refs>>
    ELSE /\ queued' = queued \union {b}
         /\ refs' = [refs EXCEPT ![b] = @ + 1]
         /\ UNCHANGED waiting

-----------------------------------------------------------------------------
(* The calls, each in a section under OBJ.                                 *)

\* irq_bind and irq::bind up to the entry of LINES: the line is not bound,
\* the channel is open and has a slot left, the pool has a place.
Bind(b, l) ==
    /\ section = Free
    /\ lines[l] = NoBinding
    /\ channel = "open"
    /\ sources < MAX_SLOTS
    /\ life[b] = "free"
    /\ sources' = sources + 1
    /\ life' = [life EXCEPT ![b] = "linked"]
    /\ line' = [line EXCEPT ![b] = l]
    /\ handles' = [handles EXCEPT ![b] = 1]
    /\ refs' = [refs EXCEPT ![b] = 1]
    /\ masked' = masked \ {b}
    /\ lines' = [lines EXCEPT ![l] = b]
    /\ section' = [at |-> "trigger", b |-> b]
    /\ UNCHANGED <<gic, queued, cleanup, channel, waiting, handler>>

\* gic::set_trigger, while the line is still masked.
SetTrigger(b) ==
    /\ section = [at |-> "trigger", b |-> b]
    /\ edge' \in {edge \union {line[b]}, edge \ {line[b]}}
    /\ section' = [at |-> "open", b |-> b]
    /\ UNCHANGED <<lines, enabled, pending, life, line, counts, masked, queued,
                   chan, handler>>

\* gic::unmask; the handle goes into the table of the caller and takes the
\* place of the reference of bind, or it does not and the binding goes.
Open(b) ==
    /\ section = [at |-> "open", b |-> b]
    /\ enabled' = enabled \union {line[b]}
    /\ section' \in {Free, [at |-> "close", b |-> b]}
    /\ UNCHANGED <<lines, edge, pending, life, line, counts, masked, queued,
                   chan, handler>>

\* irq::retain_handle: a copy of a handle.
RetainHandle(b) ==
    /\ section = Free
    /\ handles[b] \in 1 .. MaxHandles - 1
    /\ handles' = [handles EXCEPT ![b] = @ + 1]
    /\ refs' = [refs EXCEPT ![b] = @ + 1]
    /\ UNCHANGED <<lines, gic, life, line, masked, queued, cleanup, chan, section, handler>>

\* irq::release_handle of a handle that is not the last.
ReleaseHandle(b) ==
    /\ section = Free
    /\ handles[b] > 1
    /\ Release(b, 1)
    /\ UNCHANGED <<lines, gic, life, line, masked, queued, chan, section, handler>>

\* irq::release_handle of the last handle: the line is masked ...
MaskLine(b) ==
    /\ \/ section = Free /\ handles[b] = 1
       \/ section = [at |-> "close", b |-> b]
    /\ enabled' = enabled \ {line[b]}
    /\ section' = [at |-> "unlink", b |-> b]
    /\ UNCHANGED <<lines, edge, pending, life, line, counts, masked, queued,
                   chan, handler>>

\* Mutant: the last handle frees the binding though its slot is queued.
UnlinkQueued(b) ==
    /\ section = [at |-> "unlink", b |-> b]
    /\ lines' = [lines EXCEPT ![line[b]] = NoBinding]
    /\ life' = [life EXCEPT ![b] = "unlinked"]
    /\ handles' = [handles EXCEPT ![b] = 0]
    /\ refs' = [refs EXCEPT ![b] = 0]
    /\ cleanup' = cleanup \union {b}
    /\ section' = Free
    /\ UNCHANGED <<gic, line, masked, queued, chan, handler>>

\* ... then its entry goes, and the reference.
UnlinkLine(b) ==
    /\ section = [at |-> "unlink", b |-> b]
    /\ lines' = [lines EXCEPT ![line[b]] = NoBinding]
    /\ life' = [life EXCEPT ![b] = "unlinked"]
    /\ Release(b, 1)
    /\ section' = Free
    /\ UNCHANGED <<gic, line, masked, queued, chan, handler>>

\* irq::ack through a handle: a line an interrupt masked opens again.
Ack(b) ==
    /\ section = Free
    /\ handles[b] > 0
    /\ channel = "open"
    /\ b \in masked
    /\ masked' = masked \ {b}
    /\ enabled' = enabled \union {line[b]}
    /\ UNCHANGED <<lines, edge, pending, life, line, counts, queued, chan, section, handler>>

\* receive with nothing queued: the thread waits.
Wait ==
    /\ section = Free
    /\ channel = "open" /\ queued = {}
    /\ waiting' = 1
    /\ UNCHANGED <<lines, gic, life, line, counts, masked, queued, channel, sources,
                   section, handler>>

\* receive takes a queued slot, or the stage Close of the channel does; the
\* reference the slot held goes (Owner::let_go).
TakeSlot(b) ==
    /\ section = Free
    /\ b \in queued
    /\ queued' = queued \ {b}
    /\ Release(b, 0)
    /\ UNCHANGED <<lines, gic, life, line, masked, chan, section, handler>>

\* The last handle with RECEIVE goes: the channel is closed from now on ...
CloseChannel ==
    /\ section = Free
    /\ channel = "open"
    /\ channel' = "closed"
    /\ UNCHANGED <<lines, gic, life, line, counts, masked, queued, sources, waiting,
                   section, handler>>

\* ... and its stage Close wakes a receiver that waits.
WakeClosed ==
    /\ section = Free
    /\ channel = "closed" /\ waiting = 1
    /\ waiting' = 0
    /\ UNCHANGED <<lines, gic, life, line, counts, masked, queued, channel, sources,
                   section, handler>>

\* irq::clean: the portion of a binding nothing refers to.
Clean(b) ==
    /\ section = Free
    /\ b \in cleanup
    /\ cleanup' = cleanup \ {b}
    /\ sources' = sources - 1
    /\ life' = [life EXCEPT ![b] = "retired"]
    /\ UNCHANGED <<lines, gic, line, handles, refs, masked, queued, channel, waiting,
                   section, handler>>

\* Mutant: the memory goes back at once, with no quiescent period.
ReclaimEarly(b) ==
    /\ section = Free
    /\ life[b] = "retired"
    /\ life' = [life EXCEPT ![b] = "free"]
    /\ line' = [line EXCEPT ![b] = AnyLine]
    /\ masked' = masked \ {b}
    /\ UNCHANGED <<lines, gic, counts, queued, chan, section, handler>>

\* irq::reclaim, once the period of the binding passed (Reclamation!Free);
\* nothing is left of what the place held (Live::gone).
Reclaim(b) ==
    /\ section = Free
    /\ life[b] = "retired"
    /\ handler.b # b
    /\ life' = [life EXCEPT ![b] = "free"]
    /\ line' = [line EXCEPT ![b] = AnyLine]
    /\ masked' = masked \ {b}
    /\ UNCHANGED <<lines, gic, counts, queued, chan, section, handler>>

-----------------------------------------------------------------------------
(* The device and the GIC (external), and the handler.                     *)

\* A device asks for service, or was served and is quiet.
Device(l) ==
    /\ pending' \in {pending \union {l}, pending \ {l}}
    /\ UNCHANGED <<lines, enabled, edge, life, line, counts, masked, queued, chan,
                   section, handler>>

\* gic::acknowledge: the line becomes active; an edge is taken with it.
Acknowledge(l) ==
    /\ handler = Rest
    /\ l \in pending \intersect enabled
    /\ pending' = IF l \in edge THEN pending \ {l} ELSE pending
    /\ handler' = [at |-> "look", line |-> l, b |-> NoBinding]
    /\ UNCHANGED <<lines, enabled, edge, life, line, counts, masked, queued, chan, section>>

\* deliver: the look at LINES takes no lock.
Look ==
    /\ handler.at = "look"
    /\ LET b == lines[handler.line] IN
        handler' = [handler EXCEPT !.b = b, !.at = IF b = NoBinding THEN "mask" ELSE "deliver"]
    /\ UNCHANGED <<lines, gic, life, line, counts, masked, queued, chan, section>>

\* Mutant: the binding is marked and its line left open.
DeliverOpen ==
    /\ handler.at = "deliver"
    /\ section = Free
    /\ handler' = [handler EXCEPT !.at = IF lines[handler.line] = handler.b THEN "end" ELSE "mask"]
    /\ IF lines[handler.line] # handler.b \/ handler.b \in masked
       THEN UNCHANGED <<masked, queued, refs, waiting>>
       ELSE masked' = masked \union {handler.b} /\ Post(handler.b)
    /\ UNCHANGED <<lines, gic, life, line, handles, cleanup, channel, sources, section>>

\* Mutant: deliver does not look again under OBJ.
DeliverUnchecked ==
    /\ handler.at = "deliver"
    /\ section = Free
    /\ handler' = [handler EXCEPT !.at = "end"]
    /\ IF handler.b \in masked
       THEN UNCHANGED <<enabled, masked, queued, refs, waiting>>
       ELSE /\ enabled' = enabled \ {handler.line}
            /\ masked' = masked \union {handler.b}
            /\ Post(handler.b)
    /\ UNCHANGED <<lines, edge, pending, life, line, handles, cleanup, channel, sources,
                   section>>

\* deliver: the section, in which LINES is read again.
Deliver ==
    /\ handler.at = "deliver"
    /\ section = Free
    /\ handler' = [handler EXCEPT !.at = IF lines[handler.line] = handler.b THEN "end" ELSE "mask"]
    /\ IF lines[handler.line] # handler.b \/ handler.b \in masked
       THEN UNCHANGED <<enabled, masked, queued, refs, waiting>>
       ELSE /\ enabled' = enabled \ {handler.line}
            /\ masked' = masked \union {handler.b}
            /\ Post(handler.b)
    /\ UNCHANGED <<lines, edge, pending, life, line, handles, cleanup, channel, sources,
                   section>>

\* interrupt::handle: deliver returned false, and the line is masked.
MaskUnbound ==
    /\ handler.at = "mask"
    /\ enabled' = enabled \ {handler.line}
    /\ handler' = [handler EXCEPT !.at = "end"]
    /\ UNCHANGED <<lines, edge, pending, life, line, counts, masked, queued, chan, section>>

\* gic::end; the CPU passes a quiescent point on its way out.
End ==
    /\ handler.at = "end"
    /\ handler' = Rest
    /\ UNCHANGED <<lines, gic, life, line, counts, masked, queued, chan, section>>

-----------------------------------------------------------------------------
Calls ==
    \/ \E b \in Bindings, l \in Lines : Bind(b, l)
    \/ \E b \in Bindings :
        \/ SetTrigger(b) \/ Open(b) \/ RetainHandle(b) \/ ReleaseHandle(b)
        \/ MaskLine(b) \/ UnlinkLine(b) \/ Ack(b) \/ TakeSlot(b)
        \/ Clean(b) \/ Reclaim(b)
    \/ Wait \/ CloseChannel \/ WakeClosed

Interrupts ==
    \/ \E l \in Lines : Device(l) \/ Acknowledge(l)
    \/ Look \/ Deliver \/ MaskUnbound \/ End

Next == Calls \/ Interrupts

Spec == Init /\ [][Next]_vars

-----------------------------------------------------------------------------
(* The type invariant.                                                     *)
TypeOK ==
    /\ lines \in [Lines -> Bindings \union {NoBinding}]
    /\ enabled \in SUBSET Lines /\ edge \in SUBSET Lines /\ pending \in SUBSET Lines
    /\ life \in [Bindings -> {"free", "linked", "unlinked", "retired"}]
    /\ line \in [Bindings -> Lines]
    /\ handles \in [Bindings -> Int]
    /\ refs \in [Bindings -> Int]
    /\ masked \in SUBSET Bindings /\ queued \in SUBSET Bindings
    /\ cleanup \in SUBSET Bindings
    /\ channel \in {"open", "closed"}
    /\ sources \in Int
    /\ waiting \in {0, 1}
    /\ section \in [at : {"none", "trigger", "open", "close", "unlink"},
                    b : Bindings \union {NoBinding}]
    /\ handler \in [at : {"rest", "look", "deliver", "mask", "end"},
                    line : Lines, b : Bindings \union {NoBinding}]

\* A binding is named by the entry of its own line exactly while it has
\* handles, and its references are its handles and its queued slot: it is
\* cleaned once, after the last of both, whichever of handler, receiver and
\* owner lets go last (irq::release, irq::release_handle).
References ==
    \A b \in Bindings :
        /\ handles[b] > 0 <=> life[b] = "linked"
        /\ \A l \in Lines : lines[l] = b <=> (life[b] = "linked" /\ line[b] = l)
        /\ refs[b] = handles[b] + (IF b \in queued THEN 1 ELSE 0)
        /\ b \in cleanup <=> (refs[b] = 0 /\ life[b] = "unlinked")

\* deliver posts only into a binding its line still names, so that it never
\* retains one nobody refers to (Refs::retain asserts it), whatever happened
\* between its look at LINES without a lock and its section.
PostsToBound ==
    \A b \in Bindings :
        (b \in masked' \ masked \/ b \in queued' \ queued) =>
            refs[b] > 0 /\ lines[line[b]] = b
DeliversToBound == [][PostsToBound]_vars

\* A line that an interrupt masked stays so until irq_ack, through every
\* order of deliveries, acknowledgements and rebinds: the driver gets no
\* second interrupt while it serves the first (irq.rs: "the line stays masked
\* until irq_ack"); and a line no binding holds is shut.
MaskedStaysShut ==
    \A l \in Lines : l \in enabled => lines[l] # NoBinding /\ lines[l] \notin masked

\* "a closed channel keeps it masked for good" (irq.rs): no line of a masked
\* binding opens again once the channel closed.
StaysMasked ==
    \A b \in Bindings :
        channel = "closed" /\ b \in masked /\ lines[line[b]] = b
            => line[b] \notin enabled' \/ lines'[line[b]] # b
ClosedKeepsMasked == [][StaysMasked]_vars

\* GICD_ICFGR of a line is written only while the line is masked
\* (gic::set_trigger), though the line may have been bound before and its
\* last interrupt may still be in the handler.
TriggersShut == \A l \in Lines : (l \in edge <=> l \in edge') \/ l \notin enabled
TriggerWhileShut == [][TriggersShut]_vars

\* Every slot the bindings took of the channel goes back, once for each:
\* Channel::sources counts the bindings that were not cleaned, and its own.
Uncleaned == {b \in Bindings : life[b] \in {"linked", "unlinked"}}
SlotsComeBack == sources = 1 + Cardinality(Uncleaned)

\* Bindings are looked up and freed as Reclamation allows: the handler's CPU
\* is the only one that reads LINES without a lock and keeps what it read.
HeldByHandler == [c \in {"handler"} |-> {handler.b} \intersect Bindings]
Memory == INSTANCE Reclamation
    WITH CPUs <- {"handler"}, Objects <- Bindings, held <- HeldByHandler
FollowsReclamation == Memory!Spec

\* The strengthening that makes the properties above inductive: what the
\* section in progress has done so far, and what the handler holds.
SectionInv ==
    IF section.at = "none" THEN section.b = NoBinding
    ELSE /\ section.b \in Bindings
         /\ life[section.b] = "linked" /\ handles[section.b] = 1
         /\ section.at \in {"trigger", "open", "unlink"} => line[section.b] \notin enabled
         /\ section.at \in {"trigger", "open"} => section.b \notin masked

HandlerInv ==
    /\ handler.at \in {"rest", "look"} => handler.b = NoBinding
    /\ handler.at = "rest" => handler = Rest
    /\ handler.at = "deliver" => handler.b \in Bindings
    /\ handler.b \in Bindings => life[handler.b] # "free"

CountInv ==
    \A b \in Bindings :
        /\ handles[b] >= 0
        /\ life[b] \in {"free", "retired"} => refs[b] = 0

IrqInductive ==
    TypeOK /\ References /\ MaskedStaysShut /\ SectionInv /\ HandlerInv /\ CountInv

\* bind: "the line opens: the binding waits for its first interrupt", and
\* the field masked: "An interrupt masked the line, and no irq_ack opened it
\* since" (irq.rs): with no section in progress, a binding that is not masked
\* has its line open.
BoundIsOpen ==
    \A l \in Lines :
        section = Free /\ lines[l] # NoBinding /\ lines[l] \notin masked => l \in enabled
=============================================================================
