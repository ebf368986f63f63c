-------------------------------- MODULE Asid --------------------------------
(***************************************************************************)
(* Address space identifiers in generations (kcore/src/asid.rs), the order *)
(* of TTBR0 writes and TLB maintenance (kcore/src/tlb.rs) and the address  *)
(* spaces that use them (kernel/src/mm/aspace.rs).  The fast path of a     *)
(* switch takes no lock: it loads the tag of the space, the word `active`  *)
(* of its CPU and the generation, and compares and swaps `active`.  The    *)
(* slow path, the release of an ASID and the unmapping of pages run in a   *)
(* section under OBJ; their steps that another CPU may see are steps here. *)
(*                                                                         *)
(* A space has one page, mapped as the space begins.  Every CPU walks the  *)
(* tables in its TTBR0 at every moment, as the tests of tlb.rs assume      *)
(* (Multi::walk): that is the worst the hardware may do.  The search for a *)
(* free number is any free number.                                         *)
(***************************************************************************)
EXTENDS Integers, FiniteSets

CONSTANTS
    CPUs,
    Spaces,      \* spaces over the life of the system; none comes twice
    ASIDs,       \* the numbers but 0, the kernel's
    Empty,       \* the empty table, with ASID 0
    NoCpu,
    MaxGen,      \* bound: generations
    Mortal,      \* bound: the spaces that may end
    Paged        \* bound: the spaces whose page may go

ASSUME AsidAssumption ==
    /\ Empty \notin Spaces /\ NoCpu \notin CPUs
    /\ 0 \notin ASIDs
    /\ MaxGen \in Nat \ {0}
    /\ Mortal \subseteq Spaces /\ Paged \subseteq Spaces

VARIABLES
    generation,   \* AsidCpus::generation
    owing,        \* AsidCpus::flush_pending
    active,       \* AsidCpus::active: a tag for each CPU
    tag,          \* AsidTag of each space
    used,         \* AsidAllocator::used
    reserved,     \* AsidAllocator::reserved: a tag for each CPU
    obj,          \* the holder of OBJ
    ttbr,         \* TTBR0 of each CPU: a space or Empty, and an ASID
    tlb,          \* the TLB of each CPU: pairs of an ASID and a space
    page,         \* the page of each space
    life,         \* each space: "live", "retired" or "gone"
    waits,        \* the CPUs the period of each retired space waits for
    pc, space, id, old,   \* each CPU: what it does, and its local values
    todo          \* the CPUs new_generation has still to look at

vars == <<generation, owing, active, tag, used, reserved, obj, ttbr, tlb, page, life, waits,
          pc, space, id, old, todo>>
shared == <<generation, owing, active, tag, used, reserved>>
spaces == <<page, life, waits>>
mmu == <<ttbr, tlb>>
local == <<space, id, old, todo>>

\* A tag: the generation and the number; 0 for a space that never ran.
Tags == [gen : 0..MaxGen, asid : ASIDs \union {0}]
NoTag == [gen |-> 0, asid |-> 0]
\* What TTBR0 may hold, and what a TLB keeps of a walk.
Tables == [space : Spaces \union {Empty}, asid : ASIDs \union {0}]
NoTable == [space |-> Empty, asid |-> 0]
Entries == ASIDs \X Spaces

\* The walker still finds the page.
Walkable(p, s) == s # Empty /\ p[s] \in {"mapped", "clearing"}

\* What the CPUs keep in their TLBs with the tables `t` in TTBR0.
Walked(b, t, p) ==
    [c \in CPUs |-> IF Walkable(p, t[c].space) THEN b[c] \union {<<t[c].asid, t[c].space>>} ELSE b[c]]

Go(c, label) == pc' = [pc EXCEPT ![c] = label]

\* CPU `c` writes its TTBR0.
SetTable(c, table) ==
    /\ ttbr' = [ttbr EXCEPT ![c] = table]
    /\ tlb' = Walked(tlb, ttbr', page)

Init ==
    /\ generation = 1 /\ owing = {}
    /\ active = [c \in CPUs |-> NoTag]
    /\ tag = [s \in Spaces |-> NoTag]
    /\ used = {}
    /\ reserved = [c \in CPUs |-> NoTag]
    /\ obj = NoCpu
    /\ ttbr = [c \in CPUs |-> NoTable]
    /\ tlb = [c \in CPUs |-> {}]
    /\ page = [s \in Spaces |-> "mapped"]
    /\ life = [s \in Spaces |-> "live"]
    /\ waits = [s \in Spaces |-> {}]
    /\ pc = [c \in CPUs |-> "kernel"]
    /\ space = [c \in CPUs |-> Empty]
    /\ id = [c \in CPUs |-> NoTag]
    /\ old = [c \in CPUs |-> NoTag]
    /\ todo = {}

-----------------------------------------------------------------------------
(* switch_fast.                                                            *)

\* fast returns None: AddressSpace::activate goes the slow way.
None(c) ==
    /\ id' = [id EXCEPT ![c] = NoTag]
    /\ old' = [old EXCEPT ![c] = NoTag]
    /\ Go(c, "slow")

\* Process::activate of a space that TTBR0 does not hold: `fast` loads the
\* tag, `active` and the generation.  The loads are one step: what changes
\* between them is a new generation of another CPU, which empties `active`, so
\* that the swap fails.  An empty `active`, or a tag of another generation,
\* sends the CPU to the slow path.
Activate(c, s) ==
    /\ pc[c] = "kernel"
    /\ life[s] = "live" /\ ttbr[c].space # s
    /\ space' = [space EXCEPT ![c] = s]
    /\ IF active[c] = NoTag \/ tag[s].gen # generation THEN None(c)
       ELSE /\ id' = [id EXCEPT ![c] = tag[s]]
            /\ old' = [old EXCEPT ![c] = active[c]]
            /\ Go(c, "swap")
    /\ UNCHANGED <<shared, obj, mmu, spaces, todo>>

\* Mutant: a plain store into `active` after the looks.
StoreActive(c) ==
    /\ pc[c] = "swap"
    /\ active' = [active EXCEPT ![c] = id[c]]
    /\ old' = [old EXCEPT ![c] = NoTag]
    /\ Go(c, "set")
    /\ UNCHANGED <<generation, owing, tag, used, reserved, obj, mmu, spaces, space, id, todo>>

\* fast compares and swaps `active`: a new generation that emptied it makes
\* it fail.
CompareExchange(c) ==
    /\ pc[c] = "swap"
    /\ IF active[c] # old[c] THEN None(c) /\ UNCHANGED active
       ELSE /\ active' = [active EXCEPT ![c] = id[c]]
            /\ old' = [old EXCEPT ![c] = NoTag]
            /\ Go(c, "set") /\ UNCHANGED id
    /\ UNCHANGED <<generation, owing, tag, used, reserved, obj, mmu, spaces, space, todo>>

-----------------------------------------------------------------------------
(* switch_slow, in a section under OBJ.                                    *)

\* AddressSpace::activate takes OBJ, or holds it since it began a generation.
Held(c) == (pc[c] = "slow" /\ obj = NoCpu) \/ (pc[c] = "reserve" /\ todo = {})

\* The tag AsidAllocator::activate loads: it is written only under OBJ.
Old(c) == tag[space[c]]

\* A CPU reserved exactly the old tag.
Adoptable(c) == Old(c) # NoTag /\ \E d \in CPUs : reserved[d] = Old(c)

\* The end of AsidAllocator::activate: the tag of the space, what the CPU owes,
\* and its `active` word.
Install(c, new) ==
    /\ obj' = c
    /\ id' = [id EXCEPT ![c] = new]
    /\ tag' = [tag EXCEPT ![space[c]] = new]
    /\ owing' = owing \ {c}
    /\ active' = [active EXCEPT ![c] = new]
    /\ Go(c, IF c \in owing THEN "flush" ELSE "set")

\* A tag of this generation keeps its number.
Keep(c) ==
    /\ Held(c) /\ Old(c).gen = generation
    /\ Install(c, Old(c))
    /\ UNCHANGED <<generation, used, reserved, mmu, spaces, space, old, todo>>

\* adopt: every reservation of the old tag moves to the new one.
Adopt(c) ==
    /\ Held(c) /\ Old(c).gen # generation /\ Adoptable(c)
    /\ LET new == [gen |-> generation, asid |-> Old(c).asid] IN
        /\ reserved' = [d \in CPUs |-> IF reserved[d] = Old(c) THEN new ELSE reserved[d]]
        /\ Install(c, new)
    /\ UNCHANGED <<generation, used, mmu, spaces, space, old, todo>>

\* take: a number that is free in this generation.
Take(c, a) ==
    /\ Held(c) /\ Old(c).gen # generation /\ ~Adoptable(c)
    /\ a \in ASIDs \ used
    /\ used' = used \union {a}
    /\ Install(c, [gen |-> generation, asid |-> a])
    /\ UNCHANGED <<generation, reserved, mmu, spaces, space, old, todo>>

\* new_context: no number is left, so a new generation may begin.
Exhausted(c) ==
    /\ pc[c] = "slow" /\ obj = NoCpu
    /\ Old(c).gen # generation /\ ~Adoptable(c)
    /\ used = ASIDs /\ generation < MaxGen

\* Mutant (break-flush): no CPU owes a flush.
GenerationFlushed(c) ==
    /\ Exhausted(c)
    /\ obj' = c
    /\ generation' = generation + 1
    /\ used' = {}
    /\ todo' = CPUs
    /\ owing' = {}
    /\ Go(c, "reserve")
    /\ UNCHANGED <<active, tag, reserved, mmu, spaces, space, id, old>>

\* The counter rises before anything else; the map is emptied, and every CPU
\* owes a flush, which it looks at only under OBJ.
NewGeneration(c) ==
    /\ Exhausted(c)
    /\ obj' = c
    /\ generation' = generation + 1
    /\ used' = {}
    /\ todo' = CPUs
    /\ owing' = CPUs
    /\ Go(c, "reserve")
    /\ UNCHANGED <<active, tag, reserved, mmu, spaces, space, id, old>>

\* new_generation takes what CPU `d` runs out of its `active` word and keeps
\* the number; one that was reserved before stays.
Reserve(c, d) ==
    /\ pc[c] = "reserve" /\ d \in todo
    /\ todo' = todo \ {d}
    /\ active' = [active EXCEPT ![d] = NoTag]
    /\ reserved' = [reserved EXCEPT ![d] = IF active[d] # NoTag THEN active[d] ELSE @]
    /\ used' = used \union ({reserved'[d].asid} \ {0})
    /\ UNCHANGED <<generation, owing, tag, obj, mmu, spaces, pc, space, id, old>>

\* switch_slow leaves the old tables for the empty one, and flushes then: no
\* walk brings an entry back between the two.
FlushAll(c) ==
    /\ pc[c] = "flush"
    /\ ttbr' = [ttbr EXCEPT ![c] = NoTable]
    /\ tlb' = [tlb EXCEPT ![c] = {}]
    /\ Go(c, "set")
    /\ UNCHANGED <<shared, obj, spaces, local>>

\* Both paths end with the write of TTBR0; the slow one leaves OBJ.
Switch(c) ==
    /\ pc[c] = "set"
    /\ SetTable(c, [space |-> space[c], asid |-> id[c].asid])
    /\ obj' = IF obj = c THEN NoCpu ELSE obj
    /\ space' = [space EXCEPT ![c] = Empty]
    /\ id' = [id EXCEPT ![c] = NoTag]
    /\ Go(c, "kernel")
    /\ UNCHANGED <<shared, spaces, old, todo>>

-----------------------------------------------------------------------------
(* Quiescent points, pages and the end of a space.                         *)

\* qsbr::mark, or sleep: the CPU leaves the tables of its last thread, and
\* then passes its point.
Leave(c) ==
    /\ pc[c] = "kernel"
    /\ SetTable(c, NoTable)
    /\ waits' = [s \in Spaces |-> waits[s] \ {c}]
    /\ UNCHANGED <<shared, obj, page, life, pc, local>>

\* A thread of the space runs, or is about to, on CPU `c`.
Uses(c, s) == space[c] = s

\* retire_quiet, in the section of the stage Space: no thread of the process
\* is left; this CPU leaves the tables, the others have a period to.
Retire(c, s) ==
    /\ pc[c] = "kernel" /\ obj = NoCpu
    /\ life[s] = "live" /\ \A d \in CPUs : ~Uses(d, s)
    /\ life' = [life EXCEPT ![s] = "retired"]
    /\ waits' = [waits EXCEPT ![s] = CPUs]
    /\ IF ttbr[c].space = s THEN SetTable(c, NoTable) ELSE UNCHANGED mmu
    /\ UNCHANGED <<shared, obj, page, pc, local>>

\* A number of the space is its own: of this generation, or reserved by a CPU.
Owned(s) == tag[s] # NoTag /\ (tag[s].gen = generation \/ \E d \in CPUs : reserved[d] = tag[s])

\* The TLBs of all CPUs without the entries of ASID `a`.
Invalidated(a) == [d \in CPUs |-> {e \in tlb[d] : e[1] # a}]

\* retire_asid: the entries of a number that is free again go everywhere.
InvalidateAsid(s) ==
    tlb' = IF Owned(s) THEN Walked(Invalidated(tag[s].asid), ttbr, page) ELSE tlb

\* AsidAllocator::release: the number is free when it was the space's own, and
\* no reservation and no `active` word names it any more.
Void(s) ==
    /\ tag' = [tag EXCEPT ![s] = NoTag]
    /\ used' = IF Owned(s) THEN used \ {tag[s].asid} ELSE used
    /\ reserved' = [d \in CPUs |-> IF reserved[d] = tag[s] THEN NoTag ELSE reserved[d]]
    /\ active' = [d \in CPUs |-> IF active[d] = tag[s] THEN NoTag ELSE active[d]]

\* drop_asid, once every CPU passed a point: the ASID goes, and then the tables
\* with all they map.
Release(c, s) ==
    /\ pc[c] = "kernel" /\ obj = NoCpu
    /\ life[s] = "retired" /\ waits[s] = {}
    /\ life' = [life EXCEPT ![s] = "gone"]
    /\ page' = [page EXCEPT ![s] = "unmapped"]
    /\ Void(s) /\ InvalidateAsid(s)
    /\ UNCHANGED <<generation, owing, obj, ttbr, waits, pc, local>>

\* A page is mapped, in a section.
Map(c, s) ==
    /\ pc[c] = "kernel" /\ obj = NoCpu
    /\ life[s] = "live" /\ page[s] = "unmapped"
    /\ page' = [page EXCEPT ![s] = "mapped"]
    /\ tlb' = Walked(tlb, ttbr, page')
    /\ UNCHANGED <<shared, obj, ttbr, life, waits, pc, local>>

\* unmap_pages clears the descriptor, in a section; a walker may read the old
\* one until the barrier.
Unmap(c, s) ==
    /\ pc[c] = "kernel" /\ obj = NoCpu
    /\ life[s] = "live" /\ page[s] = "mapped"
    /\ obj' = c
    /\ space' = [space EXCEPT ![c] = s]
    /\ page' = [page EXCEPT ![s] = "clearing"]
    /\ Go(c, "written")
    /\ UNCHANGED <<shared, mmu, life, waits, id, old, todo>>

\* forget_range: tables_written, and the tag is read after it.
TablesWritten(c) ==
    /\ pc[c] = "written"
    /\ page' = [page EXCEPT ![space[c]] = "cleared"]
    /\ id' = [id EXCEPT ![c] = tag[space[c]]]
    /\ Go(c, "forget")
    /\ UNCHANGED <<shared, obj, mmu, life, waits, space, old, todo>>

\* Mutant: only a tag of this generation has entries to forget.
ForgetCurrent(c) ==
    /\ pc[c] = "forget"
    /\ tlb' = IF id[c].gen # generation THEN tlb ELSE Walked(Invalidated(id[c].asid), ttbr, page)
    /\ page' = [page EXCEPT ![space[c]] = "unmapped"]
    /\ obj' = NoCpu
    /\ space' = [space EXCEPT ![c] = Empty]
    /\ id' = [id EXCEPT ![c] = NoTag]
    /\ Go(c, "kernel")
    /\ UNCHANGED <<shared, ttbr, life, waits, old, todo>>

\* forget_range: the TLBIs name the number the tag holds, of whichever
\* generation, and are complete when it returns. They name the page too: a space
\* has one page here, at one address in all of them.
Forget(c) ==
    /\ pc[c] = "forget"
    /\ tlb' = IF id[c] = NoTag THEN tlb ELSE Walked(Invalidated(id[c].asid), ttbr, page)
    /\ page' = [page EXCEPT ![space[c]] = "unmapped"]
    /\ obj' = NoCpu
    /\ space' = [space EXCEPT ![c] = Empty]
    /\ id' = [id EXCEPT ![c] = NoTag]
    /\ Go(c, "kernel")
    /\ UNCHANGED <<shared, ttbr, life, waits, old, todo>>

-----------------------------------------------------------------------------
Slow(c) ==
    \/ Keep(c) \/ Adopt(c) \/ (\E a \in ASIDs : Take(c, a)) \/ NewGeneration(c)
    \/ (\E d \in CPUs : Reserve(c, d))
    \/ FlushAll(c) \/ Switch(c)

Other(c) ==
    \/ Leave(c) \/ TablesWritten(c) \/ Forget(c)
    \/ \E s \in Spaces : Activate(c, s)
    \/ \E s \in Mortal : Retire(c, s) \/ Release(c, s)
    \/ \E s \in Paged : Map(c, s) \/ Unmap(c, s)

Next == \E c \in CPUs : CompareExchange(c) \/ Slow(c) \/ Other(c)

Spec == Init /\ [][Next]_vars

-----------------------------------------------------------------------------
(* The type invariant.                                                     *)
TypeOK ==
    /\ generation \in 1..MaxGen /\ owing \in SUBSET CPUs
    /\ active \in [CPUs -> Tags] /\ tag \in [Spaces -> Tags]
    /\ used \in SUBSET ASIDs /\ reserved \in [CPUs -> Tags]
    /\ obj \in CPUs \union {NoCpu}
    /\ ttbr \in [CPUs -> Tables]
    /\ tlb \in [CPUs -> SUBSET Entries]
    /\ page \in [Spaces -> {"mapped", "clearing", "cleared", "unmapped"}]
    /\ life \in [Spaces -> {"live", "retired", "gone"}]
    /\ waits \in [Spaces -> SUBSET CPUs]
    /\ pc \in [CPUs -> {"kernel", "swap", "slow", "reserve",
                        "flush", "set", "written", "forget"}]
    /\ space \in [CPUs -> Spaces \union {Empty}]
    /\ id \in [CPUs -> Tags] /\ old \in [CPUs -> Tags]
    /\ todo \in SUBSET CPUs

\* A CPU that holds the tables of a space and is not at the end of a switch:
\* there `active` names the new space while TTBR0 still holds the old one, and
\* no address of a program is used.
Settled(c) == ttbr[c].space # Empty /\ pc[c] \notin {"flush", "set"}

\* A CPU never uses an entry of another space under the ASID it runs with,
\* across generations it only learns of at its next slow switch
\* (four_cpus_never_use_an_entry_of_another_space).
OwnEntries ==
    \A c \in CPUs : Settled(c) =>
        \A e \in tlb[c] : e[1] = ttbr[c].asid => e[2] = ttbr[c].space

\* Once unmap_pages returned, no CPU that runs the space has an entry of the
\* page, whichever generation the space got its number in: the frame may go
\* elsewhere right after. And the tables themselves go back once no CPU holds
\* them (drop_asid), not even one that walks ahead of its code.
Forgotten ==
    \A c \in CPUs :
        /\ Settled(c) /\ page[ttbr[c].space] = "unmapped" =>
            <<ttbr[c].asid, ttbr[c].space>> \notin tlb[c]
        /\ ttbr[c].space # Empty => life[ttbr[c].space] # "gone"

\* Two spaces never run with one ASID at a time, and one space never with two:
\* a TLBI for the one would miss or hit the other. And a number a space may
\* still bring back, of this generation or reserved, is used: take never hands
\* it out, and "ASID {i} released while free" (unset) does not happen.
OneSpaceAnAsid ==
    /\ \A c, d \in CPUs : Settled(c) /\ Settled(d) =>
        (ttbr[c].asid = ttbr[d].asid <=> ttbr[c].space = ttbr[d].space)
    /\ obj = NoCpu => \A s \in Spaces : Owned(s) => tag[s].asid \in used
=============================================================================
