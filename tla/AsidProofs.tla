----------------------------- MODULE AsidProofs -----------------------------
(***************************************************************************)
(* Proofs about Asid, for any CPUs, spaces, numbers and generations: no    *)
(* CPU uses an entry of another space, a page that was unmapped is in no   *)
(* TLB that could use it, and two spaces never run with one ASID.          *)
(***************************************************************************)
EXTENDS Asid, TLAPS

-----------------------------------------------------------------------------
(* The inductive invariant.                                                *)

\* Some CPU is at the CPUs' `active` words in new_generation.
Reserving == \E c \in CPUs : pc[c] = "reserve"

\* The generation whose numbers run: while new_generation is at work, still
\* the one before.
Current == IF Reserving THEN generation - 1 ELSE generation

\* A number the space may still use or bring back.
Claims(s) ==
    /\ tag[s] # NoTag
    /\ tag[s].gen = Current \/ \E d \in CPUs : reserved[d] = tag[s]

\* A tag is the empty one, or has a generation and a number.
Proper(t) == t = NoTag \/ (t.gen # 0 /\ t.asid \in ASIDs)
TagsProper ==
    /\ \A c \in CPUs : Proper(active[c]) /\ Proper(reserved[c]) /\ Proper(id[c]) /\ Proper(old[c])
    /\ \A s \in Spaces : Proper(tag[s]) /\ tag[s].gen <= Current

\* The section under OBJ has one CPU; what a CPU is doing names its space,
\* which lives as long.
Sections ==
    /\ \A c \in CPUs :
        /\ pc[c] \in {"reserve", "flush", "written", "forget"} => obj = c
        /\ obj = c => pc[c] \in {"reserve", "flush", "set", "written", "forget"}
        /\ pc[c] = "kernel" <=> space[c] = Empty
        /\ space[c] # Empty => life[space[c]] = "live"
        /\ pc[c] = "written" => page[space[c]] = "clearing"
        /\ pc[c] = "forget" => id[c] = tag[space[c]] /\ page[space[c]] = "cleared"
    /\ todo # {} => Reserving
    /\ Reserving => owing = CPUs
    /\ generation - 1 >= 0 /\ (Reserving => generation > 1)

\* `active` names a space of the running generation, on a CPU that owes no
\* flush unless new_generation is about to empty the word; a reservation names
\* a space too.
Words ==
    \A c \in CPUs :
        /\ active[c] # NoTag =>
            /\ active[c].gen = Current
            /\ \E s \in Spaces : tag[s] = active[c]
            /\ c \notin owing \/ (Reserving /\ c \in todo)
        /\ reserved[c] # NoTag => \E s \in Spaces : tag[s] = reserved[c]

\* No two spaces claim one number, and take finds every claimed number used.
Unique ==
    \A r, s \in Spaces : Claims(r) /\ Claims(s) /\ tag[r].asid = tag[s].asid => r = s
InUse ==
    /\ ~Reserving => \A s \in Spaces : Claims(s) => tag[s].asid \in used
    /\ Reserving => \A d \in CPUs \ todo : reserved[d] # NoTag => reserved[d].asid \in used

\* The swap of `active` will succeed unless a generation begins before it.
Ready(c) == pc[c] = "swap" /\ active[c] = old[c]

\* The number a CPU is about to write into TTBR0 is its space's, and the space
\* is protected by `active` or, after a new generation, by the reservation.
Switches ==
    \A c \in CPUs :
        /\ pc[c] = "swap" => old[c] # NoTag
        /\ Ready(c) => id[c] = tag[space[c]] /\ id[c].gen = Current
        /\ pc[c] \in {"flush", "set"} =>
            /\ tag[space[c]] # NoTag
            /\ id[c].asid = tag[space[c]].asid
            /\ active[c] = tag[space[c]]
               \/ (c \in owing /\ active[c] = NoTag /\ reserved[c] = tag[space[c]])

\* So it is with the tables in TTBR0 outside a switch.
Loaded ==
    \A c \in CPUs :
        /\ ttbr[c].space = Empty <=> ttbr[c].asid = 0
        /\ Settled(c) =>
            /\ tag[ttbr[c].space] # NoTag
            /\ ttbr[c].asid = tag[ttbr[c].space].asid
            /\ active[c] = tag[ttbr[c].space]
               \/ (c \in owing /\ active[c] = NoTag /\ reserved[c] = tag[ttbr[c].space])

\* A retired space is in the TTBR0 of no CPU that passed its point.
Points ==
    \A c \in CPUs : ttbr[c].space # Empty =>
        LET s == ttbr[c].space
        IN  life[s] = "live" \/ (life[s] = "retired" /\ c \in waits[s])

\* A CPU that flushed in this generation holds entries of this generation
\* alone, and none of an unmapped page.
Fresh(c) == c \notin owing /\ pc[c] # "flush"
FreshTlb ==
    \A c \in CPUs : Fresh(c) =>
        /\ \A e \in tlb[c] : /\ tag[e[2]].gen = generation /\ tag[e[2]].asid = e[1]
                             /\ page[e[2]] # "unmapped"
        /\ ttbr[c].space # Empty =>
            tag[ttbr[c].space].gen = generation /\ tag[ttbr[c].space].asid = ttbr[c].asid

\* No entry of CPU `c` under the number `a` is of another space than `s`, and
\* none is of an unmapped page.
Clean(c, s, a) ==
    /\ \A e \in tlb[c] : e[1] = a => e[2] = s /\ page[s] # "unmapped"
    /\ ttbr[c].asid = a => ttbr[c].space = s
NoStrangers ==
    \A c \in CPUs :
        /\ pc[c] = "set" \/ Ready(c) => Clean(c, space[c], id[c].asid)
        /\ Settled(c) => Clean(c, ttbr[c].space, ttbr[c].asid)

AsidInductive ==
    /\ TypeOK /\ TagsProper /\ Sections /\ Words /\ Unique /\ InUse
    /\ Switches /\ Loaded /\ Points /\ FreshTlb /\ NoStrangers

\* Every step keeps the types: an ASID in TTBR0 or a TLB is never 0 with a
\* space.
LEMMA TypeStep ==
  ASSUME TypeOK, TagsProper, Sections, Switches, Loaded, [Next]_vars
  PROVE TypeOK'
  <1>a. NoTag \in Tags
    BY AsidAssumption DEF Tags, NoTag
  <1>b. /\ NoTable \in Tables
        /\ NoTable.space = Empty /\ NoTable.asid = 0
    BY DEF NoTable, Tables
  <1>c. ASSUME NEW a \in ASIDs PROVE [gen |-> generation, asid |-> a] \in Tags
    BY AsidAssumption DEF Tags, TypeOK
  <1>d. ASSUME NEW t \in Tags PROVE t.asid \in ASIDs \union {0}
    BY DEF Tags
  <1> USE <1>a DEF TypeOK, shared, spaces, mmu, local, Go
  <1>0. CASE UNCHANGED vars
    BY <1>0 DEF vars
  <1>1. ASSUME NEW t \in [CPUs -> Tables],
               \A c \in CPUs : t[c].space = Empty <=> t[c].asid = 0,
               NEW b \in [CPUs -> SUBSET Entries], NEW p
        PROVE Walked(b, t, p) \in [CPUs -> SUBSET Entries]
    BY <1>1, AsidAssumption DEF Walked, Walkable, Tables, Entries
  <1>2. ASSUME NEW c \in CPUs, CompareExchange(c) PROVE TypeOK'
    BY <1>2 DEF CompareExchange, None
  <1>3. ASSUME NEW c \in CPUs, Keep(c) PROVE TypeOK'
    BY <1>3 DEF Keep, Install, Old, Held, Sections
  <1>4. ASSUME NEW c \in CPUs, Adopt(c) PROVE TypeOK'
    BY <1>4, <1>c, AsidAssumption DEF Adopt, Install, Old, Held, Adoptable, TagsProper, Proper
  <1>5. ASSUME NEW c \in CPUs, NEW a \in ASIDs, Take(c, a) PROVE TypeOK'
    BY <1>5, <1>c DEF Take, Install, Old, Held
  <1>6. ASSUME NEW c \in CPUs, NewGeneration(c) PROVE TypeOK'
    BY <1>6, AsidAssumption DEF NewGeneration, Exhausted
  <1>7. ASSUME NEW c \in CPUs, NEW d \in CPUs, Reserve(c, d) PROVE TypeOK'
    BY <1>7, <1>d DEF Reserve
  <1>8. ASSUME NEW c \in CPUs, FlushAll(c) PROVE TypeOK'
    BY <1>8, <1>b DEF FlushAll
  <1>9. ASSUME NEW c \in CPUs, Switch(c) PROVE TypeOK'
    <2> DEFINE new == [space |-> space[c], asid |-> id[c].asid]
    <2>1. space[c] \in Spaces /\ id[c].asid \in ASIDs
      BY <1>9 DEF Switch, Sections, Switches, TagsProper, Proper
    <2>2. new \in Tables /\ (new.space = Empty <=> new.asid = 0)
      BY <2>1, AsidAssumption DEF Tables
    <2>3. ttbr' \in [CPUs -> Tables]
          /\ \A d \in CPUs : ttbr'[d].space = Empty <=> ttbr'[d].asid = 0
      BY <2>2, <1>9 DEF Switch, SetTable, Loaded
    <2>4. tlb' \in [CPUs -> SUBSET Entries]
      BY <2>3, <1>1, <1>9 DEF Switch, SetTable
    <2> QED
      BY <2>3, <2>4, <1>9 DEF Switch
  <1>10. ASSUME NEW c \in CPUs, Leave(c) PROVE TypeOK'
    BY <1>10, <1>1, <1>b DEF Leave, SetTable, Loaded
  <1>11. ASSUME NEW c \in CPUs, TablesWritten(c) PROVE TypeOK'
    BY <1>11 DEF TablesWritten, Sections
  <1>12. ASSUME NEW c \in CPUs, Forget(c) PROVE TypeOK'
    BY <1>12, <1>1 DEF Forget, Invalidated, Loaded
  <1>13. ASSUME NEW c \in CPUs, NEW s \in Spaces, Activate(c, s) PROVE TypeOK'
    BY <1>13 DEF Activate, None
  <1>14. ASSUME NEW c \in CPUs, NEW s \in Mortal, Retire(c, s) PROVE TypeOK'
    <2>1. CASE ttbr[c].space = s
      <3>1. ttbr' \in [CPUs -> Tables] /\ \A d \in CPUs : ttbr'[d].space = Empty <=> ttbr'[d].asid = 0
        BY <1>14, <2>1, <1>b DEF Retire, SetTable, Loaded
      <3>2. tlb' \in [CPUs -> SUBSET Entries]
        BY <3>1, <1>1, <1>14, <2>1 DEF Retire, SetTable
      <3> QED
        BY <3>1, <3>2, <1>14, AsidAssumption DEF Retire
    <2>2. CASE ttbr[c].space # s
      BY <1>14, <2>2, AsidAssumption DEF Retire
    <2> QED
      BY <2>1, <2>2
  <1>15. ASSUME NEW c \in CPUs, NEW s \in Mortal, Release(c, s) PROVE TypeOK'
    BY <1>15, <1>1, AsidAssumption DEF Release, Void, InvalidateAsid, Invalidated, Loaded
  <1>16. ASSUME NEW c \in CPUs, NEW s \in Paged, Map(c, s) PROVE TypeOK'
    BY <1>16, <1>1, AsidAssumption DEF Map, Loaded
  <1>17. ASSUME NEW c \in CPUs, NEW s \in Paged, Unmap(c, s) PROVE TypeOK'
    BY <1>17, AsidAssumption DEF Unmap
  <1> QED
    BY <1>0, <1>2, <1>3, <1>4, <1>5, <1>6, <1>7, <1>8, <1>9, <1>10, <1>11, <1>12, <1>13, <1>14, <1>15, <1>16, <1>17 DEF Next, Slow, Other

\* What a walk of the tables in TTBR0 may add to a TLB.
LEMMA Walks ==
  ASSUME NEW b, NEW t, NEW p, NEW c \in CPUs, NEW e \in Walked(b, t, p)[c]
  PROVE \/ e \in b[c]
        \/ /\ e[1] = t[c].asid /\ e[2] = t[c].space
           /\ t[c].space # Empty /\ p[t[c].space] \in {"mapped", "clearing"}
  BY DEF Walked, Walkable

\* A write of TTBR0 adds a walk of the new tables at most.
LEMMA TableStep ==
  ASSUME NEW c \in CPUs, NEW t, SetTable(c, t), NEW d \in CPUs, NEW e \in tlb'[d]
  PROVE \/ e \in tlb[d]
        \/ /\ e[1] = ttbr'[d].asid /\ e[2] = ttbr'[d].space
           /\ ttbr'[d].space # Empty /\ page[ttbr'[d].space] # "unmapped"
  <1>1. e \in Walked(tlb, ttbr', page)[d]
    BY DEF SetTable
  <1> QED
    BY <1>1, Walks

\* What TTBR0 and a TLB hold.
LEMMA Holds ==
  ASSUME TypeOK, NEW c \in CPUs
  PROVE /\ ttbr[c].space \in Spaces \union {Empty} /\ ttbr[c].asid \in ASIDs \union {0}
        /\ \A e \in tlb[c] : e[1] \in ASIDs /\ e[2] \in Spaces
        /\ NoTable.space = Empty /\ NoTable.asid = 0
  BY DEF TypeOK, Tables, Entries, NoTable

\* A CPU about to write TTBR0 has a space and a number.
LEMMA SwitchNumber ==
  ASSUME TypeOK, TagsProper, Sections, Switches, NEW c \in CPUs,
         pc[c] \in {"flush", "set"} \/ Ready(c)
  PROVE /\ space[c] \in Spaces /\ tag[space[c]] # NoTag
        /\ id[c].asid \in ASIDs /\ id[c].asid = tag[space[c]].asid
  <1>1. space[c] \in Spaces
    BY DEF TypeOK, Sections, Ready
  <1>2. CASE pc[c] \in {"flush", "set"}
    BY <1>1, <1>2 DEF Switches, TagsProper, Proper
  <1>3. CASE Ready(c)
    BY <1>1, <1>3 DEF TypeOK, Switches, TagsProper, Proper, Sections, Current, NoTag
  <1> QED
    BY <1>2, <1>3

\* CPUs that leave their tables, or only walk, bring no entry that is not their
\* space's.
LEMMA WalkStep ==
  ASSUME TypeOK, TagsProper, Sections, Switches, Loaded, FreshTlb, NoStrangers,
         UNCHANGED <<shared, pc, local>>,
         \A s \in Spaces : page[s] # "unmapped" => page'[s] # "unmapped",
         \A d \in CPUs : ttbr'[d] = ttbr[d] \/ ttbr'[d] = NoTable,
         \A d \in CPUs : \A e \in tlb'[d] :
            \/ e \in tlb[d]
            \/ /\ e[1] = ttbr'[d].asid /\ e[2] = ttbr'[d].space
               /\ ttbr'[d].space # Empty /\ page'[ttbr'[d].space] # "unmapped"
  PROVE Loaded' /\ FreshTlb' /\ NoStrangers'
  <1> USE DEF shared, local
  <1>1. Loaded'
    BY Holds DEF Loaded, Settled
  <1>2. ASSUME NEW d \in CPUs, Fresh(d), NEW e \in tlb'[d]
        PROVE tag[e[2]].gen = generation /\ tag[e[2]].asid = e[1] /\ page'[e[2]] # "unmapped"
    BY <1>2, Holds DEF FreshTlb
  <1>3. ASSUME NEW d \in CPUs, Fresh(d), ttbr'[d].space # Empty
        PROVE tag[ttbr'[d].space].gen = generation /\ tag[ttbr'[d].space].asid = ttbr'[d].asid
    BY <1>3, Holds DEF FreshTlb
  <1>4. FreshTlb'
    BY <1>2, <1>3 DEF FreshTlb, Fresh
  <1>5. ASSUME NEW d \in CPUs, NEW s, NEW a, a # 0, Clean(d, s, a)
        PROVE Clean(d, s, a)'
    BY <1>5, Holds, AsidAssumption DEF Clean
  <1>6. ASSUME NEW d \in CPUs, Ready(d)' \/ pc'[d] = "set"
        PROVE Clean(d, space[d], id[d].asid)'
    BY <1>5, <1>6, SwitchNumber, AsidAssumption DEF NoStrangers, Ready
  <1>7. ASSUME NEW d \in CPUs, Settled(d)'
        PROVE Clean(d, ttbr[d].space, ttbr[d].asid)'
    BY <1>5, <1>7, Holds DEF NoStrangers, Settled, Loaded
  <1>8. NoStrangers'
    BY <1>6, <1>7 DEF NoStrangers
  <1> QED
    BY <1>1, <1>4, <1>8

\* A step that leaves the tags, the words of the CPUs and the allocator alone.
LEMMA SameWords ==
  ASSUME Words, Unique, InUse, UNCHANGED <<shared, todo>>, Reserving' <=> Reserving
  PROVE Words' /\ Unique' /\ InUse'
  BY DEF Words, Unique, InUse, Claims, Current, shared

\* The swap of `active` in switch_fast.
LEMMA CompareExchangeStep ==
  ASSUME AsidInductive, TypeOK', NEW c \in CPUs, CompareExchange(c)
  PROVE AsidInductive'
  <1> USE AsidAssumption DEF AsidInductive, TypeOK, shared, spaces, mmu, local, Go
  <1>0. Reserving' <=> Reserving
    BY DEF CompareExchange, None, Reserving
  <1>1. TagsProper' /\ Sections'
    BY <1>0 DEF CompareExchange, None, TagsProper, Proper, Current, Sections
  <1>2. Words'
    BY <1>0 DEF CompareExchange, None, Words, Current, Switches, Ready, Sections, TagsProper, Proper, NoTag
  <1>3. Unique' /\ InUse'
    BY <1>0 DEF CompareExchange, None, Unique, InUse, Claims, Current
  <1>4. Switches'
    BY <1>0 DEF CompareExchange, None, Switches, Ready, Current, TagsProper, Proper, NoTag, Sections
  <1>5. Loaded' /\ Points' /\ FreshTlb'
    BY DEF CompareExchange, None, Loaded, Settled, Points, FreshTlb, Fresh
  <1>6. NoStrangers'
    BY DEF CompareExchange, None, NoStrangers, Clean, Settled, Ready
  <1> QED
    BY <1>1, <1>2, <1>3, <1>4, <1>5, <1>6

\* The loads of switch_fast: the tag is of the running generation, and the CPU
\* flushed in it.
LEMMA ActivateStep ==
  ASSUME AsidInductive, TypeOK', NEW c \in CPUs, NEW s \in Spaces, Activate(c, s)
  PROVE AsidInductive'
  <1> USE AsidAssumption DEF AsidInductive, TypeOK, shared, spaces, mmu, local, Go
  <1>0. Reserving' <=> Reserving
    BY DEF Activate, None, Reserving
  <1>1. TagsProper'
    BY <1>0 DEF Activate, None, TagsProper, Proper, Current
  <1>2. Sections'
    BY <1>0 DEF Activate, None, Sections
  <1>3. Words' /\ Unique' /\ InUse'
    BY <1>0, SameWords DEF Activate
  <1>4. Switches'
    BY <1>0 DEF Activate, None, Switches, Ready, Current, TagsProper, Words, Sections, NoTag
  <1>5. Loaded' /\ Points' /\ FreshTlb'
    BY DEF Activate, None, Loaded, Settled, Points, FreshTlb, Fresh
  <1>6. NoStrangers'
    <2>1. CASE active[c] = NoTag \/ tag[s].gen # generation
      BY <2>1 DEF Activate, None, NoStrangers, Clean, Settled, Ready, Switches
    <2>2. CASE active[c] # NoTag /\ tag[s].gen = generation
      <3>1. ~Reserving /\ c \notin owing /\ tag[s] # NoTag
        BY <2>2 DEF Words, TagsProper, Current, Sections, NoTag
      <3>2. Claims(s) /\ Fresh(c) /\ tag[s].asid \in ASIDs
        BY <3>1, <2>2 DEF Activate, Claims, Current, Fresh, TagsProper, Proper
      <3>3. ASSUME NEW r \in Spaces, tag[r].gen = generation, tag[r].asid = tag[s].asid
            PROVE r = s
        BY <3>1, <3>2, <3>3 DEF Unique, Claims, Current, TagsProper, Sections, NoTag
      <3>4. \A e \in tlb[c] : e[1] = tag[s].asid => e[2] = s /\ page[s] # "unmapped"
        BY <3>2, <3>3, Holds DEF FreshTlb
      <3>5. ttbr[c].asid = tag[s].asid => ttbr[c].space = s
        BY <3>2, <3>3, Holds DEF FreshTlb, Loaded
      <3> QED
        BY <3>4, <3>5, <2>2 DEF Activate, NoStrangers, Clean, Settled, Ready
    <2> QED
      BY <2>1, <2>2
  <1> QED
    BY <1>1, <1>2, <1>3, <1>4, <1>5, <1>6

\* The flush of switch_slow.
LEMMA FlushAllStep ==
  ASSUME AsidInductive, TypeOK', NEW c \in CPUs, FlushAll(c)
  PROVE AsidInductive'
  <1> USE AsidAssumption DEF AsidInductive, TypeOK, shared, spaces, mmu, local, Go
  <1>0. Reserving' <=> Reserving
    BY DEF FlushAll, Reserving
  <1>1. TagsProper' /\ Sections'
    BY <1>0 DEF FlushAll, TagsProper, Proper, Current, Sections
  <1>2. Words' /\ Unique' /\ InUse'
    BY <1>0, SameWords DEF FlushAll
  <1>3. Switches'
    BY <1>0 DEF FlushAll, Switches, Ready, Current
  <1>4. Loaded' /\ Points' /\ FreshTlb'
    BY DEF FlushAll, Loaded, Settled, Points, FreshTlb, Fresh, NoTable
  <1>5. NoStrangers'
    BY Holds DEF FlushAll, NoStrangers, Clean, Settled, Ready, Switches, TagsProper, Proper
  <1> QED
    BY <1>1, <1>2, <1>3, <1>4, <1>5

\* The write of TTBR0: the number is the space's, and the TLB was clean for it.
LEMMA SwitchStep ==
  ASSUME AsidInductive, TypeOK', NEW c \in CPUs, Switch(c)
  PROVE AsidInductive'
  <1> USE AsidAssumption DEF AsidInductive, TypeOK, shared, spaces, mmu, local, Go
  <1> DEFINE new == [space |-> space[c], asid |-> id[c].asid]
  <1>0. Reserving' <=> Reserving
    BY DEF Switch, Reserving
  <1>1. TagsProper' /\ Sections'
    BY <1>0 DEF Switch, TagsProper, Proper, NoTag, Current, Sections
  <1>2. Words' /\ Unique' /\ InUse'
    BY <1>0, SameWords DEF Switch
  <1>3. Switches'
    BY <1>0 DEF Switch, Switches, Ready, Current
  <1>4. /\ ttbr' = [ttbr EXCEPT ![c] = new]
        /\ new.space = space[c] /\ new.asid = id[c].asid
    BY DEF Switch, SetTable
  <1>5. /\ space[c] \in Spaces /\ tag[space[c]] # NoTag
        /\ id[c].asid \in ASIDs /\ id[c].asid = tag[space[c]].asid
    BY SwitchNumber DEF Switch
  <1> HIDE DEF new
  <1>6. Loaded'
    BY <1>4, <1>5 DEF Switch, Loaded, Settled, Switches
  <1>7. Points'
    BY <1>4, <1>5 DEF Switch, Points, Sections
  <1>8. ASSUME NEW d \in CPUs, NEW e \in tlb'[d]
        PROVE \/ e \in tlb[d]
              \/ /\ e[1] = ttbr'[d].asid /\ e[2] = ttbr'[d].space
                 /\ ttbr'[d].space # Empty /\ page[ttbr'[d].space] # "unmapped"
    BY ONLY <1>8, TableStep, c \in CPUs, Switch(c) DEF Switch
  <1>9. FreshTlb'
    <2>1. Fresh(c) => tag[space[c]].gen = generation
      BY <1>5 DEF Switch, Switches, Words, Current, Sections, Fresh
    <2>2. ASSUME NEW d \in CPUs, Fresh(d), ttbr'[d].space # Empty
          PROVE tag[ttbr'[d].space].gen = generation /\ tag[ttbr'[d].space].asid = ttbr'[d].asid
      BY <2>1, <2>2, <1>4, <1>5 DEF FreshTlb
    <2>3. ASSUME NEW d \in CPUs, Fresh(d), NEW e \in tlb'[d]
          PROVE tag[e[2]].gen = generation /\ tag[e[2]].asid = e[1] /\ page[e[2]] # "unmapped"
      BY <2>2, <2>3, <1>8 DEF FreshTlb
    <2> QED
      BY <2>2, <2>3 DEF Switch, FreshTlb, Fresh
  <1>10. NoStrangers'
    <2>1. ASSUME NEW d \in CPUs, d # c, NEW s, NEW a, Clean(d, s, a)
          PROVE Clean(d, s, a)'
      BY <2>1, <1>4, <1>8 DEF Switch, Clean
    <2>2. Clean(c, space[c], id[c].asid)
      BY DEF Switch, NoStrangers
    <2>3. Clean(c, ttbr[c].space, ttbr[c].asid)'
      BY <2>2, <1>4, <1>8 DEF Switch, Clean
    <2>4. ASSUME NEW d \in CPUs, pc'[d] = "set" \/ Ready(d)'
          PROVE Clean(d, space[d], id[d].asid)'
      BY <2>1, <2>4 DEF Switch, NoStrangers, Ready
    <2>5. ASSUME NEW d \in CPUs, Settled(d)'
          PROVE Clean(d, ttbr[d].space, ttbr[d].asid)'
      BY <2>1, <2>3, <2>5, <1>4 DEF Switch, NoStrangers, Settled
    <2> QED
      BY <2>4, <2>5 DEF NoStrangers
  <1> QED
    BY <1>1, <1>2, <1>3, <1>6, <1>7, <1>9, <1>10

\* A quiescent point.
LEMMA LeaveStep ==
  ASSUME AsidInductive, TypeOK', NEW c \in CPUs, Leave(c)
  PROVE AsidInductive'
  <1> USE DEF AsidInductive, shared, spaces, local
  <1>0. Reserving' <=> Reserving
    BY DEF Leave, Reserving
  <1>1. TagsProper' /\ Sections'
    BY <1>0 DEF Leave, TagsProper, Proper, Current, Sections
  <1>2. Words' /\ Unique' /\ InUse'
    BY <1>0, SameWords DEF Leave
  <1>3. Switches'
    BY <1>0 DEF Leave, Switches, Ready, Current
  <1>4. ttbr' = [ttbr EXCEPT ![c] = NoTable] /\ waits' = [s \in Spaces |-> waits[s] \ {c}]
    BY DEF Leave, SetTable
  <1>5. \A d \in CPUs : ttbr'[d] = ttbr[d] \/ ttbr'[d] = NoTable
    BY <1>4 DEF TypeOK
  <1>6. Points'
    BY <1>4, Holds DEF TypeOK, Leave, Points
  <1>7. Loaded' /\ FreshTlb' /\ NoStrangers'
    BY <1>5, WalkStep, TableStep DEF Leave
  <1> QED
    BY <1>1, <1>2, <1>3, <1>6, <1>7

\* forget_range reads the tag.
LEMMA TablesWrittenStep ==
  ASSUME AsidInductive, TypeOK', NEW c \in CPUs, TablesWritten(c)
  PROVE AsidInductive'
  <1> USE AsidAssumption DEF AsidInductive, TypeOK, shared, spaces, mmu, local, Go
  <1>0. Reserving' <=> Reserving
    BY DEF TablesWritten, Reserving
  <1>1. TagsProper' /\ Sections'
    BY <1>0 DEF TablesWritten, TagsProper, Proper, Current, Sections
  <1>2. Words' /\ Unique' /\ InUse'
    BY <1>0, SameWords DEF TablesWritten
  <1>3. Switches' /\ Loaded' /\ Points'
    BY <1>0 DEF TablesWritten, Switches, Ready, Current, Loaded, Settled, Points
  <1>4. FreshTlb' /\ NoStrangers'
    BY DEF TablesWritten, FreshTlb, Fresh, NoStrangers, Clean, Settled, Ready
  <1> QED
    BY <1>1, <1>2, <1>3, <1>4

\* The TLBIs of forget_range: every CPU that could use the page has the number
\* of the tag.
LEMMA ForgetStep ==
  ASSUME AsidInductive, TypeOK', NEW c \in CPUs, Forget(c)
  PROVE AsidInductive'
  <1> USE AsidAssumption DEF AsidInductive, TypeOK, shared, spaces, mmu, local, Go
  <1>0. Reserving' <=> Reserving
    BY DEF Forget, Reserving
  <1>1. TagsProper'
    BY <1>0 DEF Forget, TagsProper, Proper, Current
  <1>2. Sections'
    BY <1>0 DEF Forget, Sections
  <1>3. Words' /\ Unique' /\ InUse'
    BY <1>0, SameWords DEF Forget
  <1>4. Switches'
    BY <1>0 DEF Forget, Switches, Ready, Current
  <1>5. Loaded' /\ Points'
    BY DEF Forget, Loaded, Settled, Points
  <1>6. /\ space[c] \in Spaces /\ id[c] = tag[space[c]] /\ page[space[c]] = "cleared"
        /\ page' = [page EXCEPT ![space[c]] = "unmapped"]
    BY DEF Forget, Sections
  <1>7. ASSUME NEW d \in CPUs, NEW e \in tlb'[d]
        PROVE \/ e \in tlb[d] /\ (tag[space[c]] = NoTag \/ e[1] # tag[space[c]].asid)
              \/ /\ e[1] = ttbr[d].asid /\ e[2] = ttbr[d].space
                 /\ ttbr[d].space # Empty /\ page'[ttbr[d].space] # "unmapped"
    <2>1. CASE id[c] = NoTag
      BY <2>1, <1>6, <1>7 DEF Forget
    <2>2. CASE id[c] # NoTag
      <3>1. e \in Walked(Invalidated(id[c].asid), ttbr, page)[d]
        BY <2>2, <1>7 DEF Forget
      <3>2. \/ e \in Invalidated(id[c].asid)[d]
            \/ /\ e[1] = ttbr[d].asid /\ e[2] = ttbr[d].space
               /\ ttbr[d].space # Empty /\ page[ttbr[d].space] \in {"mapped", "clearing"}
        BY <3>1, Walks
      <3> QED
        BY <3>2, <1>6, Holds DEF Invalidated
    <2> QED
      BY <2>1, <2>2
  <1>8. FreshTlb'
    <2>1. ASSUME NEW d \in CPUs, Fresh(d), NEW e \in tlb'[d]
          PROVE tag[e[2]].gen = generation /\ tag[e[2]].asid = e[1] /\ page'[e[2]] # "unmapped"
      BY <2>1, <1>6, <1>7, Holds DEF FreshTlb, Sections, NoTag
    <2> QED
      BY <2>1 DEF Forget, FreshTlb, Fresh
  <1>9. NoStrangers'
    <2>1. ASSUME NEW d \in CPUs, NEW s \in Spaces, tag[s] # NoTag, Clean(d, s, tag[s].asid)
          PROVE Clean(d, s, tag[s].asid)'
      BY <2>1, <1>6, <1>7 DEF Forget, Clean
    <2>2. ASSUME NEW d \in CPUs, pc'[d] = "set" \/ Ready(d)'
          PROVE Clean(d, space[d], id[d].asid)'
      <3>1. d # c /\ (pc[d] = "set" \/ Ready(d))
        BY <2>2 DEF Forget, Ready
      <3>2. /\ space[d] \in Spaces /\ tag[space[d]] # NoTag
            /\ id[d].asid = tag[space[d]].asid
        BY <3>1, SwitchNumber
      <3>3. Clean(d, space[d], tag[space[d]].asid)'
        BY <3>1, <3>2, <2>1 DEF NoStrangers, Forget
      <3> QED
        BY <3>1, <3>2, <3>3 DEF Forget
    <2>3. ASSUME NEW d \in CPUs, Settled(d)'
          PROVE Clean(d, ttbr[d].space, ttbr[d].asid)'
      <3>1. Settled(d) /\ ttbr' = ttbr /\ tag' = tag
        BY <2>3 DEF Forget, Settled
      <3>2. /\ ttbr[d].space \in Spaces /\ tag[ttbr[d].space] # NoTag
            /\ ttbr[d].asid = tag[ttbr[d].space].asid
        BY <3>1, Holds DEF Settled, Loaded
      <3>3. Clean(d, ttbr[d].space, tag[ttbr[d].space].asid)'
        BY <3>1, <3>2, <2>1 DEF NoStrangers
      <3> QED
        BY <3>1, <3>2, <3>3
    <2> QED
      BY <2>2, <2>3 DEF NoStrangers
  <1> QED
    BY <1>1, <1>2, <1>3, <1>4, <1>5, <1>8, <1>9

\* retire_quiet.
LEMMA RetireStep ==
  ASSUME AsidInductive, TypeOK', NEW c \in CPUs, NEW s \in Spaces, Retire(c, s)
  PROVE AsidInductive'
  <1> USE DEF AsidInductive, shared, spaces, local
  <1>0. Reserving' <=> Reserving
    BY DEF Retire, Reserving
  <1>1. TagsProper' /\ Sections'
    BY <1>0 DEF TypeOK, Retire, Uses, TagsProper, Proper, Current, Sections
  <1>2. Words' /\ Unique' /\ InUse'
    BY <1>0, SameWords DEF Retire
  <1>3. Switches'
    BY <1>0 DEF Retire, Switches, Ready, Current
  <1>4. ttbr' = IF ttbr[c].space = s THEN [ttbr EXCEPT ![c] = NoTable] ELSE ttbr
    BY DEF Retire, SetTable, mmu
  <1>5. \A d \in CPUs : ttbr'[d] = ttbr[d] \/ ttbr'[d] = NoTable
    BY <1>4 DEF TypeOK
  <1>6. Points'
    BY <1>4, Holds DEF TypeOK, Retire, Points
  <1>7. \A d \in CPUs : \A e \in tlb'[d] :
            \/ e \in tlb[d]
            \/ /\ e[1] = ttbr'[d].asid /\ e[2] = ttbr'[d].space
               /\ ttbr'[d].space # Empty /\ page'[ttbr'[d].space] # "unmapped"
    <2>1. CASE ttbr[c].space = s
      BY <2>1, TableStep DEF Retire
    <2>2. CASE ttbr[c].space # s
      BY <2>2 DEF Retire, mmu
    <2> QED
      BY <2>1, <2>2
  <1>8. Loaded' /\ FreshTlb' /\ NoStrangers'
    BY <1>5, <1>7, WalkStep DEF Retire
  <1> QED
    BY <1>1, <1>2, <1>3, <1>6, <1>8

\* A page is mapped.
LEMMA MapStep ==
  ASSUME AsidInductive, TypeOK', NEW c \in CPUs, NEW s \in Spaces, Map(c, s)
  PROVE AsidInductive'
  <1> USE DEF AsidInductive, shared, spaces, local
  <1>0. Reserving' <=> Reserving
    BY DEF Map, Reserving
  <1>1. TagsProper' /\ Sections' /\ Points'
    BY <1>0 DEF Map, TagsProper, Proper, Current, Sections, Points
  <1>2. Words' /\ Unique' /\ InUse'
    BY <1>0, SameWords DEF Map
  <1>3. Switches'
    BY <1>0 DEF Map, Switches, Ready, Current
  <1>4. \A r \in Spaces : page[r] # "unmapped" => page'[r] # "unmapped"
    BY DEF Map, TypeOK
  <1>5. ASSUME NEW d \in CPUs, NEW e \in tlb'[d]
        PROVE \/ e \in tlb[d]
              \/ /\ e[1] = ttbr'[d].asid /\ e[2] = ttbr'[d].space
                 /\ ttbr'[d].space # Empty /\ page'[ttbr'[d].space] # "unmapped"
    <2>1. e \in Walked(tlb, ttbr, page')[d]
      BY <1>5 DEF Map
    <2>2. \/ e \in tlb[d]
          \/ /\ e[1] = ttbr[d].asid /\ e[2] = ttbr[d].space
             /\ ttbr[d].space # Empty /\ page'[ttbr[d].space] \in {"mapped", "clearing"}
      BY ONLY <2>1, d \in CPUs, Walks
    <2> QED
      BY <2>2 DEF Map
  <1>6. Loaded' /\ FreshTlb' /\ NoStrangers'
    BY <1>4, <1>5, WalkStep DEF Map
  <1> QED
    BY <1>1, <1>2, <1>3, <1>6

\* unmap_pages clears the descriptor.
LEMMA UnmapStep ==
  ASSUME AsidInductive, TypeOK', NEW c \in CPUs, NEW s \in Spaces, Unmap(c, s)
  PROVE AsidInductive'
  <1> USE AsidAssumption DEF AsidInductive, TypeOK, shared, spaces, mmu, local, Go
  <1>0. Reserving' <=> Reserving
    BY DEF Unmap, Reserving
  <1>1. TagsProper' /\ Sections'
    BY <1>0 DEF Unmap, TagsProper, Proper, Current, Sections
  <1>2. Words' /\ Unique' /\ InUse'
    BY <1>0, SameWords DEF Unmap
  <1>3. Switches' /\ Loaded' /\ Points'
    BY <1>0 DEF Unmap, Switches, Ready, Current, Loaded, Settled, Points
  <1>4. FreshTlb' /\ NoStrangers'
    BY DEF Unmap, FreshTlb, Fresh, NoStrangers, Clean, Settled, Ready
  <1> QED
    BY <1>1, <1>2, <1>3, <1>4

\* The two ways into the end of AsidAllocator::activate: OBJ was free, or this
\* CPU has emptied every `active` word.
LEMMA HeldCases ==
  ASSUME AsidInductive, NEW c \in CPUs, Held(c)
  PROVE /\ space[c] \in Spaces /\ todo = {}
        /\ \A d \in CPUs : d # c => pc[d] \notin {"reserve", "flush", "written", "forget"}
        /\ \/ /\ pc[c] = "slow" /\ obj = NoCpu /\ ~Reserving
           \/ /\ pc[c] = "reserve" /\ obj = c /\ Reserving /\ owing = CPUs
              /\ \A d \in CPUs : active[d] = NoTag
              /\ \A s \in Spaces : tag[s].gen < generation
  <1> USE AsidAssumption DEF AsidInductive, TypeOK
  <1>1. CASE pc[c] = "slow" /\ obj = NoCpu
    BY <1>1 DEF Sections, Reserving
  <1>2. CASE pc[c] = "reserve" /\ todo = {}
    <2>1. Reserving /\ obj = c
      BY <1>2 DEF Reserving, Sections
    <2>2. \A s \in Spaces : tag[s].gen < generation
      BY <2>1 DEF TagsProper, Current, Tags
    <2> QED
      BY <1>2, <2>1, <2>2 DEF Sections, Words
  <1> QED
    BY <1>1, <1>2 DEF Held

\* The end of AsidAllocator::activate, with the number the space kept, adopted
\* or took: it is no other space's, and every reservation of the old tag moved.
LEMMA InstallStep ==
  ASSUME AsidInductive, TypeOK', NEW c \in CPUs, NEW new \in Tags, Held(c), Install(c, new),
         UNCHANGED <<generation, mmu, spaces, space, old, todo>>,
         new.gen = generation, new.asid \in ASIDs, new.asid \in used',
         Old(c).gen = generation => new = Old(c),
         reserved' = [d \in CPUs |-> IF reserved[d] = Old(c) /\ Old(c) # NoTag
                                     THEN new ELSE reserved[d]],
         \A d \in CPUs : reserved[d] = Old(c) /\ Old(c) # NoTag => new.asid = Old(c).asid,
         \A r \in Spaces : /\ r # space[c] /\ tag[r] # NoTag
                           /\ tag[r].gen = generation \/ \E d \in CPUs : reserved[d] = tag[r]
                           => tag[r].asid # new.asid /\ tag[r].asid \in used'
  PROVE AsidInductive'
  <1> USE AsidAssumption DEF AsidInductive, TypeOK, spaces, mmu, Go
  <1> DEFINE S == space[c]
  <1>a. /\ S \in Spaces /\ todo = {}
        /\ \A d \in CPUs : d # c => pc[d] \notin {"reserve", "flush", "written", "forget"}
        /\ \/ /\ pc[c] = "slow" /\ obj = NoCpu /\ ~Reserving
           \/ /\ pc[c] = "reserve" /\ obj = c /\ Reserving /\ owing = CPUs
              /\ \A d \in CPUs : active[d] = NoTag
              /\ \A s \in Spaces : tag[s].gen < generation
    BY HeldCases
  <1>b. /\ tag' = [tag EXCEPT ![S] = new] /\ active' = [active EXCEPT ![c] = new]
        /\ id' = [id EXCEPT ![c] = new] /\ obj' = c /\ owing' = owing \ {c}
        /\ pc' = [pc EXCEPT ![c] = IF c \in owing THEN "flush" ELSE "set"]
        /\ Old(c) = tag[S]
    BY DEF Install, Old
  <1> HIDE DEF S
  <1>c. ~Reserving' /\ pc'[c] \in {"flush", "set"} /\ (pc'[c] = "set" <=> c \notin owing)
    BY <1>a, <1>b DEF Reserving
  <1>d. Current' = generation /\ generation > 0 /\ new # NoTag /\ Proper(new)
    BY <1>c DEF Current, NoTag, Proper
  <1>e. \A d \in CPUs : active[d] # NoTag => active[d].gen = generation /\ ~Reserving /\ d \notin owing
    BY <1>a DEF Words, Current
  <1>1. TagsProper'
    BY <1>a, <1>b, <1>d DEF TagsProper, Current, Proper, Tags
  <1>2. Sections'
    BY <1>a, <1>b, <1>c DEF Sections, S
  <1>3. Words'
    BY <1>a, <1>b, <1>c, <1>d, <1>e DEF Words
  <1>f. ASSUME NEW r \in Spaces, r # S, Claims(r)'
        PROVE Claims(r) /\ tag'[r] = tag[r] /\ tag[r].asid # new.asid /\ tag[r].asid \in used'
    <2>1. tag'[r] = tag[r] /\ tag[r] # NoTag
      BY <1>f, <1>b DEF Claims
    <2>2. tag[r].gen = generation \/ \E d \in CPUs : reserved[d] = tag[r]
      BY <1>f, <2>1, <1>d DEF Claims
    <2>3. Claims(r)
      BY <2>1, <2>2, <1>a DEF Claims, Current
    <2> QED
      BY <2>1, <2>2, <2>3, <1>f DEF S
  <1>g. tag'[S] = new
    BY <1>a, <1>b
  <1>4. Unique'
    BY <1>f, <1>g DEF Unique
  <1>5. InUse'
    BY <1>c, <1>f, <1>g DEF InUse
  <1>6. Switches'
    <2>1. \A d \in CPUs : pc'[d] = "swap" => old'[d] # NoTag
      BY <1>b, <1>c DEF Switches
    <2>2. ASSUME NEW d \in CPUs, Ready(d)' PROVE (id[d] = tag[space[d]] /\ id[d].gen = Current)'
      BY <2>2, <2>1, <1>a, <1>b, <1>c, <1>d, <1>e DEF Switches, Ready, Current
    <2>3. ASSUME NEW d \in CPUs, pc'[d] \in {"flush", "set"}
          PROVE (/\ tag[space[d]] # NoTag
                 /\ id[d].asid = tag[space[d]].asid
                 /\ active[d] = tag[space[d]]
                    \/ (d \in owing /\ active[d] = NoTag /\ reserved[d] = tag[space[d]]))'
      BY <2>3, <1>a, <1>b, <1>d, <1>e DEF Switches, S, Sections
    <2> QED
      BY <2>1, <2>2, <2>3 DEF Switches
  <1>7. Loaded'
    <2>1. ASSUME NEW d \in CPUs, Settled(d)'
          PROVE (/\ tag[ttbr[d].space] # NoTag
                 /\ ttbr[d].asid = tag[ttbr[d].space].asid
                 /\ active[d] = tag[ttbr[d].space]
                    \/ (d \in owing /\ active[d] = NoTag /\ reserved[d] = tag[ttbr[d].space]))'
      BY <2>1, <1>a, <1>b, <1>c, <1>d, <1>e, Holds DEF Loaded, Settled
    <2> QED
      BY <2>1 DEF Loaded
  <1>8. Points'
    BY DEF Points
  <1>9. FreshTlb'
    <2>1. ASSUME NEW d \in CPUs, Fresh(d)' PROVE Fresh(d) /\ ~Reserving
      BY <2>1, <1>a, <1>b, <1>c DEF Fresh
    <2>2. ASSUME NEW s \in Spaces, tag[s].gen = generation PROVE tag'[s] = tag[s]
      BY <2>2, <1>a, <1>b
    <2> QED
      BY <2>1, <2>2, Holds DEF FreshTlb
  <1>10. NoStrangers'
    <2>1. ASSUME pc'[c] = "set" PROVE Clean(c, S, new.asid)'
      <3>1. Fresh(c) /\ ~Reserving
        BY <2>1, <1>a, <1>c DEF Fresh
      <3>2. ASSUME NEW r \in Spaces, tag[r].gen = generation, tag[r].asid = new.asid PROVE r = S
        BY <3>2, <1>b, <1>d DEF S, NoTag
      <3>3. \A e \in tlb[c] : e[1] = new.asid => e[2] = S /\ page[S] # "unmapped"
        BY <3>1, <3>2, Holds DEF FreshTlb
      <3>4. ttbr[c].asid = new.asid => ttbr[c].space = S
        BY <3>1, <3>2, Holds DEF FreshTlb, Loaded
      <3> QED
        BY <3>3, <3>4 DEF Clean, S
    <2>2. ASSUME NEW d \in CPUs, NEW s, NEW a, Clean(d, s, a) PROVE Clean(d, s, a)'
      BY <2>2 DEF Clean
    <2>3. ASSUME NEW d \in CPUs, pc'[d] = "set" \/ Ready(d)'
          PROVE Clean(d, space[d], id[d].asid)'
      BY <2>1, <2>2, <2>3, <1>b, <1>c DEF NoStrangers, Ready, S
    <2>4. ASSUME NEW d \in CPUs, Settled(d)' PROVE Clean(d, ttbr[d].space, ttbr[d].asid)'
      BY <2>2, <2>4, <1>b, <1>c DEF NoStrangers, Settled
    <2> QED
      BY <2>3, <2>4 DEF NoStrangers
  <1> QED
    BY <1>1, <1>2, <1>3, <1>4, <1>5, <1>6, <1>7, <1>8, <1>9, <1>10

\* AsidAllocator::activate keeps a number of this generation.
LEMMA KeepStep ==
  ASSUME AsidInductive, TypeOK', NEW c \in CPUs, Keep(c)
  PROVE AsidInductive'
  <1> USE AsidAssumption DEF AsidInductive, TypeOK
  <1>1. space[c] \in Spaces /\ ~Reserving
    BY HeldCases DEF Keep, Old
  <1>2. Old(c) \in Tags /\ Old(c) # NoTag /\ Old(c).asid \in ASIDs /\ Claims(space[c])
    BY <1>1 DEF Keep, Old, TagsProper, Proper, NoTag, Claims, Current
  <1>3. ASSUME NEW r \in Spaces, r # space[c], tag[r] # NoTag,
               tag[r].gen = generation \/ \E d \in CPUs : reserved[d] = tag[r]
        PROVE tag[r].asid # Old(c).asid /\ tag[r].asid \in used
    BY <1>1, <1>2, <1>3 DEF Unique, InUse, Claims, Current, Old
  <1>4. Old(c).asid \in used
    BY <1>1, <1>2 DEF InUse, Old
  <1>5. reserved = [d \in CPUs |-> IF reserved[d] = Old(c) /\ Old(c) # NoTag
                                   THEN Old(c) ELSE reserved[d]]
    BY <1>2
  <1> QED
    BY <1>2, <1>3, <1>4, <1>5, InstallStep DEF Keep

\* AsidAllocator::adopt.
LEMMA AdoptStep ==
  ASSUME AsidInductive, TypeOK', NEW c \in CPUs, Adopt(c)
  PROVE AsidInductive'
  <1> USE AsidAssumption DEF AsidInductive, TypeOK
  <1> DEFINE new == [gen |-> generation, asid |-> Old(c).asid]
  <1>1. space[c] \in Spaces /\ todo = {} /\ (~Reserving \/ \A s \in Spaces : tag[s].gen < generation)
    BY HeldCases DEF Adopt
  <1>2. Old(c) # NoTag /\ Old(c).asid \in ASIDs /\ Claims(space[c])
    BY <1>1 DEF Adopt, Adoptable, Old, TagsProper, Proper, Claims
  <1>3. new \in Tags /\ new.gen = generation /\ new.asid = Old(c).asid
    BY <1>2 DEF Tags
  <1>4. ASSUME NEW r \in Spaces, r # space[c], tag[r] # NoTag,
               tag[r].gen = generation \/ \E d \in CPUs : reserved[d] = tag[r]
        PROVE tag[r].asid # Old(c).asid /\ tag[r].asid \in used
    <2>1. Claims(r)
      BY <1>1, <1>4 DEF Claims, Current
    <2>2. tag[r].asid # Old(c).asid
      BY <2>1, <1>1, <1>2, <1>4 DEF Unique, Old
    <2>3. CASE ~Reserving
      BY <2>1, <2>2, <2>3 DEF InUse
    <2>4. CASE Reserving
      BY <2>2, <2>4, <1>1, <1>4 DEF InUse
    <2> QED
      BY <2>3, <2>4
  <1>5. Old(c).asid \in used
    BY <1>1, <1>2 DEF InUse, Adopt, Adoptable, Old
  <1>6. reserved' = [d \in CPUs |-> IF reserved[d] = Old(c) /\ Old(c) # NoTag
                                    THEN new ELSE reserved[d]]
    BY <1>2 DEF Adopt
  <1>7. Held(c) /\ Install(c, new) /\ Old(c).gen # generation
        /\ UNCHANGED <<generation, used, mmu, spaces, space, old, todo>>
    BY DEF Adopt
  <1> HIDE DEF new
  <1> QED
    BY <1>2, <1>3, <1>4, <1>5, <1>6, <1>7, InstallStep

\* AsidAllocator::take: the number is used, so no space claims it.
LEMMA TakeStep ==
  ASSUME AsidInductive, TypeOK', NEW c \in CPUs, NEW a \in ASIDs, Take(c, a)
  PROVE AsidInductive'
  <1> USE AsidAssumption DEF AsidInductive, TypeOK
  <1> DEFINE new == [gen |-> generation, asid |-> a]
  <1>1. space[c] \in Spaces /\ todo = {} /\ (~Reserving \/ \A s \in Spaces : tag[s].gen < generation)
    BY HeldCases DEF Take
  <1>2. new \in Tags /\ new.gen = generation /\ new.asid = a
    BY DEF Tags
  <1>3. ASSUME NEW r \in Spaces, r # space[c], tag[r] # NoTag,
               tag[r].gen = generation \/ \E d \in CPUs : reserved[d] = tag[r]
        PROVE tag[r].asid \in used
    <2>1. CASE ~Reserving
      BY <2>1, <1>3 DEF InUse, Claims, Current
    <2>2. CASE Reserving
      BY <2>2, <1>1, <1>3 DEF InUse
    <2> QED
      BY <2>1, <2>2
  <1>4. \A d \in CPUs : ~(reserved[d] = Old(c) /\ Old(c) # NoTag)
    BY DEF Take, Adoptable
  <1>5. Held(c) /\ Install(c, new) /\ Old(c).gen # generation /\ a \notin used
        /\ used' = used \union {a}
        /\ UNCHANGED <<generation, reserved, mmu, spaces, space, old, todo>>
    BY DEF Take
  <1>6. reserved' = [d \in CPUs |-> IF reserved[d] = Old(c) /\ Old(c) # NoTag
                                    THEN new ELSE reserved[d]]
    BY <1>4, <1>5
  <1> HIDE DEF new
  <1> QED
    BY <1>2, <1>3, <1>4, <1>5, <1>6, InstallStep

\* new_generation raises the counter: every CPU owes a flush.
LEMMA NewGenerationStep ==
  ASSUME AsidInductive, TypeOK', NEW c \in CPUs, NewGeneration(c)
  PROVE AsidInductive'
  <1> USE AsidAssumption DEF AsidInductive, TypeOK, spaces, mmu, Go
  <1>a. ~Reserving /\ pc[c] = "slow" /\ obj = NoCpu
    BY DEF NewGeneration, Exhausted, Sections, Reserving
  <1>b. Reserving' /\ \A d \in CPUs : d # c => pc'[d] = pc[d] /\ pc[d] # "reserve"
    BY <1>a DEF NewGeneration, Reserving
  <1>c. Current' = Current /\ Current = generation
    BY <1>a, <1>b DEF NewGeneration, Current
  <1>d. \A d \in CPUs : pc[d] \in {"flush", "set", "swap"} <=> (pc'[d] \in {"flush", "set", "swap"})
    BY <1>a, <1>b DEF NewGeneration
  <1>1. TagsProper'
    BY <1>c DEF NewGeneration, TagsProper, Proper
  <1>2. Sections'
    BY <1>a, <1>b DEF NewGeneration, Sections
  <1>3. Words'
    BY <1>b, <1>c DEF NewGeneration, Words
  <1>4. Unique' /\ InUse'
    BY <1>b, <1>c DEF NewGeneration, Unique, InUse, Claims
  <1>5. Switches'
    BY <1>a, <1>c DEF NewGeneration, Switches, Ready
  <1>6. Loaded' /\ Points'
    BY <1>a DEF NewGeneration, Loaded, Settled, Points
  <1>7. FreshTlb'
    BY DEF NewGeneration, FreshTlb, Fresh
  <1>8. NoStrangers'
    BY <1>a DEF NewGeneration, NoStrangers, Clean, Settled, Ready
  <1> QED
    BY <1>1, <1>2, <1>3, <1>4, <1>5, <1>6, <1>7, <1>8

\* new_generation moves an `active` word into the reservation.
LEMMA ReserveStep ==
  ASSUME AsidInductive, TypeOK', NEW c \in CPUs, NEW d \in CPUs, Reserve(c, d)
  PROVE AsidInductive'
  <1> USE AsidAssumption DEF AsidInductive, TypeOK, spaces, mmu, Go
  <1>a. Reserving /\ Reserving' /\ Current' = Current /\ obj = c /\ owing = CPUs
    BY DEF Reserve, Reserving, Current, Sections
  <1>b. /\ active' = [active EXCEPT ![d] = NoTag]
        /\ reserved' = [reserved EXCEPT ![d] = IF active[d] # NoTag THEN active[d] ELSE reserved[d]]
        /\ used' = used \union ({reserved'[d].asid} \ {0})
        /\ UNCHANGED <<generation, owing, tag, obj, ttbr, tlb, page, life, waits, pc, space, id, old>>
    BY DEF Reserve
  <1>c. ASSUME NEW s \in Spaces, Claims(s)' PROVE Claims(s)
    BY <1>a, <1>b, <1>c DEF Claims, Words
  <1>1. TagsProper'
    BY <1>a, <1>b DEF TagsProper, Proper
  <1>2. Sections'
    BY <1>a, <1>b DEF Reserve, Sections
  <1>3. Words'
    BY <1>a, <1>b DEF Reserve, Words
  <1>4. Unique'
    BY <1>b, <1>c DEF Unique
  <1>5. InUse'
    BY <1>a, <1>b, <1>1 DEF Reserve, InUse, TagsProper, Proper
  <1>6. Switches'
    <2>1. \A x \in CPUs : pc[x] # "flush" /\ (Ready(x)' => Ready(x))
      BY <1>a, <1>b DEF Reserve, Sections, Switches, Ready
    <2> QED
      BY <2>1, <1>a, <1>b DEF Switches, Ready
  <1>7. Loaded' /\ Points'
    BY <1>a, <1>b DEF Loaded, Settled, Points
  <1>8. FreshTlb'
    BY <1>a, <1>b DEF FreshTlb, Fresh
  <1>9. NoStrangers'
    BY <1>b DEF NoStrangers, Clean, Settled, Ready, Switches
  <1> QED
    BY <1>1, <1>2, <1>3, <1>4, <1>5, <1>6, <1>7, <1>8, <1>9

\* drop_asid: no TTBR0 holds the space, and its entries go with its number.
LEMMA ReleaseStep ==
  ASSUME AsidInductive, TypeOK', NEW c \in CPUs, NEW s \in Spaces, Release(c, s)
  PROVE AsidInductive'
  <1> USE AsidAssumption DEF AsidInductive, TypeOK, local
  <1>a. ~Reserving /\ ~Reserving' /\ Current = generation /\ Current' = generation
    BY DEF Release, Reserving, Current, Sections
  <1>b. \A d \in CPUs : ttbr[d].space # s /\ space[d] # s
    BY DEF Release, Points, Sections
  <1>c. Owned(s) <=> Claims(s)
    BY <1>a DEF Owned, Claims
  <1>d. /\ tag' = [tag EXCEPT ![s] = NoTag] /\ page' = [page EXCEPT ![s] = "unmapped"]
        /\ reserved' = [d \in CPUs |-> IF reserved[d] = tag[s] THEN NoTag ELSE reserved[d]]
        /\ active' = [d \in CPUs |-> IF active[d] = tag[s] THEN NoTag ELSE active[d]]
        /\ UNCHANGED <<generation, owing, obj, ttbr, waits, pc, space, id, old, todo>>
    BY DEF Release, Void
  <1>e. ASSUME NEW r \in Spaces, r # s, Claims(r) PROVE tag[r] # tag[s]
    BY <1>e, <1>a DEF Unique, Claims
  <1>f. ASSUME NEW r \in Spaces, Claims(r)' PROVE r # s /\ Claims(r) /\ tag'[r] = tag[r]
    BY <1>f, <1>a, <1>d DEF Claims
  <1>g. ASSUME NEW r \in Spaces, r # s, NEW d \in CPUs, tag[r] # NoTag,
               active[d] = tag[r]
               \/ (d \in owing /\ active[d] = NoTag /\ reserved[d] = tag[r])
        PROVE /\ tag'[r] = tag[r] /\ tag[r] # NoTag
              /\ \/ active'[d] = tag'[r]
                 \/ d \in owing' /\ active'[d] = NoTag /\ reserved'[d] = tag'[r]
    <2>1. Claims(r)
      BY <1>g, <1>a DEF Claims, Words
    <2> QED
      BY <2>1, <1>d, <1>e, <1>g
  <1>h. ASSUME NEW d \in CPUs, NEW e \in tlb'[d]
        PROVE \/ e \in tlb[d] /\ (Owned(s) => e[1] # tag[s].asid)
              \/ /\ e[1] = ttbr[d].asid /\ e[2] = ttbr[d].space
                 /\ ttbr[d].space # Empty /\ page[ttbr[d].space] # "unmapped"
    <2>1. CASE ~Owned(s)
      BY <2>1, <1>h DEF Release, InvalidateAsid
    <2>2. CASE Owned(s)
      <3>1. e \in Walked(Invalidated(tag[s].asid), ttbr, page)[d]
        BY <2>2, <1>h DEF Release, InvalidateAsid
      <3>2. \/ e \in Invalidated(tag[s].asid)[d]
            \/ /\ e[1] = ttbr[d].asid /\ e[2] = ttbr[d].space
               /\ ttbr[d].space # Empty /\ page[ttbr[d].space] \in {"mapped", "clearing"}
        BY <3>1, Walks
      <3> QED
        BY <3>2 DEF Invalidated
    <2> QED
      BY <2>1, <2>2
  <1>1. TagsProper'
    BY <1>a, <1>d DEF TagsProper, Proper, NoTag
  <1>2. Sections'
    BY <1>a, <1>b, <1>d DEF Release, Sections
  <1>3. Words'
    BY <1>a, <1>d DEF Words
  <1>4. Unique'
    BY <1>f DEF Unique
  <1>5. InUse'
    BY <1>a, <1>c, <1>f DEF Release, Void, InUse, Unique
  <1>6. Switches'
    <2>1. \A d \in CPUs : pc[d] = "swap" => old[d] # NoTag
      BY DEF Switches
    <2>2. ASSUME NEW d \in CPUs, Ready(d)' PROVE (id[d] = tag[space[d]] /\ id[d].gen = Current)'
      BY <2>1, <2>2, <1>a, <1>b, <1>d, SwitchNumber DEF Switches, Ready
    <2>3. ASSUME NEW d \in CPUs, pc'[d] \in {"flush", "set"}
          PROVE (/\ tag[space[d]] # NoTag
                 /\ id[d].asid = tag[space[d]].asid
                 /\ active[d] = tag[space[d]]
                    \/ (d \in owing /\ active[d] = NoTag /\ reserved[d] = tag[space[d]]))'
      <3>1. pc[d] \in {"flush", "set"} /\ space[d] \in Spaces /\ space[d] # s
        BY <2>3, <1>b, <1>d, SwitchNumber
      <3> QED
        BY <3>1, <1>d, <1>g DEF Switches
    <2> QED
      BY <2>1, <2>2, <2>3, <1>d DEF Switches
  <1>7. Loaded'
    <2>1. ASSUME NEW d \in CPUs, Settled(d)'
          PROVE (/\ tag[ttbr[d].space] # NoTag
                 /\ ttbr[d].asid = tag[ttbr[d].space].asid
                 /\ active[d] = tag[ttbr[d].space]
                    \/ (d \in owing /\ active[d] = NoTag /\ reserved[d] = tag[ttbr[d].space]))'
      <3>1. Settled(d) /\ ttbr[d].space \in Spaces /\ ttbr[d].space # s
        BY <2>1, <1>b, <1>d, Holds DEF Settled
      <3> QED
        BY <3>1, <1>d, <1>g DEF Loaded
    <2> QED
      BY <2>1, <1>d DEF Loaded
  <1>8. Points'
    BY <1>b, <1>d, Holds DEF Release, Points
  <1>9. FreshTlb'
    <2>1. ASSUME NEW d \in CPUs, Fresh(d), NEW e \in tlb'[d] PROVE e[2] # s
      <3>1. ASSUME e \in tlb[d], e[2] = s PROVE Owned(s) /\ e[1] = tag[s].asid
        BY <2>1, <3>1 DEF FreshTlb, Owned, NoTag
      <3>2. (e \in tlb[d] /\ (Owned(s) => e[1] # tag[s].asid)) \/ e[2] = ttbr[d].space
        BY <2>1, <1>h
      <3> QED
        BY <3>1, <3>2, <1>b
    <2>2. ASSUME NEW d \in CPUs, Fresh(d), NEW e \in tlb'[d]
          PROVE tag'[e[2]].gen = generation /\ tag'[e[2]].asid = e[1] /\ page'[e[2]] # "unmapped"
      BY <2>1, <2>2, <1>d, <1>h, Holds DEF FreshTlb
    <2>3. ASSUME NEW d \in CPUs, Fresh(d), ttbr[d].space # Empty
          PROVE tag'[ttbr[d].space].gen = generation /\ tag'[ttbr[d].space].asid = ttbr[d].asid
      BY <2>3, <1>b, <1>d, Holds DEF FreshTlb
    <2> QED
      BY <2>2, <2>3, <1>d DEF FreshTlb, Fresh
  <1>10. NoStrangers'
    <2>1. ASSUME NEW d \in CPUs, NEW r \in Spaces, r # s, NEW a, Clean(d, r, a)
          PROVE Clean(d, r, a)'
      BY <2>1, <1>d, <1>h DEF Clean
    <2>2. ASSUME NEW d \in CPUs, pc'[d] = "set" \/ Ready(d)'
          PROVE Clean(d, space[d], id[d].asid)'
      <3>1. pc[d] = "set" \/ Ready(d)
        BY <2>2, <1>d DEF Ready, Switches
      <3> QED
        BY <3>1, <2>1, <1>b, <1>d, SwitchNumber DEF NoStrangers
    <2>3. ASSUME NEW d \in CPUs, Settled(d)' PROVE Clean(d, ttbr[d].space, ttbr[d].asid)'
      BY <2>1, <2>3, <1>b, <1>d, Holds DEF NoStrangers, Settled
    <2> QED
      BY <2>2, <2>3 DEF NoStrangers
  <1> QED
    BY <1>1, <1>2, <1>3, <1>4, <1>5, <1>6, <1>7, <1>8, <1>9, <1>10

\* The allocator begins in the invariant.
LEMMA AsidInitial == Init => AsidInductive
  <1> SUFFICES ASSUME Init PROVE AsidInductive
    OBVIOUS
  <1> USE AsidAssumption DEF Init
  <1>1. NoTag \in Tags /\ NoTag.gen = 0 /\ NoTag.asid = 0
    BY DEF Tags, NoTag
  <1>2. NoTable \in Tables /\ NoTable.space = Empty /\ NoTable.asid = 0
    BY DEF Tables, NoTable
  <1>3. ~Reserving /\ Current = 1
    BY DEF Reserving, Current
  <1>4. TypeOK
    BY <1>1, <1>2 DEF TypeOK
  <1>5. TagsProper /\ Sections /\ Words /\ Unique /\ InUse
    BY <1>1, <1>3 DEF TagsProper, Proper, Sections, Words, Unique, InUse, Claims
  <1>6. Switches /\ Loaded /\ Points /\ FreshTlb /\ NoStrangers
    BY <1>2 DEF Switches, Loaded, Points, FreshTlb, Fresh, NoStrangers, Settled, Ready, Clean
  <1> QED
    BY <1>4, <1>5, <1>6 DEF AsidInductive

\* Every step keeps the invariant.
LEMMA AsidStep == AsidInductive /\ [Next]_vars => AsidInductive'
  <1> SUFFICES ASSUME AsidInductive, [Next]_vars PROVE AsidInductive'
    OBVIOUS
  <1>1. TypeOK'
    BY TypeStep DEF AsidInductive
  <1>2. CASE UNCHANGED vars
    <2>1. (Reserving' <=> Reserving) /\ Current' = Current
      BY <1>2 DEF vars, Reserving, Current
    <2> QED
      BY <1>1, <1>2, <2>1 DEF vars, AsidInductive, TagsProper, Proper, Sections, Words, Unique,
         InUse, Claims, Switches, Loaded, Points, FreshTlb, Fresh, NoStrangers, Settled, Ready, Clean
  <1>3. ASSUME NEW c \in CPUs, CompareExchange(c) PROVE AsidInductive'
    BY <1>1, <1>3, CompareExchangeStep
  <1>4. ASSUME NEW c \in CPUs, Slow(c) PROVE AsidInductive'
    BY <1>1, <1>4, KeepStep, AdoptStep, TakeStep, NewGenerationStep, ReserveStep,
       FlushAllStep, SwitchStep DEF Slow
  <1>5. ASSUME NEW c \in CPUs, Other(c) PROVE AsidInductive'
    BY <1>1, <1>5, LeaveStep, TablesWrittenStep, ForgetStep, ActivateStep, RetireStep,
       ReleaseStep, MapStep, UnmapStep, AsidAssumption DEF Other
  <1> QED
    BY <1>2, <1>3, <1>4, <1>5 DEF Next

-----------------------------------------------------------------------------
(* The theorems.                                                           *)

\* Whatever the order of switches, new generations, flushes, page changes and
\* ends of spaces, the tags, words, TTBR0s and TLBs agree as AsidInductive says.
THEOREM AsidInvariant == Spec => []AsidInductive
  BY AsidInitial, AsidStep, PTL DEF Spec

\* switch_fast and switch_slow: a CPU never uses an entry of another space
\* under the ASID it runs with, for any number of CPUs, spaces and numbers.
THEOREM EntriesAreOwn == Spec => []OwnEntries
  <1>1. AsidInductive => OwnEntries
    BY DEF AsidInductive, NoStrangers, Clean, OwnEntries
  <1> QED
    BY <1>1, AsidInvariant, PTL

\* unmap_pages and drop_asid: no CPU that runs a space has an entry of a page
\* after its unmap returned, and no TTBR0 holds tables that went back.
THEOREM PagesForgotten == Spec => []Forgotten
  <1>1. AsidInductive => Forgotten
    <2> SUFFICES ASSUME AsidInductive, NEW c \in CPUs
                 PROVE /\ Settled(c) /\ page[ttbr[c].space] = "unmapped" =>
                            <<ttbr[c].asid, ttbr[c].space>> \notin tlb[c]
                       /\ ttbr[c].space # Empty => life[ttbr[c].space] # "gone"
      BY DEF Forgotten
    <2> QED
      BY DEF AsidInductive, NoStrangers, Clean, Points
  <1> QED
    BY <1>1, AsidInvariant, PTL

\* AsidAllocator: two spaces never run with one ASID, one space never with two,
\* and every number a space may still bring back is marked used.
THEOREM AsidsUnique == Spec => []OneSpaceAnAsid
  <1>1. AsidInductive => OneSpaceAnAsid
    <2> SUFFICES ASSUME AsidInductive PROVE OneSpaceAnAsid
      OBVIOUS
    <2> USE DEF AsidInductive
    <2>1. ASSUME NEW c \in CPUs, Settled(c)
          PROVE /\ ttbr[c].space \in Spaces /\ ttbr[c].asid = tag[ttbr[c].space].asid
                /\ Claims(ttbr[c].space)
      BY <2>1, Holds DEF Settled, Loaded, Claims, Words
    <2>2. \A c, d \in CPUs : Settled(c) /\ Settled(d) =>
            (ttbr[c].asid = ttbr[d].asid <=> ttbr[c].space = ttbr[d].space)
      BY <2>1 DEF Unique
    <2>3. ASSUME obj = NoCpu, NEW s \in Spaces, Owned(s) PROVE tag[s].asid \in used
      <3>1. ~Reserving
        BY <2>3, AsidAssumption DEF Reserving, Sections
      <3> QED
        BY <3>1, <2>3 DEF InUse, Owned, Claims, Current
    <2> QED
      BY <2>2, <2>3 DEF OneSpaceAnAsid
  <1> QED
    BY <1>1, AsidInvariant, PTL
=============================================================================
