---------------------------- MODULE QsbrProofs ----------------------------
(***************************************************************************)
(* Proofs about Qsbr, for every number of CPUs, objects and epochs.        *)
(***************************************************************************)
EXTENDS Qsbr, FiniteSetTheorems, TLAPS

\* The initial values are in their types.
LEMMA TypeInit == Init => TypeOK
  BY EpochAssumption DEF Init, TypeOK, IDLE, PCs

\* The boot state, every CPU in the kernel and unmarked, satisfies the invariant.
LEMMA InitInductive == Init => Inductive
  <1> SUFFICES ASSUME Init PROVE Inductive
    OBVIOUS
  <1>1. TypeOK
    BY TypeInit
  <1>2. MarkInv
    BY EpochAssumption DEF Init, MarkInv, IDLE, Beginning
  <1>3. RetiredInv /\ NoUseAfterFree
    BY DEF Init, RetiredInv, NoUseAfterFree
  <1>4. PlaceInv /\ ScanInv
    BY DEF Init, PlaceInv, ScanInv
  <1>5. GateInv
    BY DEF Init, GateInv, Beginning
  <1> QED
    BY <1>1, <1>2, <1>3, <1>4, <1>5 DEF Inductive

\* Each step keeps the types; MarkInv leaves an epoch for a suspension that begins.
LEMMA TypeStep ==
  ASSUME TypeOK, MarkInv, [Next]_vars
  PROVE TypeOK'
  <1> USE EpochAssumption DEF TypeOK, PCs, To, grace, lists, waits, local
  <1>0. CASE UNCHANGED vars
    BY <1>0 DEF vars
  <1>1. ASSUME NEW c \in CPUs, \E o \in Objects : Link(c, o) PROVE TypeOK'
    BY <1>1 DEF Link
  <1>2. ASSUME NEW c \in CPUs, \E o \in Objects : Read(c, o) PROVE TypeOK'
    BY <1>2 DEF Read
  <1>3. ASSUME NEW c \in CPUs, \E o \in Objects : Unlink(c, o) PROVE TypeOK'
    BY <1>3 DEF Unlink
  <1>4. ASSUME NEW c \in CPUs, \E o \in Objects : RetireEpoch(c, o) PROVE TypeOK'
    BY <1>4 DEF RetireEpoch, Room
  <1>5. ASSUME NEW c \in CPUs, GateUp(c) PROVE TypeOK'
    BY <1>5 DEF GateUp, Room
  <1>6. ASSUME NEW c \in CPUs, Look(c) PROVE TypeOK'
    BY <1>6 DEF Look
  <1>7. ASSUME NEW c \in CPUs, GateDown(c) PROVE TypeOK'
    BY <1>7 DEF GateDown
  <1>8. ASSUME NEW c \in CPUs, RetireAppend(c) PROVE TypeOK'
    BY <1>8 DEF RetireAppend, Kick
  <1>9. ASSUME NEW c \in CPUs, BeginWait(c) PROVE TypeOK'
    BY <1>9 DEF BeginWait
  <1>10. ASSUME NEW c \in CPUs, WaitEpoch(c) PROVE TypeOK'
    BY <1>10 DEF WaitEpoch, Kick, MarkInv, Beginning
  <1>11. ASSUME NEW c \in CPUs, \E d \in CPUs : LookNext(c, d) PROVE TypeOK'
    BY <1>11 DEF LookNext, CpuPassed
  <1>12. ASSUME NEW c \in CPUs, \E d \in CPUs : LookAgain(c, d) PROVE TypeOK'
    BY <1>12 DEF LookAgain, Kick
  <1>13. ASSUME NEW c \in CPUs, \E d \in CPUs : ScanNext(c, d) PROVE TypeOK'
    BY <1>13 DEF ScanNext, Scanning, CpuPassed
  <1>14. ASSUME NEW c \in CPUs, LookDone(c) PROVE TypeOK'
    BY <1>14 DEF LookDone
  <1>15. ASSUME NEW c \in CPUs, Resume(c) PROVE TypeOK'
    BY <1>15 DEF Resume
  <1>16. ASSUME NEW c \in CPUs, Poll(c) PROVE TypeOK'
    BY <1>16 DEF Poll
  <1>17. ASSUME NEW c \in CPUs, Decide(c) PROVE TypeOK'
    BY <1>17 DEF Decide
  <1>18. ASSUME NEW c \in CPUs, QuiesceLoad(c) PROVE TypeOK'
    BY <1>18 DEF QuiesceLoad
  <1>19. ASSUME NEW c \in CPUs, QuiesceStore(c) PROVE TypeOK'
    BY <1>19 DEF QuiesceStore, IDLE
  <1>20. ASSUME NEW c \in CPUs, ScanTake(c) PROVE TypeOK'
    BY <1>20 DEF ScanTake, Scanning
  <1>21. ASSUME NEW c \in CPUs, ScanEnd(c) PROVE TypeOK'
    <2>1. Cardinality(batch[c]) \in Nat
      BY ObjectsAssumption, FS_Subset, FS_CardinalityType
    <2> QED
      BY <1>21, <2>1 DEF ScanEnd
  <1>22. ASSUME NEW c \in CPUs, Free(c) PROVE TypeOK'
    BY <1>22 DEF Free
  <1>23. ASSUME NEW c \in CPUs, RunGated(c) PROVE TypeOK'
    BY <1>23 DEF RunGated
  <1>24. ASSUME NEW c \in CPUs, Park(c) PROVE TypeOK'
    BY <1>24 DEF Park
  <1>25. ASSUME NEW c \in CPUs, RunOther(c) PROVE TypeOK'
    BY <1>25 DEF RunOther
  <1>26. ASSUME NEW c \in CPUs, Clean(c) PROVE TypeOK'
    BY <1>26 DEF Clean
  <1>27. ASSUME NEW c \in CPUs, Sleep(c) PROVE TypeOK'
    BY <1>27 DEF Sleep, IDLE
  <1>28. ASSUME NEW c \in CPUs, Awake(c) PROVE TypeOK'
    BY <1>28 DEF Awake, IDLE
  <1>29. ASSUME NEW c \in CPUs, Enter(c) PROVE TypeOK'
    BY <1>29 DEF Enter
  <1>30. ASSUME NEW c \in CPUs, Wake(c) PROVE TypeOK'
    BY <1>30 DEF Wake
  <1> QED
    BY <1>0, <1>1, <1>2, <1>3, <1>4, <1>5, <1>6, <1>7, <1>8, <1>9, <1>10, <1>11, <1>12,
       <1>13, <1>14, <1>15, <1>16, <1>17, <1>18, <1>19, <1>20, <1>21, <1>22, <1>23, <1>24,
       <1>25, <1>26, <1>27, <1>28, <1>29, <1>30 DEF Next, Kernel, Proceed

\* No step marks a CPU past the counter, or leaves a pointer on an empty stack.
LEMMA MarkStep ==
  ASSUME TypeOK, MarkInv, GateInv, [Next]_vars
  PROVE MarkInv'
  <1> USE EpochAssumption DEF TypeOK, MarkInv, Beginning, IDLE, To, grace, lists, waits, local
  <1>0. CASE UNCHANGED vars
    BY <1>0 DEF vars
  <1>1. ASSUME NEW c \in CPUs, \E o \in Objects : Link(c, o) PROVE MarkInv'
    BY <1>1 DEF Link
  <1>2. ASSUME NEW c \in CPUs, \E o \in Objects : Read(c, o) PROVE MarkInv'
    BY <1>2 DEF Read
  <1>3. ASSUME NEW c \in CPUs, \E o \in Objects : Unlink(c, o) PROVE MarkInv'
    BY <1>3 DEF Unlink
  <1>4. ASSUME NEW c \in CPUs, \E o \in Objects : RetireEpoch(c, o) PROVE MarkInv'
    BY <1>4 DEF RetireEpoch, Room
  <1>5. ASSUME NEW c \in CPUs, GateUp(c) PROVE MarkInv'
    BY <1>5 DEF GateUp, Room
  <1>6. ASSUME NEW c \in CPUs, Look(c) PROVE MarkInv'
    BY <1>6 DEF Look
  <1>7. ASSUME NEW c \in CPUs, GateDown(c) PROVE MarkInv'
    BY <1>7 DEF GateDown
  <1>8. ASSUME NEW c \in CPUs, RetireAppend(c) PROVE MarkInv'
    BY <1>8 DEF RetireAppend, Kick
  <1>9. ASSUME NEW c \in CPUs, BeginWait(c) PROVE MarkInv'
    BY <1>9 DEF BeginWait
  <1>10. ASSUME NEW c \in CPUs, WaitEpoch(c) PROVE MarkInv'
    BY <1>10 DEF WaitEpoch, GateInv
  <1>11. ASSUME NEW c \in CPUs, \E d \in CPUs : LookNext(c, d) PROVE MarkInv'
    BY <1>11 DEF LookNext, CpuPassed
  <1>12. ASSUME NEW c \in CPUs, \E d \in CPUs : LookAgain(c, d) PROVE MarkInv'
    BY <1>12 DEF LookAgain, Kick
  <1>13. ASSUME NEW c \in CPUs, \E d \in CPUs : ScanNext(c, d) PROVE MarkInv'
    BY <1>13 DEF ScanNext, Scanning, CpuPassed
  <1>14. ASSUME NEW c \in CPUs, LookDone(c) PROVE MarkInv'
    BY <1>14 DEF LookDone
  <1>15. ASSUME NEW c \in CPUs, Resume(c) PROVE MarkInv'
    BY <1>15 DEF Resume
  <1>16. ASSUME NEW c \in CPUs, Poll(c) PROVE MarkInv'
    BY <1>16 DEF Poll
  <1>17. ASSUME NEW c \in CPUs, Decide(c) PROVE MarkInv'
    BY <1>17 DEF Decide
  <1>18. ASSUME NEW c \in CPUs, QuiesceLoad(c) PROVE MarkInv'
    BY <1>18 DEF QuiesceLoad
  <1>19. ASSUME NEW c \in CPUs, QuiesceStore(c) PROVE MarkInv'
    BY <1>19 DEF QuiesceStore, IDLE
  <1>20. ASSUME NEW c \in CPUs, ScanTake(c) PROVE MarkInv'
    BY <1>20 DEF ScanTake, Scanning
  <1>21. ASSUME NEW c \in CPUs, ScanEnd(c) PROVE MarkInv'
    BY <1>21 DEF ScanEnd, Scanning
  <1>22. ASSUME NEW c \in CPUs, Free(c) PROVE MarkInv'
    BY <1>22 DEF Free
  <1>23. ASSUME NEW c \in CPUs, RunGated(c) PROVE MarkInv'
    BY <1>23 DEF RunGated
  <1>24. ASSUME NEW c \in CPUs, Park(c) PROVE MarkInv'
    BY <1>24 DEF Park
  <1>25. ASSUME NEW c \in CPUs, RunOther(c) PROVE MarkInv'
    BY <1>25 DEF RunOther
  <1>26. ASSUME NEW c \in CPUs, Clean(c) PROVE MarkInv'
    BY <1>26 DEF Clean
  <1>27. ASSUME NEW c \in CPUs, Sleep(c) PROVE MarkInv'
    BY <1>27 DEF Sleep, IDLE
  <1>28. ASSUME NEW c \in CPUs, Awake(c) PROVE MarkInv'
    BY <1>28 DEF Awake, IDLE
  <1>29. ASSUME NEW c \in CPUs, Enter(c) PROVE MarkInv'
    BY <1>29 DEF Enter
  <1>30. ASSUME NEW c \in CPUs, Wake(c) PROVE MarkInv'
    BY <1>30 DEF Wake
  <1> QED
    BY <1>0, <1>1, <1>2, <1>3, <1>4, <1>5, <1>6, <1>7, <1>8, <1>9, <1>10, <1>11, <1>12,
       <1>13, <1>14, <1>15, <1>16, <1>17, <1>18, <1>19, <1>20, <1>21, <1>22, <1>23, <1>24,
       <1>25, <1>26, <1>27, <1>28, <1>29, <1>30 DEF Next, Kernel, Proceed

\* A retirement takes an epoch above every mark, and a mark moves past an epoch
\* only on a CPU that holds nothing.
LEMMA RetiredStep ==
  ASSUME TypeOK, MarkInv, RetiredInv, PlaceInv, [Next]_vars
  PROVE RetiredInv'
  <1> USE EpochAssumption DEF TypeOK, MarkInv, RetiredInv, IDLE, To, grace, lists, waits, local
  <1>0. CASE UNCHANGED vars
    BY <1>0 DEF vars
  <1>1. ASSUME NEW c \in CPUs, \E o \in Objects : Link(c, o) PROVE RetiredInv'
    BY <1>1 DEF Link
  <1>2. ASSUME NEW c \in CPUs, \E o \in Objects : Read(c, o) PROVE RetiredInv'
    BY <1>2 DEF Read
  <1>3. ASSUME NEW c \in CPUs, \E o \in Objects : Unlink(c, o) PROVE RetiredInv'
    BY <1>3 DEF Unlink
  <1>4. ASSUME NEW c \in CPUs, \E o \in Objects : RetireEpoch(c, o) PROVE RetiredInv'
    <2>1. PICK o \in Objects : RetireEpoch(c, o)
      BY <1>4
    <2>2. /\ epoch' = epoch + 1
          /\ ep' = [ep EXCEPT ![o] = epoch + 1]
          /\ life' = [life EXCEPT ![o] = "retired"]
          /\ UNCHANGED <<held, seen>>
      BY <2>1 DEF RetireEpoch
    <2>3. ASSUME NEW d \in CPUs, o \in held[d] PROVE seen[d] < epoch + 1
      <3>1. seen[d] <= epoch
        BY <2>3
      <3>2. seen[d] \in Int /\ epoch \in Int
        OBVIOUS
      <3> QED
        BY <3>1, <3>2
    <2> QED
      BY <2>2, <2>3
  <1>5. ASSUME NEW c \in CPUs, GateUp(c) PROVE RetiredInv'
    BY <1>5 DEF GateUp, Room
  <1>6. ASSUME NEW c \in CPUs, Look(c) PROVE RetiredInv'
    BY <1>6 DEF Look
  <1>7. ASSUME NEW c \in CPUs, GateDown(c) PROVE RetiredInv'
    BY <1>7 DEF GateDown
  <1>8. ASSUME NEW c \in CPUs, RetireAppend(c) PROVE RetiredInv'
    BY <1>8 DEF RetireAppend, Kick
  <1>9. ASSUME NEW c \in CPUs, BeginWait(c) PROVE RetiredInv'
    BY <1>9 DEF BeginWait
  <1>10. ASSUME NEW c \in CPUs, WaitEpoch(c) PROVE RetiredInv'
    BY <1>10 DEF WaitEpoch, Kick
  <1>11. ASSUME NEW c \in CPUs, \E d \in CPUs : LookNext(c, d) PROVE RetiredInv'
    BY <1>11 DEF LookNext, CpuPassed
  <1>12. ASSUME NEW c \in CPUs, \E d \in CPUs : LookAgain(c, d) PROVE RetiredInv'
    BY <1>12 DEF LookAgain, Kick
  <1>13. ASSUME NEW c \in CPUs, \E d \in CPUs : ScanNext(c, d) PROVE RetiredInv'
    BY <1>13 DEF ScanNext, Scanning, CpuPassed
  <1>14. ASSUME NEW c \in CPUs, LookDone(c) PROVE RetiredInv'
    BY <1>14 DEF LookDone
  <1>15. ASSUME NEW c \in CPUs, Resume(c) PROVE RetiredInv'
    BY <1>15 DEF Resume
  <1>16. ASSUME NEW c \in CPUs, Poll(c) PROVE RetiredInv'
    BY <1>16 DEF Poll
  <1>17. ASSUME NEW c \in CPUs, Decide(c) PROVE RetiredInv'
    BY <1>17 DEF Decide
  <1>18. ASSUME NEW c \in CPUs, QuiesceLoad(c) PROVE RetiredInv'
    BY <1>18 DEF QuiesceLoad
  <1>19. ASSUME NEW c \in CPUs, QuiesceStore(c) PROVE RetiredInv'
    BY <1>19 DEF QuiesceStore, IDLE
  <1>20. ASSUME NEW c \in CPUs, ScanTake(c) PROVE RetiredInv'
    BY <1>20 DEF ScanTake, Scanning
  <1>21. ASSUME NEW c \in CPUs, ScanEnd(c) PROVE RetiredInv'
    BY <1>21 DEF ScanEnd, Scanning
  <1>22. ASSUME NEW c \in CPUs, Free(c) PROVE RetiredInv'
    BY <1>22 DEF Free
  <1>23. ASSUME NEW c \in CPUs, RunGated(c) PROVE RetiredInv'
    BY <1>23 DEF RunGated
  <1>24. ASSUME NEW c \in CPUs, Park(c) PROVE RetiredInv'
    BY <1>24 DEF Park
  <1>25. ASSUME NEW c \in CPUs, RunOther(c) PROVE RetiredInv'
    BY <1>25 DEF RunOther
  <1>26. ASSUME NEW c \in CPUs, Clean(c) PROVE RetiredInv'
    BY <1>26 DEF Clean
  <1>27. ASSUME NEW c \in CPUs, Sleep(c) PROVE RetiredInv'
    BY <1>27 DEF Sleep, IDLE
  <1>28. ASSUME NEW c \in CPUs, Awake(c) PROVE RetiredInv'
    BY <1>28 DEF Awake, IDLE
  <1>29. ASSUME NEW c \in CPUs, Enter(c) PROVE RetiredInv'
    BY <1>29 DEF Enter
  <1>30. ASSUME NEW c \in CPUs, Wake(c) PROVE RetiredInv'
    BY <1>30 DEF Wake
  <1> QED
    BY <1>0, <1>1, <1>2, <1>3, <1>4, <1>5, <1>6, <1>7, <1>8, <1>9, <1>10, <1>11, <1>12,
       <1>13, <1>14, <1>15, <1>16, <1>17, <1>18, <1>19, <1>20, <1>21, <1>22, <1>23, <1>24,
       <1>25, <1>26, <1>27, <1>28, <1>29, <1>30 DEF Next, Kernel, Proceed

\* What `reclaim` frees is held by no CPU, and only linked objects are read.
LEMMA FreeStep ==
  ASSUME TypeOK, ScanInv, NoUseAfterFree, [Next]_vars
  PROVE NoUseAfterFree'
  <1> USE EpochAssumption DEF TypeOK, NoUseAfterFree, To, grace, lists, waits, local
  <1>0. CASE UNCHANGED vars
    BY <1>0 DEF vars
  <1>1. ASSUME NEW c \in CPUs, \E o \in Objects : Link(c, o) PROVE NoUseAfterFree'
    BY <1>1 DEF Link
  <1>2. ASSUME NEW c \in CPUs, \E o \in Objects : Read(c, o) PROVE NoUseAfterFree'
    BY <1>2 DEF Read
  <1>3. ASSUME NEW c \in CPUs, \E o \in Objects : Unlink(c, o) PROVE NoUseAfterFree'
    BY <1>3 DEF Unlink
  <1>4. ASSUME NEW c \in CPUs, \E o \in Objects : RetireEpoch(c, o) PROVE NoUseAfterFree'
    BY <1>4 DEF RetireEpoch, Room
  <1>5. ASSUME NEW c \in CPUs, GateUp(c) PROVE NoUseAfterFree'
    BY <1>5 DEF GateUp, Room
  <1>6. ASSUME NEW c \in CPUs, Look(c) PROVE NoUseAfterFree'
    BY <1>6 DEF Look
  <1>7. ASSUME NEW c \in CPUs, GateDown(c) PROVE NoUseAfterFree'
    BY <1>7 DEF GateDown
  <1>8. ASSUME NEW c \in CPUs, RetireAppend(c) PROVE NoUseAfterFree'
    BY <1>8 DEF RetireAppend, Kick
  <1>9. ASSUME NEW c \in CPUs, BeginWait(c) PROVE NoUseAfterFree'
    BY <1>9 DEF BeginWait
  <1>10. ASSUME NEW c \in CPUs, WaitEpoch(c) PROVE NoUseAfterFree'
    BY <1>10 DEF WaitEpoch, Kick
  <1>11. ASSUME NEW c \in CPUs, \E d \in CPUs : LookNext(c, d) PROVE NoUseAfterFree'
    BY <1>11 DEF LookNext, CpuPassed
  <1>12. ASSUME NEW c \in CPUs, \E d \in CPUs : LookAgain(c, d) PROVE NoUseAfterFree'
    BY <1>12 DEF LookAgain, Kick
  <1>13. ASSUME NEW c \in CPUs, \E d \in CPUs : ScanNext(c, d) PROVE NoUseAfterFree'
    BY <1>13 DEF ScanNext, Scanning, CpuPassed
  <1>14. ASSUME NEW c \in CPUs, LookDone(c) PROVE NoUseAfterFree'
    BY <1>14 DEF LookDone
  <1>15. ASSUME NEW c \in CPUs, Resume(c) PROVE NoUseAfterFree'
    BY <1>15 DEF Resume
  <1>16. ASSUME NEW c \in CPUs, Poll(c) PROVE NoUseAfterFree'
    BY <1>16 DEF Poll
  <1>17. ASSUME NEW c \in CPUs, Decide(c) PROVE NoUseAfterFree'
    BY <1>17 DEF Decide
  <1>18. ASSUME NEW c \in CPUs, QuiesceLoad(c) PROVE NoUseAfterFree'
    BY <1>18 DEF QuiesceLoad
  <1>19. ASSUME NEW c \in CPUs, QuiesceStore(c) PROVE NoUseAfterFree'
    BY <1>19 DEF QuiesceStore, IDLE
  <1>20. ASSUME NEW c \in CPUs, ScanTake(c) PROVE NoUseAfterFree'
    BY <1>20 DEF ScanTake, Scanning
  <1>21. ASSUME NEW c \in CPUs, ScanEnd(c) PROVE NoUseAfterFree'
    BY <1>21 DEF ScanEnd, Scanning
  <1>22. ASSUME NEW c \in CPUs, Free(c) PROVE NoUseAfterFree'
    BY <1>22 DEF Free, ScanInv
  <1>23. ASSUME NEW c \in CPUs, RunGated(c) PROVE NoUseAfterFree'
    BY <1>23 DEF RunGated
  <1>24. ASSUME NEW c \in CPUs, Park(c) PROVE NoUseAfterFree'
    BY <1>24 DEF Park
  <1>25. ASSUME NEW c \in CPUs, RunOther(c) PROVE NoUseAfterFree'
    BY <1>25 DEF RunOther
  <1>26. ASSUME NEW c \in CPUs, Clean(c) PROVE NoUseAfterFree'
    BY <1>26 DEF Clean
  <1>27. ASSUME NEW c \in CPUs, Sleep(c) PROVE NoUseAfterFree'
    BY <1>27 DEF Sleep, IDLE
  <1>28. ASSUME NEW c \in CPUs, Awake(c) PROVE NoUseAfterFree'
    BY <1>28 DEF Awake, IDLE
  <1>29. ASSUME NEW c \in CPUs, Enter(c) PROVE NoUseAfterFree'
    BY <1>29 DEF Enter
  <1>30. ASSUME NEW c \in CPUs, Wake(c) PROVE NoUseAfterFree'
    BY <1>30 DEF Wake
  <1> QED
    BY <1>0, <1>1, <1>2, <1>3, <1>4, <1>5, <1>6, <1>7, <1>8, <1>9, <1>10, <1>11, <1>12,
       <1>13, <1>14, <1>15, <1>16, <1>17, <1>18, <1>19, <1>20, <1>21, <1>22, <1>23, <1>24,
       <1>25, <1>26, <1>27, <1>28, <1>29, <1>30 DEF Next, Kernel, Proceed

\* An object moves from the CPU that retires it to its list, and from the list
\* to the batch, and is never in two places.
LEMMA PlaceStep ==
  ASSUME TypeOK, PlaceInv, [Next]_vars
  PROVE PlaceInv'
  <1> USE EpochAssumption DEF TypeOK, PlaceInv, To, grace, lists, waits, local
  <1>0. CASE UNCHANGED vars
    BY <1>0 DEF vars
  <1>1. ASSUME NEW c \in CPUs, \E o \in Objects : Link(c, o) PROVE PlaceInv'
    BY <1>1 DEF Link
  <1>2. ASSUME NEW c \in CPUs, \E o \in Objects : Read(c, o) PROVE PlaceInv'
    BY <1>2 DEF Read
  <1>3. ASSUME NEW c \in CPUs, \E o \in Objects : Unlink(c, o) PROVE PlaceInv'
    BY <1>3 DEF Unlink
  <1>4. ASSUME NEW c \in CPUs, \E o \in Objects : RetireEpoch(c, o) PROVE PlaceInv'
    BY <1>4 DEF RetireEpoch, Room
  <1>5. ASSUME NEW c \in CPUs, GateUp(c) PROVE PlaceInv'
    BY <1>5 DEF GateUp, Room
  <1>6. ASSUME NEW c \in CPUs, Look(c) PROVE PlaceInv'
    BY <1>6 DEF Look
  <1>7. ASSUME NEW c \in CPUs, GateDown(c) PROVE PlaceInv'
    BY <1>7 DEF GateDown
  <1>8. ASSUME NEW c \in CPUs, RetireAppend(c) PROVE PlaceInv'
    <2>1. PICK o \in obj[c] : retired' = [retired EXCEPT ![c] = Append(@, o)]
      BY <1>8 DEF RetireAppend
    <2>2. /\ pc' = [pc EXCEPT ![c] = "kernel"]
          /\ obj' = [obj EXCEPT ![c] = {}]
          /\ UNCHANGED <<life, batch>>
          /\ pc[c] = "append"
      BY <1>8 DEF RetireAppend
    <2>3. o \in Objects /\ life[o] = "retired"
      BY <2>1
    <2>4. ASSUME NEW x \in CPUs, NEW i \in DOMAIN retired'[x]
          PROVE  \/ i \in DOMAIN retired[x] /\ retired'[x][i] = retired[x][i]
                 \/ x = c /\ i = Len(retired[c]) + 1 /\ retired'[x][i] = o
      BY <2>1, <2>3, <2>4
    <2>5. ASSUME NEW x \in CPUs, NEW i \in DOMAIN retired[x]
          PROVE  retired[x][i] # o
      BY <2>1, <2>5
    <2>6. \A x \in CPUs : o \notin batch[x]
      BY <2>1
    <2>7. \A x \in CPUs : \A i \in DOMAIN retired'[x] :
            life[retired'[x][i]] = "retired" /\ \A y \in CPUs : retired'[x][i] \notin obj'[y] \union batch'[y]
      BY <2>1, <2>2, <2>3, <2>4, <2>6
    <2>8. ASSUME NEW x \in CPUs, NEW y \in CPUs,
                 NEW i \in DOMAIN retired'[x], NEW j \in DOMAIN retired'[y],
                 retired'[x][i] = retired'[y][j]
          PROVE  x = y /\ i = j
      <3>1. CASE i \in DOMAIN retired[x] /\ retired'[x][i] = retired[x][i]
        <4>1. retired[x][i] # o
          BY <3>1, <2>5
        <4>2. j \in DOMAIN retired[y] /\ retired'[y][j] = retired[y][j]
          BY <3>1, <4>1, <2>4, <2>8
        <4>3. retired[x][i] = retired[y][j]
          BY <3>1, <4>2, <2>8
        <4> QED
          BY <3>1, <4>2, <4>3
      <3>2. CASE x = c /\ i = Len(retired[c]) + 1 /\ retired'[x][i] = o
        <4>1. ~(j \in DOMAIN retired[y] /\ retired'[y][j] = retired[y][j])
          BY <3>2, <2>5, <2>8
        <4> QED
          BY <3>2, <4>1, <2>4
      <3> QED
        BY <3>1, <3>2, <2>4
    <2> QED
      BY <2>2, <2>7, <2>8
  <1>9. ASSUME NEW c \in CPUs, BeginWait(c) PROVE PlaceInv'
    BY <1>9 DEF BeginWait
  <1>10. ASSUME NEW c \in CPUs, WaitEpoch(c) PROVE PlaceInv'
    BY <1>10 DEF WaitEpoch, Kick
  <1>11. ASSUME NEW c \in CPUs, \E d \in CPUs : LookNext(c, d) PROVE PlaceInv'
    BY <1>11 DEF LookNext, CpuPassed
  <1>12. ASSUME NEW c \in CPUs, \E d \in CPUs : LookAgain(c, d) PROVE PlaceInv'
    BY <1>12 DEF LookAgain, Kick
  <1>13. ASSUME NEW c \in CPUs, \E d \in CPUs : ScanNext(c, d) PROVE PlaceInv'
    BY <1>13 DEF ScanNext
  <1>14. ASSUME NEW c \in CPUs, LookDone(c) PROVE PlaceInv'
    BY <1>14 DEF LookDone
  <1>15. ASSUME NEW c \in CPUs, Resume(c) PROVE PlaceInv'
    BY <1>15 DEF Resume
  <1>16. ASSUME NEW c \in CPUs, Poll(c) PROVE PlaceInv'
    BY <1>16 DEF Poll
  <1>17. ASSUME NEW c \in CPUs, Decide(c) PROVE PlaceInv'
    BY <1>17 DEF Decide
  <1>18. ASSUME NEW c \in CPUs, QuiesceLoad(c) PROVE PlaceInv'
    BY <1>18 DEF QuiesceLoad
  <1>19. ASSUME NEW c \in CPUs, QuiesceStore(c) PROVE PlaceInv'
    BY <1>19 DEF QuiesceStore, IDLE
  <1>20. ASSUME NEW c \in CPUs, ScanTake(c) PROVE PlaceInv'
    <2> DEFINE h == Head(retired[c])
    <2>1. /\ batch' = [batch EXCEPT ![c] = @ \union {h}]
          /\ retired' = [retired EXCEPT ![c] = Tail(@)]
          /\ UNCHANGED <<life, obj, pc>>
          /\ pc[c] = "scan" /\ retired[c] # <<>>
      BY <1>20 DEF ScanTake, Scanning
    <2>2. retired[c] \in Seq(Objects) /\ h = retired[c][1] /\ 1 \in DOMAIN retired[c]
      BY <2>1
    <2>3. ASSUME NEW x \in CPUs, NEW i \in DOMAIN retired'[x]
          PROVE  \/ x # c /\ i \in DOMAIN retired[x] /\ retired'[x][i] = retired[x][i]
                 \/ x = c /\ i \in Nat /\ i >= 1 /\ i + 1 \in DOMAIN retired[x] /\ retired'[x][i] = retired[x][i + 1]
      BY <2>1, <2>2, <2>3
    <2>4. h \in Objects /\ life[h] = "retired" /\ \A x \in CPUs : h \notin obj[x] /\ h \notin batch[x]
      BY <2>2
    <2>5. ASSUME NEW x \in CPUs, NEW i \in DOMAIN retired'[x]
          PROVE  /\ retired'[x][i] # h
                 /\ life[retired'[x][i]] = "retired"
                 /\ \A y \in CPUs : retired'[x][i] \notin obj[y] \union batch[y]
      <3>1. CASE x # c /\ i \in DOMAIN retired[x] /\ retired'[x][i] = retired[x][i]
        BY <2>2, <3>1
      <3>2. CASE x = c /\ i \in Nat /\ i >= 1 /\ i + 1 \in DOMAIN retired[x] /\ retired'[x][i] = retired[x][i + 1]
        <4>1. i + 1 # 1
          BY <3>2
        <4> QED
          BY <2>2, <3>2, <4>1
      <3> QED
        BY <2>3, <3>1, <3>2
    <2>6. ASSUME NEW x \in CPUs, NEW y \in CPUs,
                 NEW i \in DOMAIN retired'[x], NEW j \in DOMAIN retired'[y],
                 retired'[x][i] = retired'[y][j]
          PROVE  x = y /\ i = j
      <3>1. CASE x = c /\ y = c
        <4>1. i \in Nat /\ j \in Nat /\ i + 1 = j + 1
          BY <2>3, <2>6, <3>1
        <4> QED
          BY <3>1, <4>1
      <3>2. CASE x # c \/ y # c
        BY <2>3, <2>6, <3>2
      <3> QED
        BY <3>1, <3>2
    <2> HIDE DEF h
    <2>7. ASSUME NEW x \in CPUs, NEW i \in DOMAIN retired'[x]
          PROVE  /\ life'[retired'[x][i]] = "retired"
                 /\ \A y \in CPUs : retired'[x][i] \notin obj'[y] \union batch'[y]
      <3> DEFINE e == retired'[x][i]
      <3>1. e # h /\ life[e] = "retired" /\ \A y \in CPUs : e \notin obj[y] \union batch[y]
        BY <2>5
      <3> HIDE DEF e
      <3>2. life'[e] = "retired" /\ \A y \in CPUs : e \notin obj'[y] \union batch'[y]
        BY <2>1, <3>1
      <3> QED
        BY <3>2 DEF e
    <2>8. \A x \in CPUs :
            /\ obj'[x] # {} => pc'[x] = "append"
            /\ batch'[x] # {} => pc'[x] \in {"scan", "free"}
            /\ \A o \in obj'[x] \union batch'[x] : life'[o] = "retired"
      BY <2>1, <2>4
    <2>9. \A x \in CPUs, y \in CPUs :
            /\ obj'[x] \intersect batch'[y] = {}
            /\ x # y => obj'[x] \intersect obj'[y] = {} /\ batch'[x] \intersect batch'[y] = {}
      BY <2>1, <2>4
    <2>10. \A x \in CPUs, y \in CPUs :
            /\ \A i \in DOMAIN retired'[x] : retired'[x][i] \notin obj'[y] \union batch'[y]
            /\ \A i \in DOMAIN retired'[x], j \in DOMAIN retired'[y] :
                  retired'[x][i] = retired'[y][j] => x = y /\ i = j
      BY ONLY <2>6, <2>7
    <2> QED
      <3>1. \A x \in CPUs :
              /\ obj'[x] # {} => pc'[x] = "append"
              /\ batch'[x] # {} => pc'[x] \in {"scan", "free"}
              /\ \A o \in obj'[x] \union batch'[x] : life'[o] = "retired"
              /\ \A i \in DOMAIN retired'[x] : life'[retired'[x][i]] = "retired"
        BY ONLY <2>7, <2>8
      <3>2. \A x \in CPUs, y \in CPUs :
              /\ obj'[x] \intersect batch'[y] = {}
              /\ x # y => obj'[x] \intersect obj'[y] = {} /\ batch'[x] \intersect batch'[y] = {}
              /\ \A i \in DOMAIN retired'[x] : retired'[x][i] \notin obj'[y] \union batch'[y]
              /\ \A i \in DOMAIN retired'[x], j \in DOMAIN retired'[y] :
                    retired'[x][i] = retired'[y][j] => x = y /\ i = j
        BY ONLY <2>9, <2>10
      <3> QED
        BY ONLY <3>1, <3>2 DEF PlaceInv
  <1>21. ASSUME NEW c \in CPUs, ScanEnd(c) PROVE PlaceInv'
    BY <1>21 DEF ScanEnd, Scanning
  <1>22. ASSUME NEW c \in CPUs, Free(c) PROVE PlaceInv'
    BY <1>22 DEF Free
  <1>23. ASSUME NEW c \in CPUs, RunGated(c) PROVE PlaceInv'
    BY <1>23 DEF RunGated
  <1>24. ASSUME NEW c \in CPUs, Park(c) PROVE PlaceInv'
    BY <1>24 DEF Park
  <1>25. ASSUME NEW c \in CPUs, RunOther(c) PROVE PlaceInv'
    BY <1>25 DEF RunOther
  <1>26. ASSUME NEW c \in CPUs, Clean(c) PROVE PlaceInv'
    BY <1>26 DEF Clean
  <1>27. ASSUME NEW c \in CPUs, Sleep(c) PROVE PlaceInv'
    BY <1>27 DEF Sleep, IDLE
  <1>28. ASSUME NEW c \in CPUs, Awake(c) PROVE PlaceInv'
    BY <1>28 DEF Awake, IDLE
  <1>29. ASSUME NEW c \in CPUs, Enter(c) PROVE PlaceInv'
    BY <1>29 DEF Enter
  <1>30. ASSUME NEW c \in CPUs, Wake(c) PROVE PlaceInv'
    BY <1>30 DEF Wake
  <1> QED
    BY <1>0, <1>1, <1>2, <1>3, <1>4, <1>5, <1>6, <1>7, <1>8, <1>9, <1>10, <1>11, <1>12,
       <1>13, <1>14, <1>15, <1>16, <1>17, <1>18, <1>19, <1>20, <1>21, <1>22, <1>23, <1>24,
       <1>25, <1>26, <1>27, <1>28, <1>29, <1>30 DEF Next, Kernel, Proceed

\* The head of a list of retired objects is one.
LEMMA HeadRetired ==
  ASSUME TypeOK, PlaceInv, NEW c \in CPUs, retired[c] # <<>>
  PROVE  /\ Head(retired[c]) \in Objects
         /\ life[Head(retired[c])] = "retired"
  <1>1. retired[c] \in Seq(Objects)
    BY DEF TypeOK
  <1>2. 1 \in DOMAIN retired[c] /\ Head(retired[c]) = retired[c][1] /\ retired[c][1] \in Objects
    BY <1>1
  <1> QED
    BY <1>2 DEF PlaceInv

\* A CPU whose mark `passed` found past the epoch does not hold the object, then
\* or later.
LEMMA ScanStep ==
  ASSUME TypeOK, MarkInv, RetiredInv, PlaceInv, ScanInv, [Next]_vars
  PROVE ScanInv'
  <1> USE EpochAssumption DEF TypeOK, ScanInv, To, grace, lists, waits, local
  <1>0. CASE UNCHANGED vars
    BY <1>0 DEF vars
  <1>1. ASSUME NEW c \in CPUs, \E o \in Objects : Link(c, o) PROVE ScanInv'
    BY <1>1 DEF Link
  <1>2. ASSUME NEW c \in CPUs, \E o \in Objects : Read(c, o) PROVE ScanInv'
    <2>1. PICK o \in Objects : Read(c, o)
      BY <1>2
    <2>2. ASSUME NEW x \in CPUs, retired[x] # <<>> PROVE o # Head(retired[x])
      BY <2>1, <2>2, HeadRetired DEF Read
    <2>3. ASSUME NEW x \in CPUs PROVE o \notin batch[x]
      BY <2>1, <2>3 DEF Read, PlaceInv
    <2>4. /\ held' = [held EXCEPT ![c] = @ \union {o}]
          /\ UNCHANGED <<retired, scan, batch, pc>>
      BY <2>1 DEF Read
    <2>5. ASSUME NEW x \in CPUs, NEW y \in CPUs, NEW e \in Objects, e # o, e \notin held[y]
          PROVE  e \notin held'[y]
      BY <2>4, <2>5
    <2>6. ASSUME NEW x \in CPUs, pc[x] = "scan", scan[x] # {}, NEW y \in scan[x]
          PROVE  Head(retired[x]) \notin held'[y]
      <3>1. retired[x] # <<>> /\ Head(retired[x]) \notin held[y] /\ y \in CPUs
        BY <2>6
      <3>2. Head(retired[x]) \in Objects
        BY <3>1, HeadRetired
      <3> QED
        BY <3>1, <3>2, <2>2, <2>5
    <2>7. ASSUME NEW x \in CPUs, NEW e \in batch[x], NEW y \in CPUs PROVE e \notin held'[y]
      BY <2>3, <2>5, <2>7
    <2> QED
      BY <2>4, <2>6, <2>7
  <1>3. ASSUME NEW c \in CPUs, \E o \in Objects : Unlink(c, o) PROVE ScanInv'
    BY <1>3 DEF Unlink
  <1>4. ASSUME NEW c \in CPUs, \E o \in Objects : RetireEpoch(c, o) PROVE ScanInv'
    <2>1. PICK o \in Objects : RetireEpoch(c, o)
      BY <1>4
    <2> QED
      BY <2>1 DEF RetireEpoch
  <1>5. ASSUME NEW c \in CPUs, GateUp(c) PROVE ScanInv'
    BY <1>5 DEF GateUp, Room
  <1>6. ASSUME NEW c \in CPUs, Look(c) PROVE ScanInv'
    BY <1>6 DEF Look
  <1>7. ASSUME NEW c \in CPUs, GateDown(c) PROVE ScanInv'
    BY <1>7 DEF GateDown
  <1>8. ASSUME NEW c \in CPUs, RetireAppend(c) PROVE ScanInv'
    BY <1>8 DEF RetireAppend, Kick
  <1>9. ASSUME NEW c \in CPUs, BeginWait(c) PROVE ScanInv'
    BY <1>9 DEF BeginWait
  <1>10. ASSUME NEW c \in CPUs, WaitEpoch(c) PROVE ScanInv'
    BY <1>10 DEF WaitEpoch, Kick
  <1>11. ASSUME NEW c \in CPUs, \E d \in CPUs : LookNext(c, d) PROVE ScanInv'
    BY <1>11 DEF LookNext, CpuPassed
  <1>12. ASSUME NEW c \in CPUs, \E d \in CPUs : LookAgain(c, d) PROVE ScanInv'
    BY <1>12 DEF LookAgain, Kick
  <1>13. ASSUME NEW c \in CPUs, \E d \in CPUs : ScanNext(c, d) PROVE ScanInv'
    <2>1. PICK d \in CPUs : ScanNext(c, d)
      BY <1>13
    <2>2. Head(retired[c]) \in Objects /\ life[Head(retired[c])] = "retired"
      BY <2>1, HeadRetired DEF ScanNext, Scanning
    <2> DEFINE h == Head(retired[c])
    <2>3. h \notin held[d]
      <3>1. seen[d] >= ep[h] /\ ep[h] \in Nat /\ seen[d] \in Nat
        BY <2>1, <2>2 DEF ScanNext, CpuPassed, IDLE
      <3>2. h \in held[d] => seen[d] < ep[h]
        BY <2>2 DEF RetiredInv
      <3> QED
        BY <3>1, <3>2
    <2> QED
      BY <2>1, <2>3 DEF ScanNext, Scanning
  <1>14. ASSUME NEW c \in CPUs, LookDone(c) PROVE ScanInv'
    BY <1>14 DEF LookDone
  <1>15. ASSUME NEW c \in CPUs, Resume(c) PROVE ScanInv'
    BY <1>15 DEF Resume
  <1>16. ASSUME NEW c \in CPUs, Poll(c) PROVE ScanInv'
    BY <1>16 DEF Poll
  <1>17. ASSUME NEW c \in CPUs, Decide(c) PROVE ScanInv'
    BY <1>17 DEF Decide
  <1>18. ASSUME NEW c \in CPUs, QuiesceLoad(c) PROVE ScanInv'
    BY <1>18 DEF QuiesceLoad
  <1>19. ASSUME NEW c \in CPUs, QuiesceStore(c) PROVE ScanInv'
    BY <1>19 DEF QuiesceStore, IDLE
  <1>20. ASSUME NEW c \in CPUs, ScanTake(c) PROVE ScanInv'
    <2> DEFINE h == Head(retired[c])
    <2>1. \A d \in CPUs : h \notin held[d]
      BY <1>20 DEF ScanTake, Scanning
    <2>2. /\ batch' = [batch EXCEPT ![c] = @ \union {h}]
          /\ scan' = [scan EXCEPT ![c] = {}]
          /\ retired' = [retired EXCEPT ![c] = Tail(@)]
          /\ UNCHANGED <<held, pc>>
      BY <1>20 DEF ScanTake
    <2> HIDE DEF h
    <2> QED
      BY <2>1, <2>2
  <1>21. ASSUME NEW c \in CPUs, ScanEnd(c) PROVE ScanInv'
    BY <1>21 DEF ScanEnd, Scanning
  <1>22. ASSUME NEW c \in CPUs, Free(c) PROVE ScanInv'
    BY <1>22 DEF Free
  <1>23. ASSUME NEW c \in CPUs, RunGated(c) PROVE ScanInv'
    BY <1>23 DEF RunGated
  <1>24. ASSUME NEW c \in CPUs, Park(c) PROVE ScanInv'
    BY <1>24 DEF Park
  <1>25. ASSUME NEW c \in CPUs, RunOther(c) PROVE ScanInv'
    BY <1>25 DEF RunOther
  <1>26. ASSUME NEW c \in CPUs, Clean(c) PROVE ScanInv'
    BY <1>26 DEF Clean
  <1>27. ASSUME NEW c \in CPUs, Sleep(c) PROVE ScanInv'
    BY <1>27 DEF Sleep, IDLE
  <1>28. ASSUME NEW c \in CPUs, Awake(c) PROVE ScanInv'
    BY <1>28 DEF Awake, IDLE
  <1>29. ASSUME NEW c \in CPUs, Enter(c) PROVE ScanInv'
    BY <1>29 DEF Enter
  <1>30. ASSUME NEW c \in CPUs, Wake(c) PROVE ScanInv'
    BY <1>30 DEF Wake
  <1> QED
    BY <1>0, <1>1, <1>2, <1>3, <1>4, <1>5, <1>6, <1>7, <1>8, <1>9, <1>10, <1>11, <1>12,
       <1>13, <1>14, <1>15, <1>16, <1>17, <1>18, <1>19, <1>20, <1>21, <1>22, <1>23, <1>24,
       <1>25, <1>26, <1>27, <1>28, <1>29, <1>30 DEF Next, Kernel, Proceed

\* A thread of the gated process that is at EL0 got there before the epoch of
\* the wait, and its CPU has not been marked since.
LEMMA GateStep ==
  ASSUME TypeOK, MarkInv, ScanInv, GateInv, [Next]_vars
  PROVE GateInv'
  <1> USE EpochAssumption DEF TypeOK, MarkInv, GateInv, Beginning, IDLE, To, grace, lists, waits, local
  <1>0. CASE UNCHANGED vars
    BY <1>0 DEF vars
  <1>1. ASSUME NEW c \in CPUs, \E o \in Objects : Link(c, o) PROVE GateInv'
    BY <1>1 DEF Link
  <1>2. ASSUME NEW c \in CPUs, \E o \in Objects : Read(c, o) PROVE GateInv'
    BY <1>2 DEF Read
  <1>3. ASSUME NEW c \in CPUs, \E o \in Objects : Unlink(c, o) PROVE GateInv'
    BY <1>3 DEF Unlink
  <1>4. ASSUME NEW c \in CPUs, \E o \in Objects : RetireEpoch(c, o) PROVE GateInv'
    BY <1>4 DEF RetireEpoch, Room
  <1>5. ASSUME NEW c \in CPUs, GateUp(c) PROVE GateInv'
    BY <1>5 DEF GateUp, Room
  <1>6. ASSUME NEW c \in CPUs, Look(c) PROVE GateInv'
    <2>1. /\ pc[c] = "kernel" /\ wait # 0
          /\ \A d \in CPUs : pc[d] # "look"
          /\ pc' = [pc EXCEPT ![c] = "look"]
          /\ UNCHANGED <<epoch, seen, wait, gate, user, scan>>
      BY <1>6 DEF Look
    <2>2. scan[c] = {}
      BY <2>1 DEF ScanInv
    <2> QED
      BY <2>1, <2>2
  <1>7. ASSUME NEW c \in CPUs, GateDown(c) PROVE GateInv'
    BY <1>7 DEF GateDown
  <1>8. ASSUME NEW c \in CPUs, RetireAppend(c) PROVE GateInv'
    BY <1>8 DEF RetireAppend, Kick
  <1>9. ASSUME NEW c \in CPUs, BeginWait(c) PROVE GateInv'
    BY <1>9 DEF BeginWait
  <1>10. ASSUME NEW c \in CPUs, WaitEpoch(c) PROVE GateInv'
    <2>1. /\ pc[c] = "wait2" /\ pc' = [pc EXCEPT ![c] = "kernel"]
          /\ epoch' = epoch + 1 /\ wait' = epoch + 1
          /\ UNCHANGED <<seen, gate, user, scan>>
      BY <1>10 DEF WaitEpoch
    <2>2. ASSUME NEW d \in user PROVE seen[d] < epoch + 1
      <3>1. d \in CPUs /\ pc[d] = "el0"
        OBVIOUS
      <3>2. seen[d] <= epoch
        BY <3>1
      <3>3. seen[d] \in Int /\ epoch \in Int
        BY <3>1
      <3> QED
        BY <3>2, <3>3
    <2>3. wait = 0
      BY <2>1
    <2>4. ~Beginning'
      BY <2>1
    <2>5. \A d \in CPUs : pc'[d] # "look"
      BY <2>1, <2>3
    <2>6. gate # "quiet"
      BY <2>1
    <2> QED
      BY <2>1, <2>2, <2>4, <2>5, <2>6
  <1>11. ASSUME NEW c \in CPUs, \E d \in CPUs : LookNext(c, d) PROVE GateInv'
    BY <1>11 DEF LookNext, CpuPassed
  <1>12. ASSUME NEW c \in CPUs, \E d \in CPUs : LookAgain(c, d) PROVE GateInv'
    BY <1>12 DEF LookAgain, Kick
  <1>13. ASSUME NEW c \in CPUs, \E d \in CPUs : ScanNext(c, d) PROVE GateInv'
    BY <1>13 DEF ScanNext, Scanning, CpuPassed
  <1>14. ASSUME NEW c \in CPUs, LookDone(c) PROVE GateInv'
    BY <1>14 DEF LookDone
  <1>15. ASSUME NEW c \in CPUs, Resume(c) PROVE GateInv'
    BY <1>15 DEF Resume
  <1>16. ASSUME NEW c \in CPUs, Poll(c) PROVE GateInv'
    BY <1>16 DEF Poll
  <1>17. ASSUME NEW c \in CPUs, Decide(c) PROVE GateInv'
    BY <1>17 DEF Decide
  <1>18. ASSUME NEW c \in CPUs, QuiesceLoad(c) PROVE GateInv'
    BY <1>18 DEF QuiesceLoad
  <1>19. ASSUME NEW c \in CPUs, QuiesceStore(c) PROVE GateInv'
    BY <1>19 DEF QuiesceStore, IDLE
  <1>20. ASSUME NEW c \in CPUs, ScanTake(c) PROVE GateInv'
    BY <1>20 DEF ScanTake, Scanning
  <1>21. ASSUME NEW c \in CPUs, ScanEnd(c) PROVE GateInv'
    BY <1>21 DEF ScanEnd, Scanning
  <1>22. ASSUME NEW c \in CPUs, Free(c) PROVE GateInv'
    BY <1>22 DEF Free
  <1>23. ASSUME NEW c \in CPUs, RunGated(c) PROVE GateInv'
    BY <1>23 DEF RunGated
  <1>24. ASSUME NEW c \in CPUs, Park(c) PROVE GateInv'
    BY <1>24 DEF Park
  <1>25. ASSUME NEW c \in CPUs, RunOther(c) PROVE GateInv'
    BY <1>25 DEF RunOther
  <1>26. ASSUME NEW c \in CPUs, Clean(c) PROVE GateInv'
    BY <1>26 DEF Clean
  <1>27. ASSUME NEW c \in CPUs, Sleep(c) PROVE GateInv'
    BY <1>27 DEF Sleep, IDLE
  <1>28. ASSUME NEW c \in CPUs, Awake(c) PROVE GateInv'
    BY <1>28 DEF Awake, IDLE
  <1>29. ASSUME NEW c \in CPUs, Enter(c) PROVE GateInv'
    BY <1>29 DEF Enter
  <1>30. ASSUME NEW c \in CPUs, Wake(c) PROVE GateInv'
    BY <1>30 DEF Wake
  <1> QED
    BY <1>0, <1>1, <1>2, <1>3, <1>4, <1>5, <1>6, <1>7, <1>8, <1>9, <1>10, <1>11, <1>12,
       <1>13, <1>14, <1>15, <1>16, <1>17, <1>18, <1>19, <1>20, <1>21, <1>22, <1>23, <1>24,
       <1>25, <1>26, <1>27, <1>28, <1>29, <1>30 DEF Next, Kernel, Proceed

-----------------------------------------------------------------------------
\* The inductive invariant holds of every behaviour.
THEOREM Invariance == Spec => []Inductive
  <1>1. Inductive /\ [Next]_vars => Inductive'
    BY TypeStep, MarkStep, RetiredStep, FreeStep, PlaceStep, ScanStep, GateStep DEF Inductive
  <1> QED
    BY InitInductive, <1>1, PTL DEF Spec

\* No CPU holds a pointer to an object whose memory went back.
THEOREM Safety == Spec => []NoUseAfterFree
  <1>1. Inductive => NoUseAfterFree
    BY DEF Inductive
  <1> QED
    BY Invariance, <1>1, PTL

\* While a completed suspension lasts, no CPU has a thread of the process at EL0.
THEOREM Suspension == Spec => []SuspensionIsQuiet
  <1>1. Inductive => SuspensionIsQuiet
    BY DEF Inductive, GateInv, SuspensionIsQuiet
  <1> QED
    BY Invariance, <1>1, PTL
-----------------------------------------------------------------------------
(* Qsbr implements Reclamation: every step is one of its steps or leaves   *)
(* the lives of the objects and the pointers alone.                        *)

\* Each step of the protocol is a step of Reclamation or changes nothing it sees.
LEMMA StepRefines ==
  ASSUME Inductive, [Next]_vars
  PROVE [Abstract!Next]_(Abstract!vars)
  <1> USE DEF Abstract!vars, grace, lists, waits, local
  <1>0. CASE UNCHANGED vars
    BY <1>0 DEF vars
  <1>1. ASSUME NEW c \in CPUs, \E o \in Objects : Link(c, o) PROVE [Abstract!Next]_(Abstract!vars)
    BY <1>1 DEF Link, Abstract!Next, Abstract!Link
  <1>2. ASSUME NEW c \in CPUs, \E o \in Objects : Read(c, o) PROVE [Abstract!Next]_(Abstract!vars)
    BY <1>2 DEF Read, Abstract!Next, Abstract!Read
  <1>3. ASSUME NEW c \in CPUs, \E o \in Objects : Unlink(c, o) PROVE [Abstract!Next]_(Abstract!vars)
    BY <1>3 DEF Unlink, Abstract!Next, Abstract!Unlink
  <1>4. ASSUME NEW c \in CPUs, \E o \in Objects : RetireEpoch(c, o) PROVE [Abstract!Next]_(Abstract!vars)
    BY <1>4 DEF RetireEpoch, Abstract!Next, Abstract!Retire
  <1>5. ASSUME NEW c \in CPUs, GateUp(c) PROVE [Abstract!Next]_(Abstract!vars)
    BY <1>5 DEF GateUp
  <1>6. ASSUME NEW c \in CPUs, Look(c) PROVE [Abstract!Next]_(Abstract!vars)
    BY <1>6 DEF Look
  <1>7. ASSUME NEW c \in CPUs, GateDown(c) PROVE [Abstract!Next]_(Abstract!vars)
    BY <1>7 DEF GateDown
  <1>8. ASSUME NEW c \in CPUs, RetireAppend(c) PROVE [Abstract!Next]_(Abstract!vars)
    BY <1>8 DEF RetireAppend
  <1>9. ASSUME NEW c \in CPUs, BeginWait(c) PROVE [Abstract!Next]_(Abstract!vars)
    BY <1>9 DEF BeginWait
  <1>10. ASSUME NEW c \in CPUs, WaitEpoch(c) PROVE [Abstract!Next]_(Abstract!vars)
    BY <1>10 DEF WaitEpoch
  <1>11. ASSUME NEW c \in CPUs, \E d \in CPUs : LookNext(c, d) PROVE [Abstract!Next]_(Abstract!vars)
    BY <1>11 DEF LookNext
  <1>12. ASSUME NEW c \in CPUs, \E d \in CPUs : LookAgain(c, d) PROVE [Abstract!Next]_(Abstract!vars)
    BY <1>12 DEF LookAgain, Abstract!Next, Abstract!LetGo
  <1>13. ASSUME NEW c \in CPUs, \E d \in CPUs : ScanNext(c, d) PROVE [Abstract!Next]_(Abstract!vars)
    BY <1>13 DEF ScanNext
  <1>14. ASSUME NEW c \in CPUs, LookDone(c) PROVE [Abstract!Next]_(Abstract!vars)
    BY <1>14 DEF LookDone
  <1>15. ASSUME NEW c \in CPUs, Resume(c) PROVE [Abstract!Next]_(Abstract!vars)
    BY <1>15 DEF Resume, Abstract!Next, Abstract!LetGo
  <1>16. ASSUME NEW c \in CPUs, Poll(c) PROVE [Abstract!Next]_(Abstract!vars)
    BY <1>16 DEF Poll
  <1>17. ASSUME NEW c \in CPUs, Decide(c) PROVE [Abstract!Next]_(Abstract!vars)
    BY <1>17 DEF Decide
  <1>18. ASSUME NEW c \in CPUs, QuiesceLoad(c) PROVE [Abstract!Next]_(Abstract!vars)
    BY <1>18 DEF QuiesceLoad
  <1>19. ASSUME NEW c \in CPUs, QuiesceStore(c) PROVE [Abstract!Next]_(Abstract!vars)
    BY <1>19 DEF QuiesceStore
  <1>20. ASSUME NEW c \in CPUs, ScanTake(c) PROVE [Abstract!Next]_(Abstract!vars)
    BY <1>20 DEF ScanTake
  <1>21. ASSUME NEW c \in CPUs, ScanEnd(c) PROVE [Abstract!Next]_(Abstract!vars)
    BY <1>21 DEF ScanEnd
  <1>22. ASSUME NEW c \in CPUs, Free(c) PROVE [Abstract!Next]_(Abstract!vars)
    <2>1. batch[c] \in SUBSET Objects
      BY DEF Inductive, TypeOK
    <2>2. Abstract!Free(batch[c])
      BY <1>22, <2>1 DEF Free, Abstract!Free, Inductive, PlaceInv, ScanInv
    <2> QED
      BY <2>1, <2>2 DEF Abstract!Next
  <1>23. ASSUME NEW c \in CPUs, RunGated(c) PROVE [Abstract!Next]_(Abstract!vars)
    BY <1>23 DEF RunGated
  <1>24. ASSUME NEW c \in CPUs, Park(c) PROVE [Abstract!Next]_(Abstract!vars)
    BY <1>24 DEF Park
  <1>25. ASSUME NEW c \in CPUs, RunOther(c) PROVE [Abstract!Next]_(Abstract!vars)
    BY <1>25 DEF RunOther
  <1>26. ASSUME NEW c \in CPUs, Clean(c) PROVE [Abstract!Next]_(Abstract!vars)
    BY <1>26 DEF Clean
  <1>27. ASSUME NEW c \in CPUs, Sleep(c) PROVE [Abstract!Next]_(Abstract!vars)
    BY <1>27 DEF Sleep
  <1>28. ASSUME NEW c \in CPUs, Awake(c) PROVE [Abstract!Next]_(Abstract!vars)
    BY <1>28 DEF Awake
  <1>29. ASSUME NEW c \in CPUs, Enter(c) PROVE [Abstract!Next]_(Abstract!vars)
    BY <1>29 DEF Enter
  <1>30. ASSUME NEW c \in CPUs, Wake(c) PROVE [Abstract!Next]_(Abstract!vars)
    BY <1>30 DEF Wake
  <1> QED
    BY <1>0, <1>1, <1>2, <1>3, <1>4, <1>5, <1>6, <1>7, <1>8, <1>9, <1>10, <1>11, <1>12,
       <1>13, <1>14, <1>15, <1>16, <1>17, <1>18, <1>19, <1>20, <1>21, <1>22, <1>23, <1>24,
       <1>25, <1>26, <1>27, <1>28, <1>29, <1>30 DEF Next, Kernel, Proceed

\* The epochs, the marks and the lists keep the promise the readers rely on.
THEOREM Refinement == Spec => Reclaims
  <1>1. Init => Abstract!Init
    BY DEF Init, Abstract!Init
  <1> QED
    BY Invariance, StepRefines, <1>1, PTL DEF Spec, Reclaims, Abstract!Spec
=============================================================================
