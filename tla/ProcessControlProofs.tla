------------------------ MODULE ProcessControlProofs ------------------------
(***************************************************************************)
(* Proofs about ProcessControl, for any CPUs, any threads on them and any  *)
(* size of a portion, and for every behaviour: what a suspension that met  *)
(* a portion breaks is said by the history `raced` in the properties       *)
(* themselves, and what a thread that is ended twice breaks by `again`.    *)
(***************************************************************************)
EXTENDS ProcessControl, FiniteSetTheorems, TLAPS

-----------------------------------------------------------------------------
(* The inductive invariant.                                                *)

\* What the item is for: a continuation, a teardown, or an empty shell.
Item == resume # 0 \/ stage \in {"threads", "rest"} \/ (stage = "shell" /\ refs = 0)

\* The item is somewhere only while it is for something.
ItemNeeded == raced \/ (Queued \/ Running => Item)

\* A thread on a CPU is the one its CPU selected.
Selected ==
    /\ \A c \in CPUs :
        /\ pc[c] \in {"park", "el0"} <=> cur[c] # NoThread
        /\ cur[c] # NoThread => where[cur[c]] = "cpu" /\ Home[cur[c]] = c
    /\ \A t \in Threads : where[t] = "cpu" => cur[Home[t]] = t

\* A command UNPARK finds its thread parked and off the list, or at its end; a
\* command EXIT comes of the end of the thread itself or of a process that
\* ends, and before the memory goes.
Posted ==
    \A t \in Threads :
        /\ "UNPARK" \in posted[t] =>
            /\ t \notin parked
            /\ where[t] = "parked" \/ (where[t] = "dead" /\ posted[t] \cap {"EXIT", "UNHELD"} # {})
        /\ "EXIT" \in posted[t] => where[t] = "dead" \/ ("ENDING" \in gate /\ stage # "whole")
        /\ "UNHELD" \in posted[t] => where[t] = "dead" /\ again
        /\ where[t] \in {"clean", "lost"} => posted[t] = {}

\* The teardown stops threads that have not ended, but for the one that began
\* it from deeper in the list.
Fresh ==
    \A t \in todo :
        /\ again \/ ~Ended(t)
        /\ "EXIT" \in posted[t] => where[t] = "dead"

\* Only a whole process continues; one that is no longer whole has the flag
\* ENDING, or no thread that could look at it.
Stages ==
    /\ resume # 0 => stage = "whole"
    /\ stage = "threads" => "ENDING" \in gate
    /\ stage # "whole" => "ENDING" \in gate \/ Holders = {}
    /\ stage = "gone" => raced \/ refs = 0
    /\ stage = "whole" => todo = {} /\ ~again
    /\ \A c \in CPUs : pc[c] = "clean" => stage # "whole"

ControlInductive ==
    /\ TypeOK /\ ItemOnce /\ ItemNeeded /\ References /\ Selected /\ Posted /\ Stages
    /\ NobodyForgotten /\ StoppedForGood /\ AssertionsHold /\ Fresh

\* The threads that hold a reference are finitely many.
LEMMA HoldersCount ==
  /\ IsFiniteSet(Holders) /\ Cardinality(Holders) \in Nat
  /\ Cardinality(Holders) = 0 <=> Holders = {}
  <1>1. Holders \subseteq Threads
    BY DEF Holders
  <1> QED
    BY <1>1, ThreadsAssumption, FS_Subset, FS_CardinalityType, FS_EmptySet

\* The item went into the queue of `c`, where it was nowhere unless a suspension
\* met a portion.
Added(c) ==
    \/ ~Queued /\ (raced \/ ~Running) /\ queue' = {c} /\ failed' = failed
    \/ Queued /\ raced /\ queue' = queue /\ failed' = "ItemQueuedTwice"

\* process::release: the last reference of a whole process begins its
\* teardown, the last of a shell queues it; else the count falls.
LEMMA ReleaseCases ==
  ASSUME ControlInductive, NEW c \in CPUs, NEW S, Release(c, S), refs >= 1,
         refs = 1 => resume = 0 /\ stage \notin {"threads", "rest"}
  PROVE \/ /\ refs > 1 /\ refs' = refs - 1 /\ todo' = S
           /\ UNCHANGED <<stage, resume, queue, failed>>
        \/ /\ refs = 1 /\ stage = "whole" /\ resume = 0 /\ stage' = "rest" /\ resume' = 0
           /\ refs' = 1 /\ todo' = {} /\ Added(c)
        \/ /\ refs = 1 /\ stage \in {"shell", "gone"} /\ resume = 0 /\ refs' = 0 /\ todo' = S
           /\ (raced \/ stage = "shell") /\ Added(c) /\ UNCHANGED <<stage, resume>>
  <1> USE DEF ControlInductive, TypeOK
  <1>1. CASE refs > 1
    BY <1>1 DEF Release
  <1>2. CASE refs = 1
    <2>1. /\ raced \/ (~Queued /\ ~Running)
          /\ stage \in {"whole", "shell", "gone"} /\ resume = 0
          /\ raced \/ stage # "gone"
      BY <1>2 DEF ItemNeeded, Item, Stages
    <2>2. CASE stage = "whole"
      BY <1>2, <2>1, <2>2 DEF Release, Begin, Enqueue, Added
    <2>3. CASE stage \in {"shell", "gone"}
      BY <1>2, <2>1, <2>3 DEF Release, Enqueue, Added
    <2> QED
      BY <2>1, <2>2, <2>3, <1>2
  <1> QED
    BY <1>1, <1>2

\* process_suspend sets the gate.
LEMMA SuspendStep ==
  ASSUME ControlInductive, NEW c \in CPUs, Suspend(c)
  PROVE ControlInductive'
  <1> USE HomeAssumption DEF ControlInductive, TypeOK, process, threads, cpus, history
  <1>0. Holders' = Holders
    BY DEF Suspend, Holders
  <1>1. TypeOK'
    BY DEF Suspend
  <1>2. ItemOnce' /\ ItemNeeded'
    BY DEF Suspend, ItemOnce, Running, ItemOnce, ItemNeeded, Item, Queued, Running
  <1>3. References'
    <2> DEFINE n == Cardinality(Holders)
    <2>1. n \in Nat /\ Cardinality(Holders)' = n /\ stage = "whole" /\ stage' = "whole" /\ handles' = handles
      BY <1>0, HoldersCount DEF Suspend
    <2>2. Referring' = handles + n
      BY <2>1 DEF Referring, Suspend
    <2>3. CASE resume = 0
      BY <2>1, <2>2, <2>3 DEF Suspend, References, Referring
    <2>4. CASE resume # 0
      <3>1. Referring = handles + n + 1
        BY <2>1, <2>4 DEF Referring
      <3>2. CASE Queued
        BY <2>1, <2>2, <2>4, <3>1, <3>2 DEF Suspend, References
      <3>3. CASE ~Queued
        <4>1. raced' = TRUE
          BY <2>4, <3>3 DEF Suspend
        <4>2. refs' >= Referring'
          BY <2>1, <2>2, <2>4, <3>1, <3>3 DEF Suspend, References
        <4> QED
          BY <4>1, <4>2 DEF References
      <3> QED
        BY <3>2, <3>3
    <2> QED
      BY <2>3, <2>4
  <1>4. Selected'
    BY DEF Suspend, Selected
  <1>5. Posted'
    BY DEF Suspend, Posted
  <1>6. Stages'
    BY DEF Suspend, Stages, Running
  <1>7. NobodyForgotten'
    BY DEF Suspend, NobodyForgotten
  <1>8. StoppedForGood'
    BY DEF Suspend, StoppedForGood
  <1>9. AssertionsHold' /\ Fresh'
    BY DEF Suspend, AssertionsHold, Fresh, Ended
  <1> QED
    BY <1>1, <1>2, <1>3, <1>4, <1>5, <1>6, <1>7, <1>8, <1>9

\* process_continue opens the gate and queues a portion when threads are parked.
LEMMA ContinueStep ==
  ASSUME ControlInductive, NEW c \in CPUs, Continue(c)
  PROVE ControlInductive'
  <1> USE HomeAssumption DEF ControlInductive, TypeOK, process, threads, cpus, history
  <1>0. Holders' = Holders
    BY DEF Continue, Holders
  <1>1. TypeOK'
    BY DEF Continue, Enqueue
  <1>2. ItemOnce' /\ ItemNeeded'
    BY DEF Continue, Enqueue, ItemOnce, ItemNeeded, Item, Queued, Running
  <1>3. References'
    BY <1>0, HoldersCount DEF Continue, References, Referring
  <1>4. Selected'
    BY DEF Continue, Selected
  <1>5. Posted'
    BY DEF Continue, Posted
  <1>6. Stages'
    BY DEF Continue, Stages
  <1>7. NobodyForgotten'
    BY DEF Continue, NobodyForgotten
  <1>8. StoppedForGood'
    BY DEF Continue, StoppedForGood
  <1>9. AssertionsHold' /\ Fresh'
    BY DEF Continue, Enqueue, AssertionsHold, Fresh, Ended, ItemNeeded, Item, Queued
  <1> QED
    BY <1>1, <1>2, <1>3, <1>4, <1>5, <1>6, <1>7, <1>8, <1>9

\* process_kill begins the teardown.
LEMMA KillStep ==
  ASSUME ControlInductive, NEW c \in CPUs, Kill(c)
  PROVE ControlInductive'
  <1> USE HomeAssumption DEF ControlInductive, TypeOK, process, threads, cpus, history
  <1>0. Holders' = Holders
    BY DEF Kill, Holders
  <1>1. TypeOK'
    BY DEF Kill, Begin, Enqueue, Listed
  <1>2. ItemOnce' /\ ItemNeeded'
    BY DEF Kill, Begin, Enqueue, ItemOnce, ItemNeeded, Item, Queued, Running
  <1>3. References'
    BY <1>0, HoldersCount DEF Kill, Begin, References, Referring
  <1>4. Selected'
    BY DEF Kill, Selected
  <1>5. Posted'
    BY DEF Kill, Posted
  <1>6. Stages'
    BY DEF Kill, Begin, Stages
  <1>7. NobodyForgotten'
    BY DEF Kill, NobodyForgotten
  <1>8. StoppedForGood'
    BY DEF Kill, Begin, StoppedForGood, Selected, Listed
  <1>9. AssertionsHold' /\ Fresh'
    BY DEF Kill, Enqueue, Begin, Listed, AssertionsHold, Fresh, Ended, ItemOnce, ItemNeeded, Item, Queued, Running, Stages, Posted
  <1> QED
    BY <1>1, <1>2, <1>3, <1>4, <1>5, <1>6, <1>7, <1>8, <1>9

\* The close of the handle lets the reference of the handle go.
LEMMA CloseHandleStep ==
  ASSUME ControlInductive, NEW c \in CPUs, CloseHandle(c)
  PROVE ControlInductive'
  <1> USE HomeAssumption DEF ControlInductive, TypeOK, process, threads, cpus, history
  <1>1. /\ Holders' = Holders /\ where' = where /\ handles = 1 /\ refs >= 1
        /\ refs = 1 => Holders' = {} /\ resume = 0 /\ stage \notin {"threads", "rest"}
    BY HoldersCount DEF CloseHandle, Holders, References, Referring
  <1>2. \/ /\ refs > 1 /\ refs' = refs - 1 /\ todo' = todo
           /\ UNCHANGED <<stage, resume, queue, failed>>
        \/ /\ refs = 1 /\ stage = "whole" /\ resume = 0 /\ stage' = "rest" /\ resume' = 0
           /\ refs' = 1 /\ todo' = {} /\ Added(c)
        \/ /\ refs = 1 /\ stage \in {"shell", "gone"} /\ resume = 0 /\ refs' = 0 /\ todo' = todo
           /\ (raced \/ stage = "shell") /\ Added(c) /\ UNCHANGED <<stage, resume>>
    BY <1>1, ReleaseCases DEF CloseHandle
  <1>3. TypeOK'
    BY <1>2 DEF Added, CloseHandle
  <1>4. ItemOnce' /\ ItemNeeded'
    BY <1>2 DEF Added, CloseHandle, ItemOnce, ItemNeeded, Item, Queued, Running
  <1>5. References'
    BY <1>1, <1>2, HoldersCount DEF CloseHandle, References, Referring
  <1>6. refs = 1 => Holders' = {} /\ \A x \in Threads : where'[x] = "clean"
    BY <1>1 DEF Holders
  <1>7. Selected' /\ Posted'
    BY <1>2 DEF CloseHandle, Selected, Posted
  <1>8. Stages'
    BY <1>1, <1>2 DEF Added, CloseHandle, Stages
  <1>9. NobodyForgotten'
    BY <1>2 DEF Added, CloseHandle, NobodyForgotten
  <1>11. AssertionsHold' /\ Fresh'
    BY <1>2, <1>6 DEF CloseHandle, Added, AssertionsHold, Fresh, Ended, InKernel, Stages
  <1>10. StoppedForGood'
    BY <1>2, <1>6 DEF CloseHandle, StoppedForGood, Selected
  <1> QED
    BY <1>3, <1>4, <1>5, <1>7, <1>8, <1>9, <1>10, <1>11

\* thread_set_priority posts LEVEL.
LEMMA SetPriorityStep ==
  ASSUME ControlInductive, NEW c \in CPUs, NEW t \in Threads, SetPriority(c, t)
  PROVE ControlInductive'
  <1> USE HomeAssumption DEF ControlInductive, TypeOK, process, threads, cpus, history
  <1>0. Holders' = Holders
    BY DEF SetPriority, Holders
  <1>1. TypeOK'
    BY DEF SetPriority
  <1>2. ItemOnce' /\ ItemNeeded'
    BY DEF SetPriority, ItemOnce, ItemNeeded, Item, Queued, Running
  <1>3. References'
    BY <1>0 DEF SetPriority, References, Referring
  <1>4. Selected'
    BY DEF SetPriority, Selected
  <1>5. Posted'
    BY DEF SetPriority, Ended, Posted
  <1>6. Stages'
    BY <1>0 DEF SetPriority, Stages
  <1>7. NobodyForgotten'
    BY DEF SetPriority, NobodyForgotten
  <1>8. StoppedForGood'
    BY DEF SetPriority, StoppedForGood
  <1>9. AssertionsHold' /\ Fresh'
    BY DEF SetPriority, AssertionsHold, Fresh, Ended, ItemOnce, ItemNeeded, Item, Queued, Running
  <1> QED
    BY <1>1, <1>2, <1>3, <1>4, <1>5, <1>6, <1>7, <1>8, <1>9

\* A CPU selects a ready thread.
LEMMA SelectStep ==
  ASSUME ControlInductive, NEW c \in CPUs, NEW t \in Threads, Select(c, t)
  PROVE ControlInductive'
  <1> USE HomeAssumption DEF ControlInductive, TypeOK, process, threads, cpus, history
  <1>0. Holders' = Holders
    BY DEF Select, Holders
  <1>1. TypeOK'
    BY DEF Select
  <1>2. ItemOnce' /\ ItemNeeded'
    BY DEF Select, InKernel, ItemOnce, ItemNeeded, Item, Queued, Running
  <1>3. References'
    BY <1>0 DEF Select, References, Referring
  <1>4. Selected'
    BY DEF Select, InKernel, Selected
  <1>5. Posted'
    BY DEF Select, Posted
  <1>6. Stages'
    BY <1>0 DEF Select, Stages
  <1>7. NobodyForgotten'
    BY DEF Select, NobodyForgotten
  <1>8. StoppedForGood'
    BY DEF Select, StoppedForGood, Posted, Stages, Holders
  <1>9. AssertionsHold' /\ Fresh'
    BY DEF Select, AssertionsHold, Fresh, Ended
  <1> QED
    BY <1>1, <1>2, <1>3, <1>4, <1>5, <1>6, <1>7, <1>8, <1>9

\* A CPU parks the thread it selected, the gate being up.
LEMMA ParkSelectedStep ==
  ASSUME ControlInductive, NEW c \in CPUs, ParkSelected(c)
  PROVE ControlInductive'
  <1> USE HomeAssumption DEF ControlInductive, TypeOK, process, threads, cpus, history
  <1>0. Holders' = Holders
    BY DEF ParkSelected, Holders, Selected
  <1>1. TypeOK'
    BY DEF ParkSelected, Selected
  <1>2. ItemOnce' /\ ItemNeeded'
    BY DEF ParkSelected, ItemOnce, ItemNeeded, Item, Queued, Running
  <1>3. References'
    BY <1>0 DEF ParkSelected, References, Referring
  <1>4. Selected'
    BY DEF ParkSelected, Selected
  <1>5. Posted'
    BY DEF ParkSelected, Posted, Selected
  <1>6. Stages'
    BY <1>0 DEF ParkSelected, Stages
  <1>7. NobodyForgotten'
    BY DEF ParkSelected, NobodyForgotten, Selected
  <1>8. StoppedForGood'
    BY DEF ParkSelected, StoppedForGood, Posted, Selected, Stages, Holders
  <1>9. AssertionsHold' /\ Fresh'
    BY DEF ParkSelected, AssertionsHold, Fresh, Ended, Selected
  <1> QED
    BY <1>1, <1>2, <1>3, <1>4, <1>5, <1>6, <1>7, <1>8, <1>9

\* A CPU goes to EL0 with the thread it selected.
LEMMA EnterStep ==
  ASSUME ControlInductive, NEW c \in CPUs, Enter(c)
  PROVE ControlInductive'
  <1> USE HomeAssumption DEF ControlInductive, TypeOK, process, threads, cpus, history
  <1>0. Holders' = Holders
    BY DEF Enter, Holders, Selected
  <1>1. TypeOK'
    BY DEF Enter
  <1>2. ItemOnce' /\ ItemNeeded'
    BY DEF Enter, ItemOnce, ItemNeeded, Item, Queued, Running
  <1>3. References'
    BY <1>0 DEF Enter, References, Referring
  <1>4. Selected'
    BY DEF Enter, Selected
  <1>5. Posted'
    BY DEF Enter, Posted, Selected
  <1>6. Stages'
    BY <1>0 DEF Enter, Stages
  <1>7. NobodyForgotten'
    BY DEF Enter, NobodyForgotten, Selected
  <1>8. StoppedForGood'
    BY DEF Enter, StoppedForGood
  <1>9. AssertionsHold' /\ Fresh'
    BY DEF Enter, AssertionsHold, Fresh, Ended, Selected
  <1> QED
    BY <1>1, <1>2, <1>3, <1>4, <1>5, <1>6, <1>7, <1>8, <1>9

\* thread_exit: the thread leaves the list.
LEMMA ThreadExitStep ==
  ASSUME ControlInductive, NEW c \in CPUs, ThreadExit(c)
  PROVE ControlInductive'
  <1> USE HomeAssumption DEF ControlInductive, TypeOK, process, threads, cpus, history
  <1>a. cur[c] \in Threads /\ where[cur[c]] = "cpu" /\ Home[cur[c]] = c
    BY DEF ThreadExit, Selected
  <1>0. Holders' = Holders
    BY <1>a DEF ThreadExit, ExitHere, Holders
  <1>1. TypeOK'
    <2>1. where' \in [Threads -> {"ready", "cpu", "parked", "dead", "clean", "lost"}]
      BY DEF ThreadExit, ExitHere
    <2>2. posted' \in [Threads -> SUBSET {"UNPARK", "LEVEL", "EXIT", "UNHELD"}]
      BY DEF ThreadExit, ExitHere
    <2>3. /\ stage' \in {"whole", "threads", "rest", "shell", "gone"} /\ todo' \in SUBSET Threads
          /\ gate' \in SUBSET {"SUSPENDED", "ENDING"} /\ resume' \in {0, 1}
      BY DEF ThreadExit, Begin, Listed
    <2>4. refs' \in Int /\ queue' \in SUBSET CPUs
      BY DEF ThreadExit, Begin, Enqueue
    <2>5. failed' \in {"none", "ContinuationWithoutReference", "ItemQueuedTwice", "SecondPortion",
                      "EndedThreadHasNoNumber"}
      BY DEF ThreadExit, Begin, Enqueue
    <2> QED
      BY <2>1, <2>2, <2>3, <2>4, <2>5 DEF ThreadExit
  <1>2. ItemOnce' /\ ItemNeeded'
    <2>1. Running' <=> Running
      BY DEF ThreadExit, Running
    <2>2. raced' = raced
      BY DEF ThreadExit
    <2>3. CASE raced
      BY <2>2, <2>3 DEF ItemOnce, ItemNeeded
    <2>4. CASE ~raced
      <3>1. \A x, y \in CPUs : pc'[x] \in {"taken", "continue", "clean"}
                              /\ pc'[y] \in {"taken", "continue", "clean"} => x = y
        BY <2>4 DEF ThreadExit, ItemOnce
      <3>2. \A x, y \in CPUs : x \in queue' /\ y \in queue' => x = y
        BY <2>4 DEF ThreadExit, Begin, Enqueue, ItemOnce
      <3>3. (Queued' => ~Running') /\ (Item' <=> Queued' \/ Running')
        BY <2>1, <2>4 DEF ThreadExit, Begin, Enqueue, ItemOnce, ItemNeeded, Item, Queued
      <3> QED
        BY <2>2, <3>1, <3>2, <3>3 DEF ItemOnce, ItemNeeded, Item
    <2> QED
      BY <2>3, <2>4
  <1>3. References'
    BY <1>0, HoldersCount DEF ThreadExit, Begin, References, Referring, Stages
  <1>4. Selected'
    BY <1>a DEF ThreadExit, ExitHere, Selected
  <1>5. Posted'
    BY <1>a DEF ThreadExit, ExitHere, Begin, Posted, Stages
  <1>6. Stages'
    BY <1>0 DEF ThreadExit, Begin, Stages
  <1>7. NobodyForgotten'
    BY <1>a DEF ThreadExit, ExitHere, Begin, NobodyForgotten, Posted
  <1>8. StoppedForGood'
    BY <1>a DEF ThreadExit, ExitHere, Begin, StoppedForGood, Selected, Stages, Listed
  <1>9. AssertionsHold'
    BY <1>a DEF ThreadExit, ExitHere, Begin, Enqueue, AssertionsHold, ItemOnce, ItemNeeded, Item, Queued, Running, Stages
  <1>10. Fresh'
    BY <1>a DEF ThreadExit, ExitHere, Begin, Listed, Fresh, Ended, Stages, Posted
  <1> QED
    BY <1>1, <1>2, <1>3, <1>4, <1>5, <1>6, <1>7, <1>8, <1>9, <1>10

\* process_exit: the thread stays in the list, at its head or deeper.
LEMMA ProcessExitStep ==
  ASSUME ControlInductive, NEW c \in CPUs, NEW S, ProcessExit(c, S)
  PROVE ControlInductive'
  <1> USE HomeAssumption DEF ControlInductive, TypeOK, process, threads, cpus, history
  <1>a. cur[c] \in Threads /\ where[cur[c]] = "cpu" /\ Home[cur[c]] = c
    BY DEF ProcessExit, Selected
  <1>0. Holders' = Holders
    BY <1>a DEF ProcessExit, ExitHere, Holders
  <1>1. TypeOK'
    <2>1. where' \in [Threads -> {"ready", "cpu", "parked", "dead", "clean", "lost"}]
      BY DEF ProcessExit, ExitHere
    <2>2. posted' \in [Threads -> SUBSET {"UNPARK", "LEVEL", "EXIT", "UNHELD"}]
      BY DEF ProcessExit, ExitHere
    <2>3. /\ stage' \in {"whole", "threads", "rest", "shell", "gone"} /\ todo' \in SUBSET Threads
          /\ gate' \in SUBSET {"SUSPENDED", "ENDING"} /\ resume' \in {0, 1}
      BY DEF ProcessExit, Begin, Listed
    <2>4. refs' \in Int /\ queue' \in SUBSET CPUs
      BY DEF ProcessExit, Begin, Enqueue
    <2>5. failed' \in {"none", "ContinuationWithoutReference", "ItemQueuedTwice", "SecondPortion",
                      "EndedThreadHasNoNumber"}
      BY DEF ProcessExit, Begin, Enqueue
    <2> QED
      BY <2>1, <2>2, <2>3, <2>4, <2>5 DEF ProcessExit
  <1>2. ItemOnce' /\ ItemNeeded'
    <2>1. Running' <=> Running
      BY DEF ProcessExit, Running
    <2>2. raced' = raced
      BY DEF ProcessExit
    <2>3. CASE raced
      BY <2>2, <2>3 DEF ItemOnce, ItemNeeded
    <2>4. CASE ~raced
      <3>1. \A x, y \in CPUs : pc'[x] \in {"taken", "continue", "clean"}
                              /\ pc'[y] \in {"taken", "continue", "clean"} => x = y
        BY <2>4 DEF ProcessExit, ItemOnce
      <3>2. \A x, y \in CPUs : x \in queue' /\ y \in queue' => x = y
        BY <2>4 DEF ProcessExit, Begin, Enqueue, ItemOnce
      <3>3. (Queued' => ~Running') /\ (Item' <=> Queued' \/ Running')
        BY <2>1, <2>4 DEF ProcessExit, Begin, Enqueue, ItemOnce, ItemNeeded, Item, Queued
      <3> QED
        BY <2>2, <3>1, <3>2, <3>3 DEF ItemOnce, ItemNeeded, Item
    <2> QED
      BY <2>3, <2>4
  <1>3. References'
    BY <1>0, HoldersCount DEF ProcessExit, Begin, References, Referring, Stages
  <1>4. Selected'
    BY <1>a DEF ProcessExit, ExitHere, Selected
  <1>5. Posted'
    BY <1>a DEF ProcessExit, ExitHere, Begin, Posted, Stages
  <1>6. Stages'
    BY <1>0 DEF ProcessExit, Begin, Stages
  <1>7. NobodyForgotten'
    BY <1>a DEF ProcessExit, ExitHere, Begin, NobodyForgotten, Posted
  <1>8. StoppedForGood'
    BY <1>a DEF ProcessExit, ExitHere, Begin, StoppedForGood, Selected, Stages, Listed
  <1>9. AssertionsHold'
    BY <1>a DEF ProcessExit, ExitHere, Begin, Enqueue, AssertionsHold, ItemOnce, ItemNeeded, Item, Queued, Running, Stages
  <1>10. Fresh'
    BY <1>a DEF ProcessExit, ExitHere, Begin, Listed, Fresh, Ended, Stages, Posted
  <1> QED
    BY <1>1, <1>2, <1>3, <1>4, <1>5, <1>6, <1>7, <1>8, <1>9, <1>10

\* A CPU serves the command of a thread.
LEMMA ServeStep ==
  ASSUME ControlInductive, NEW c \in CPUs, NEW t \in Threads, Serve(c, t)
  PROVE ControlInductive'
  <1> USE HomeAssumption DEF ControlInductive, TypeOK, process, threads, cpus, history
  <1>0. Holders' = Holders
    BY DEF Serve, Served, Holders, Posted
  <1>1. TypeOK'
    BY DEF Serve, Served
  <1>2. ItemOnce' /\ ItemNeeded'
    BY DEF Serve, Served, ItemOnce, ItemNeeded, Item, Queued, Running
  <1>3. References'
    BY <1>0 DEF Serve, Served, References, Referring
  <1>4. Selected'
    BY DEF Serve, Served, InKernel, Selected
  <1>5. Posted'
    BY DEF Serve, Served, Posted
  <1>6. Stages'
    BY <1>0 DEF Serve, Served, Stages
  <1>7. NobodyForgotten'
    BY DEF Serve, Served, Ended, NobodyForgotten, Posted
  <1>8. StoppedForGood'
    BY DEF Serve, Served, StoppedForGood
  <1>9. AssertionsHold' /\ Fresh'
    BY DEF Serve, Served, AssertionsHold, Fresh, Ended, ItemOnce, ItemNeeded, Item, Queued, Running, Stages, Posted
  <1> QED
    BY <1>1, <1>2, <1>3, <1>4, <1>5, <1>6, <1>7, <1>8, <1>9

\* The portion of a thread that ended lets its reference go.
LEMMA CleanThreadStep ==
  ASSUME ControlInductive, NEW c \in CPUs, NEW t \in Threads, CleanThread(c, t)
  PROVE ControlInductive'
  <1> USE HomeAssumption DEF ControlInductive, TypeOK, process, threads, cpus, history
  <1>0. /\ t \in Holders /\ Holders' = Holders \ {t}
        /\ Cardinality(Holders') = Cardinality(Holders) - 1 /\ Cardinality(Holders) > 0
    <2>1. t \in Holders /\ Holders' = Holders \ {t}
      BY DEF CleanThread, Holders
    <2>2. Cardinality(Holders \ {t}) = Cardinality(Holders) - 1
      BY <2>1, HoldersCount, FS_RemoveElement
    <2> QED
      BY <2>1, <2>2, HoldersCount
  <1>1. /\ Cardinality(Holders') = Cardinality(Holders) - 1 /\ refs >= 1
        /\ Holders' \subseteq Holders
        /\ refs = 1 => Holders' = {} /\ resume = 0 /\ stage \notin {"threads", "rest"}
    <2>1. Cardinality(Holders') = 0 => Holders' = {}
      BY <1>0, HoldersCount, FS_EmptySet, FS_RemoveElement
    <2> QED
      BY <1>0, <2>1, HoldersCount DEF References, Referring
  <1>2. \/ /\ refs > 1 /\ refs' = refs - 1 /\ todo' = todo \ {t}
           /\ UNCHANGED <<stage, resume, queue, failed>>
        \/ /\ refs = 1 /\ stage = "whole" /\ resume = 0 /\ stage' = "rest" /\ resume' = 0
           /\ refs' = 1 /\ todo' = {} /\ Added(c)
        \/ /\ refs = 1 /\ stage \in {"shell", "gone"} /\ resume = 0 /\ refs' = 0 /\ todo' = todo \ {t}
           /\ (raced \/ stage = "shell") /\ Added(c) /\ UNCHANGED <<stage, resume>>
    BY <1>1, ReleaseCases DEF CleanThread
  <1>3. TypeOK'
    BY <1>2 DEF Added, CleanThread
  <1>4. ItemOnce' /\ ItemNeeded'
    BY <1>2 DEF Added, CleanThread, ItemOnce, ItemNeeded, Item, Queued, Running
  <1>5. References'
    <2> DEFINE n == Cardinality(Holders)
    <2>1. n \in Nat /\ Cardinality(Holders)' = n - 1 /\ handles' = handles /\ raced' = raced
      BY <1>1, HoldersCount DEF CleanThread
    <2>2. Referring' = handles + (n - 1) + (IF resume' # 0 \/ stage' \in {"threads", "rest"} THEN 1 ELSE 0)
      BY <2>1 DEF Referring
    <2>3. Referring = handles + n + (IF resume # 0 \/ stage \in {"threads", "rest"} THEN 1 ELSE 0)
      BY DEF Referring
    <2> QED
      BY <1>2, <2>1, <2>2, <2>3 DEF References
  <1>6. refs = 1 => Holders' = {} /\ \A x \in Threads : where'[x] = "clean"
    BY <1>1 DEF Holders
  <1>7. Selected' /\ Posted'
    BY <1>2 DEF CleanThread, Selected, Posted
  <1>8. Stages'
    BY <1>1, <1>2 DEF Added, CleanThread, Stages
  <1>9. NobodyForgotten'
    BY <1>2 DEF Added, CleanThread, NobodyForgotten
  <1>11. AssertionsHold' /\ Fresh'
    BY <1>2, <1>6 DEF CleanThread, Added, AssertionsHold, Fresh, Ended, InKernel, Stages
  <1>10. StoppedForGood'
    BY <1>2, <1>6 DEF CleanThread, StoppedForGood, Selected
  <1> QED
    BY <1>3, <1>4, <1>5, <1>7, <1>8, <1>9, <1>10, <1>11

\* The cleaner takes the item from the queue.
LEMMA TakeStep ==
  ASSUME ControlInductive, NEW c \in CPUs, Take(c)
  PROVE ControlInductive'
  <1> USE HomeAssumption DEF ControlInductive, TypeOK, process, threads, cpus, history
  <1>0. Holders' = Holders
    BY DEF Take, Holders
  <1>1. TypeOK'
    BY DEF Take
  <1>2. ItemOnce' /\ ItemNeeded'
    BY DEF Take, ItemOnce, ItemNeeded, Item, Queued, Running
  <1>3. References'
    BY <1>0 DEF Take, References, Referring
  <1>4. Selected'
    BY DEF Take, InKernel, Selected
  <1>5. Posted'
    BY DEF Take, Posted
  <1>6. Stages'
    BY <1>0 DEF Take, Stages
  <1>7. NobodyForgotten'
    BY DEF Take, NobodyForgotten
  <1>8. StoppedForGood'
    BY DEF Take, StoppedForGood
  <1>9. AssertionsHold' /\ Fresh'
    BY DEF Take, AssertionsHold, Fresh, Ended, ItemOnce, Queued
  <1> QED
    BY <1>1, <1>2, <1>3, <1>4, <1>5, <1>6, <1>7, <1>8, <1>9

\* The cleaner reads the stage.
LEMMA ReadStageStep ==
  ASSUME ControlInductive, NEW c \in CPUs, ReadStage(c)
  PROVE ControlInductive'
  <1> USE HomeAssumption DEF ControlInductive, TypeOK, process, threads, cpus, history
  <1>0. Holders' = Holders
    BY DEF ReadStage, Holders
  <1>1. TypeOK'
    BY DEF ReadStage
  <1>2. ItemOnce' /\ ItemNeeded'
    BY DEF ReadStage, ItemOnce, ItemNeeded, Item, Queued, Running
  <1>3. References'
    BY <1>0 DEF ReadStage, References, Referring
  <1>4. Selected'
    BY DEF ReadStage, Selected
  <1>5. Posted'
    BY DEF ReadStage, Posted
  <1>6. Stages'
    BY <1>0 DEF ReadStage, Stages
  <1>7. NobodyForgotten'
    BY DEF ReadStage, NobodyForgotten
  <1>8. StoppedForGood'
    BY DEF ReadStage, StoppedForGood
  <1>9. AssertionsHold' /\ Fresh'
    BY DEF ReadStage, AssertionsHold, Fresh, Ended
  <1> QED
    BY <1>1, <1>2, <1>3, <1>4, <1>5, <1>6, <1>7, <1>8, <1>9

\* A portion of a continuation finds a process that ends.
LEMMA PortionEndedStep ==
  ASSUME ControlInductive, NEW c \in CPUs, PortionEnded(c)
  PROVE ControlInductive'
  <1> USE HomeAssumption DEF ControlInductive, TypeOK, process, threads, cpus, history
  <1>0. Holders' = Holders
    BY DEF PortionEnded, Holders
  <1>1. TypeOK'
    BY DEF PortionEnded, Enqueue
  <1>2. ItemOnce' /\ ItemNeeded'
    BY DEF PortionEnded, Enqueue, ItemOnce, ItemNeeded, Item, Queued, Running
  <1>3. References'
    BY <1>0 DEF PortionEnded, References, Referring
  <1>4. Selected'
    BY DEF PortionEnded, Selected
  <1>5. Posted'
    BY DEF PortionEnded, Posted
  <1>6. Stages'
    BY <1>0 DEF PortionEnded, Stages
  <1>7. NobodyForgotten'
    BY DEF PortionEnded, NobodyForgotten
  <1>8. StoppedForGood'
    BY DEF PortionEnded, StoppedForGood
  <1>9. AssertionsHold' /\ Fresh'
    BY DEF PortionEnded, Enqueue, AssertionsHold, Fresh, Ended, ItemOnce, Running
  <1> QED
    BY <1>1, <1>2, <1>3, <1>4, <1>5, <1>6, <1>7, <1>8, <1>9

\* The assertion of a portion fails only after a suspension met it.
LEMMA PortionAssertsStep ==
  ASSUME ControlInductive, NEW c \in CPUs, PortionAsserts(c)
  PROVE ControlInductive'
  <1> USE HomeAssumption DEF ControlInductive, TypeOK, process, threads, cpus, history
  <1>0. Holders' = Holders
    BY DEF PortionAsserts, Holders
  <1>1. TypeOK'
    BY DEF PortionAsserts
  <1>2. ItemOnce' /\ ItemNeeded'
    BY DEF PortionAsserts, ItemOnce, ItemNeeded, Item, Queued, Running
  <1>3. References'
    BY <1>0 DEF PortionAsserts, References, Referring
  <1>4. Selected'
    BY DEF PortionAsserts, Selected
  <1>5. Posted'
    BY DEF PortionAsserts, Ended, Posted
  <1>6. Stages'
    BY <1>0 DEF PortionAsserts, Stages
  <1>7. NobodyForgotten'
    BY DEF PortionAsserts, NobodyForgotten
  <1>8. StoppedForGood'
    BY DEF PortionAsserts, StoppedForGood
  <1>9. AssertionsHold' /\ Fresh'
    BY DEF PortionAsserts, AssertionsHold, Fresh, Ended, ItemOnce, ItemNeeded, Item, Queued, Running
  <1> QED
    BY <1>1, <1>2, <1>3, <1>4, <1>5, <1>6, <1>7, <1>8, <1>9

\* A portion of a continuation leaves threads for the next.
LEMMA PortionLeftStep ==
  ASSUME ControlInductive, NEW c \in CPUs, NEW P \in SUBSET parked, PortionLeft(c, P)
  PROVE ControlInductive'
  <1> USE HomeAssumption DEF ControlInductive, TypeOK, process, threads, cpus, history
  <1>0. Holders' = Holders
    BY DEF PortionLeft, Unpark, Holders, NobodyForgotten
  <1>1. TypeOK'
    BY DEF PortionLeft, Unpark, Enqueue
  <1>2. ItemOnce' /\ ItemNeeded'
    BY DEF PortionLeft, Enqueue, ItemOnce, ItemNeeded, Item, Queued, Running
  <1>3. References'
    BY <1>0 DEF PortionLeft, References, Referring
  <1>4. Selected'
    BY DEF PortionLeft, Unpark, Selected
  <1>5. Posted'
    BY DEF PortionLeft, Unpark, Posted, NobodyForgotten
  <1>6. Stages'
    BY DEF PortionLeft, Stages
  <1>7. NobodyForgotten'
    BY DEF PortionLeft, Unpark, NobodyForgotten
  <1>8. StoppedForGood'
    BY DEF PortionLeft, Unpark, StoppedForGood
  <1>9. AssertionsHold' /\ Fresh'
    BY DEF PortionLeft, Enqueue, Unpark, AssertionsHold, Fresh, Ended, ItemOnce, Running, Stages
  <1> QED
    BY <1>1, <1>2, <1>3, <1>4, <1>5, <1>6, <1>7, <1>8, <1>9

\* The last portion of a continuation lets its reference go.
LEMMA PortionDoneStep ==
  ASSUME ControlInductive, NEW c \in CPUs, NEW P \in SUBSET parked, PortionDone(c, P)
  PROVE ControlInductive'
  <1> USE HomeAssumption DEF ControlInductive, TypeOK, process, threads, cpus, history
  <1>a. pc[c] = "continue" /\ stage = "whole" /\ resume # 0
    BY DEF PortionDone
  <1>b. /\ IF gate = {} THEN Unpark(c, P) ELSE UNCHANGED <<parked, where, posted>>
        /\ gate = {} => P = parked
        /\ resume' = 0 /\ pc' = [pc EXCEPT ![c] = "kernel"]
        /\ \/ refs > 1 /\ refs' = refs - 1 /\ UNCHANGED <<stage, todo, queue, failed>>
           \/ /\ refs <= 1 /\ todo' = {} /\ stage' = "rest" /\ refs' = 1
              /\ \/ ~Queued /\ queue' = {c} /\ failed' = failed
                 \/ Queued /\ raced /\ queue' = queue /\ failed' = "ItemQueuedTwice"
        /\ UNCHANGED <<gate, handles, cur, history>>
    <2>1. raced \/ ~Queued
      BY <1>a DEF ItemOnce, Running
    <2> QED
      BY <1>a, <2>1 DEF PortionDone, Enqueue
  <1>0. Holders' = Holders
    BY <1>b DEF Unpark, Holders, NobodyForgotten
  <1>c. refs <= 1 => refs = 1 /\ handles = 0 /\ Holders = {} /\ \A t \in Threads : where[t] = "clean"
    <2>1. refs <= 1 => refs = 1 /\ handles = 0 /\ Holders = {}
      BY <1>a, HoldersCount DEF References, Referring
    <2> QED
      BY <2>1 DEF Holders
  <1>1. TypeOK'
    BY <1>b DEF Unpark
  <1>2. ItemOnce' /\ ItemNeeded'
    BY <1>a, <1>b DEF ItemOnce, ItemNeeded, Item, Queued, Running
  <1>3. References'
    BY <1>0, <1>a, <1>b, HoldersCount DEF References, Referring
  <1>4. Selected'
    BY <1>a, <1>b DEF Unpark, Selected
  <1>5. Posted'
    BY <1>b DEF Unpark, Posted, NobodyForgotten
  <1>6. Stages'
    BY <1>0, <1>b, <1>c DEF Stages
  <1>7. NobodyForgotten'
    BY <1>b DEF Unpark, NobodyForgotten, Posted
  <1>8. StoppedForGood'
    BY <1>b, <1>c DEF Unpark, StoppedForGood, Selected
  <1>9. AssertionsHold' /\ Fresh'
    <2>1. \A t \in Threads : where'[t] = "lost" => where[t] = "lost"
      BY <1>b DEF Unpark
    <2>2. AssertionsHold'
      BY <1>b, <2>1 DEF AssertionsHold
    <2>3. todo' = {}
      BY <1>a, <1>b DEF Stages
    <2> QED
      BY <2>2, <2>3 DEF Fresh
  <1> QED
    BY <1>1, <1>2, <1>3, <1>4, <1>5, <1>6, <1>7, <1>8, <1>9

\* The stage Threads waits until no thread is at EL0.
LEMMA GateUnseenStep ==
  ASSUME ControlInductive, NEW c \in CPUs, GateUnseen(c)
  PROVE ControlInductive'
  <1> USE HomeAssumption DEF ControlInductive, TypeOK, process, threads, cpus, history
  <1>0. Holders' = Holders
    BY DEF GateUnseen, Holders
  <1>1. TypeOK'
    BY DEF GateUnseen, Enqueue
  <1>2. ItemOnce' /\ ItemNeeded'
    BY DEF GateUnseen, Enqueue, ItemOnce, ItemNeeded, Item, Queued, Running
  <1>3. References'
    BY <1>0 DEF GateUnseen, References, Referring
  <1>4. Selected'
    BY DEF GateUnseen, Selected
  <1>5. Posted'
    BY DEF GateUnseen, Posted
  <1>6. Stages'
    BY DEF GateUnseen, Stages
  <1>7. NobodyForgotten'
    BY DEF GateUnseen, NobodyForgotten
  <1>8. StoppedForGood'
    BY DEF GateUnseen, StoppedForGood
  <1>9. AssertionsHold' /\ Fresh'
    BY DEF GateUnseen, Enqueue, AssertionsHold, Fresh, Ended, ItemOnce, Running
  <1> QED
    BY <1>1, <1>2, <1>3, <1>4, <1>5, <1>6, <1>7, <1>8, <1>9

\* The stage Threads of a teardown tells threads to end.
LEMMA StopThreadsStep ==
  ASSUME ControlInductive, NEW c \in CPUs, NEW P \in SUBSET todo, StopThreads(c, P)
  PROVE ControlInductive'
  <1> USE HomeAssumption DEF ControlInductive, TypeOK, process, threads, cpus, history
  <1>0. Holders' = Holders
    BY DEF StopThreads, Ended, Holders
  <1>1. TypeOK'
    BY DEF StopThreads, Enqueue, Asked
  <1>2. ItemOnce' /\ ItemNeeded'
    BY DEF StopThreads, Enqueue, ItemOnce, ItemNeeded, Item, Queued, Running
  <1>3. References'
    BY <1>0 DEF StopThreads, References, Referring
  <1>4. Selected'
    BY DEF StopThreads, Selected
  <1>5. Posted'
    BY DEF StopThreads, Asked, ExitAgain, Ended, Posted, Stages, Fresh
  <1>6. Stages'
    BY DEF StopThreads, Stages
  <1>7. NobodyForgotten'
    BY DEF StopThreads, Asked, ExitAgain, Ended, NobodyForgotten, Posted, Fresh
  <1>8. StoppedForGood'
    BY DEF StopThreads, Asked, ExitAgain, StoppedForGood
  <1>9. AssertionsHold' /\ Fresh'
    BY DEF StopThreads, Enqueue, Asked, ExitAgain, AssertionsHold, Fresh, Ended, ItemOnce, ItemNeeded, Item, Queued, Running, Stages, Posted
  <1> QED
    BY <1>1, <1>2, <1>3, <1>4, <1>5, <1>6, <1>7, <1>8, <1>9

\* A thread cannot be asked to end only where it ended before.
LEMMA StopPanicsStep ==
  ASSUME ControlInductive, NEW c \in CPUs, NEW P \in SUBSET todo, StopPanics(c, P)
  PROVE ControlInductive'
  <1> USE HomeAssumption DEF ControlInductive, TypeOK, process, threads, cpus, history
  <1>0. Holders' = Holders
    BY DEF StopPanics, Holders
  <1>1. TypeOK'
    BY DEF StopPanics
  <1>2. ItemOnce' /\ ItemNeeded'
    BY DEF StopPanics, ItemOnce, ItemNeeded, Item, Queued, Running
  <1>3. References'
    BY <1>0 DEF StopPanics, References, Referring
  <1>4. Selected'
    BY DEF StopPanics, Selected
  <1>5. Posted'
    BY DEF StopPanics, Ended, Posted
  <1>6. Stages'
    BY <1>0 DEF StopPanics, Stages
  <1>7. NobodyForgotten'
    BY DEF StopPanics, NobodyForgotten
  <1>8. StoppedForGood'
    BY DEF StopPanics, StoppedForGood
  <1>9. AssertionsHold' /\ Fresh'
    BY DEF StopPanics, AssertionsHold, Fresh, Ended, ItemOnce, ItemNeeded, Item, Queued, Running, Unaskable
  <1> QED
    BY <1>1, <1>2, <1>3, <1>4, <1>5, <1>6, <1>7, <1>8, <1>9

\* The stages after Threads end with the shell.
LEMMA RestStagesStep ==
  ASSUME ControlInductive, NEW c \in CPUs, RestStages(c)
  PROVE ControlInductive'
  <1> USE HomeAssumption DEF ControlInductive, TypeOK, process, threads, cpus, history
  <1>0. Holders' = Holders
    BY DEF RestStages, Holders
  <1>1. TypeOK'
    BY DEF RestStages, Enqueue
  <1>2. ItemOnce' /\ ItemNeeded'
    BY DEF RestStages, Enqueue, ItemOnce, ItemNeeded, Item, Queued, Running, Stages
  <1>3. References'
    BY <1>0, HoldersCount DEF RestStages, References, Referring, Stages
  <1>4. Selected'
    BY DEF RestStages, Selected
  <1>5. Posted'
    BY DEF RestStages, Posted
  <1>6. Stages'
    BY <1>0 DEF RestStages, Stages
  <1>7. NobodyForgotten'
    BY DEF RestStages, NobodyForgotten
  <1>8. StoppedForGood'
    BY DEF RestStages, StoppedForGood
  <1>9. AssertionsHold' /\ Fresh'
    BY DEF RestStages, Enqueue, AssertionsHold, Fresh, Ended, ItemOnce, Running
  <1> QED
    BY <1>1, <1>2, <1>3, <1>4, <1>5, <1>6, <1>7, <1>8, <1>9

\* The shell goes with its last reference.
LEMMA FreeShellStep ==
  ASSUME ControlInductive, NEW c \in CPUs, FreeShell(c)
  PROVE ControlInductive'
  <1> USE HomeAssumption DEF ControlInductive, TypeOK, process, threads, cpus, history
  <1>0. Holders' = Holders
    BY DEF FreeShell, Holders
  <1>1. TypeOK'
    BY DEF FreeShell
  <1>2. ItemOnce' /\ ItemNeeded'
    BY DEF FreeShell, ItemOnce, ItemNeeded, Item, Queued, Running, Stages
  <1>3. References'
    BY <1>0 DEF FreeShell, References, Referring
  <1>4. Selected'
    BY DEF FreeShell, Selected
  <1>5. Posted'
    BY DEF FreeShell, Posted
  <1>6. Stages'
    BY <1>0 DEF FreeShell, Stages, ItemNeeded, Item, Running
  <1>7. NobodyForgotten'
    BY DEF FreeShell, NobodyForgotten
  <1>8. StoppedForGood'
    BY DEF FreeShell, StoppedForGood
  <1>9. AssertionsHold' /\ Fresh'
    BY DEF FreeShell, AssertionsHold, Fresh, Ended
  <1> QED
    BY <1>1, <1>2, <1>3, <1>4, <1>5, <1>6, <1>7, <1>8, <1>9

\* A process begins whole, with all its threads ready and no item.
LEMMA ControlInitial == Init => ControlInductive
  <1> SUFFICES ASSUME Init PROVE ControlInductive
    OBVIOUS
  <1> USE HomeAssumption DEF Init
  <1>1. Holders = Threads /\ Cardinality(Threads) \in Nat
    BY ThreadsAssumption, FS_CardinalityType DEF Holders
  <1>2. TypeOK
    <2>1. raced \in BOOLEAN /\ again \in BOOLEAN
      OBVIOUS
    <2>2. refs \in Int /\ cur \in [CPUs -> Threads \union {NoThread}]
      BY <1>1
    <2> QED
      BY <2>1, <2>2 DEF TypeOK
  <1>3. ItemOnce /\ ItemNeeded /\ References
    BY <1>1 DEF ItemOnce, ItemNeeded, Queued, Running, References, Referring
  <1>4. /\ Selected /\ Posted /\ Stages /\ NobodyForgotten /\ StoppedForGood
        /\ AssertionsHold /\ Fresh
    BY DEF Selected, Posted, Stages, NobodyForgotten, StoppedForGood, AssertionsHold, Fresh
  <1> QED
    BY <1>2, <1>3, <1>4 DEF ControlInductive

\* Every step keeps the invariant.
LEMMA ControlStep ==
  ControlInductive /\ [Next]_vars => ControlInductive'
  <1> SUFFICES ASSUME ControlInductive, [Next]_vars PROVE ControlInductive'
    OBVIOUS
  <1>1. CASE UNCHANGED vars
    BY <1>1 DEF vars, ControlInductive, TypeOK, ItemOnce, ItemNeeded, Item, Queued, Running,
       References, Referring, Holders, Selected, Posted, Stages, NobodyForgotten, StoppedForGood,
       AssertionsHold, Fresh, Ended
  <1>2. ASSUME NEW c \in CPUs, Control(c) PROVE ControlInductive'
    BY <1>2, SuspendStep, ContinueStep, KillStep, CloseHandleStep, SetPriorityStep DEF Control
  <1>3. ASSUME NEW c \in CPUs, User(c) PROVE ControlInductive'
    BY <1>3, EnterStep, ThreadExitStep, ProcessExitStep DEF User
  <1>4. ASSUME NEW c \in CPUs, Portion(c) PROVE ControlInductive'
    <2>1. Portions(parked, UNPARK_PORTION) \subseteq SUBSET parked
          /\ Portions(todo, THREADS_PORTION) \subseteq SUBSET todo
      BY DEF Portions
    <2> QED
      BY <1>4, <2>1, ReadStageStep, PortionEndedStep, PortionAssertsStep, PortionLeftStep, PortionDoneStep,
         GateUnseenStep, StopThreadsStep, StopPanicsStep, RestStagesStep, FreeShellStep DEF Portion
  <1>5. ASSUME NEW c \in CPUs, Own(c) PROVE ControlInductive'
    BY <1>4, <1>5, TakeStep, ParkSelectedStep, ServeStep, CleanThreadStep DEF Own
  <1>6. ASSUME NEW c \in CPUs, NEW t \in Threads, Select(c, t) PROVE ControlInductive'
    BY <1>6, SelectStep
  <1> QED
    BY <1>1, <1>2, <1>3, <1>5, <1>6 DEF Next

-----------------------------------------------------------------------------
(* The theorems.                                                           *)

\* control.rs, teardown.rs and cleanup.rs: item, references, gate, list of
\* parked threads, commands, stage and the two histories agree in every state of
\* every behaviour.
THEOREM ControlInvariance ==
  Spec => []ControlInductive
  <1>1. ControlInductive /\ [Next]_vars => ControlInductive'
    BY ControlStep
  <1> QED
    BY <1>1, ControlInitial, PTL DEF Spec

\* cleanup::Item: the one item of the process is in one queue once or in one
\* portion, and a continuation or a teardown never loses it, until a suspension
\* meets a portion of the continuation.
THEOREM ControlItem ==
  Spec => []ItemOnce
  <1>1. ControlInductive => ItemOnce
    BY DEF ControlInductive
  <1> QED
    BY <1>1, ControlInvariance, PTL

\* process::release and teardown::begin: the process is never short of a
\* reference, and its references are exactly its handle, its threads not
\* cleaned yet and its item until a suspension meets a portion.
THEOREM ControlReferences ==
  Spec => []References
  <1>1. ControlInductive => References
    BY DEF ControlInductive
  <1> QED
    BY <1>1, ControlInvariance, PTL

\* control::portion and park_selected: no parked thread is forgotten.
THEOREM ControlParked ==
  Spec => []NobodyForgotten
  <1>1. ControlInductive => NobodyForgotten
    BY DEF ControlInductive
  <1> QED
    BY <1>1, ControlInvariance, PTL

\* stop_threads: no thread of the process is at EL0 once the teardown passed
\* its threads, nor is one that was told to end.
THEOREM ControlStopped ==
  Spec => []StoppedForGood
  <1>1. ControlInductive => StoppedForGood
    BY DEF ControlInductive
  <1> QED
    BY <1>1, ControlInvariance, PTL

\* control::portion, cleanup::enqueue and cmd::ask_exit: what they assert fails
\* only after a suspension met a portion, or after a teardown that began with
\* the thread that ended the process among those to stop.
THEOREM ControlAssertions == Spec => []AssertionsHold
  <1>1. ControlInductive => AssertionsHold
    BY DEF ControlInductive
  <1> QED
    BY <1>1, ControlInvariance, PTL
=============================================================================
