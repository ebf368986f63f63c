----------------------------- MODULE FutexProofs -----------------------------
(***************************************************************************)
(* Proofs about Futex, for any threads, words and levels and any number of *)
(* calls, frames and events from outside: the types, the exclusion of the  *)
(* lock of the layer, whatever signals interrupt the waits for it, and the *)
(* answers of the waits that a waker counted.                              *)
(***************************************************************************)
EXTENDS Futex, FiniteSetTheorems, SequenceTheorems, TLAPS

-----------------------------------------------------------------------------
(* The inductive invariant.                                                *)

\* A frame that prepares or runs a handler is one of a delivery.
Proper == {f \in Frame : f.pc \in Preparing \cup {"handler"} => f.back = "handler"}

\* The stacks: the frame of the program is at the bottom and never leaves.
StackOK(s) ==
    /\ s \in [Threads -> Seq(Proper)]
    /\ \A t \in Threads : Len(s[t]) >= 1 /\ s[t][1].back = "program"

\* The words of the program are 0 or 1, that of the lock 0, 1 or 2.
WordOK ==
    /\ word \in [Words -> 0..2]
    /\ \A w \in AppWords : word[w] \in 0..1

\* Frame `i` of thread `t` holds the lock.
HeldAt(s, t, i) == i \in 1..Len(s[t]) /\ s[t][i].pc = "held"

\* One frame holds it at most, and then the word says so.
Exclusive(s, v) ==
    /\ \A t, u \in Threads, i, j \in Nat : HeldAt(s, t, i) /\ HeldAt(s, u, j) => t = u /\ i = j
    /\ \A t \in Threads, i \in Nat : HeldAt(s, t, i) => v # 0

LayerInductive == StackOK(stack) /\ WordOK /\ Exclusive(stack, word[LockWord])

\* The parts of a wait that has its node linked, or had it.
Asleep == Sleeping \cup {"cancel", "finish"}

\* What each frame keeps of a waker's count: it is clear until the node is
\* linked, a call of the lock of the layer has no deadline, and a call that is
\* over does not answer a timeout for a wait that was counted.
KeptFrame(f) ==
    /\ f.pc \in Outside \cup Preparing /\ f.got => f.out # "timedout"
    /\ f.layer => ~f.dl /\ f.out # "timedout"
    /\ f.pc \in {"count", "compare"} => ~f.got
    /\ f.pc \in Waiting \cup Waking => f.w \in Words
FramesKept(s) == \A t \in Threads : \A i \in 1..Len(s[t]) : KeptFrame(s[t][i])

\* A linked node is that of the highest frame of its thread that sleeps, and
\* no waker has counted it.
Linkage(q, w, d) ==
    /\ d \in 1..Len(q) /\ q[d].pc \in Asleep /\ q[d].w = w /\ ~q[d].got
    /\ \A i \in 1..Len(q) : d < i => q[i].pc \notin Asleep
LinksOK(s, a, o) ==
    /\ a \in [Threads -> Words \cup {NoWord}]
    /\ \A t \in Threads : a[t] # NoWord => Linkage(s[t], a[t], o[t])

KeptInductive ==
    LayerInductive /\ FramesKept(stack) /\ LinksOK(stack, addr, owner) /\ owner \in [Threads -> Nat]

-----------------------------------------------------------------------------
(* Frames.                                                                 *)

PCs == Outside \cup Preparing \cup Waiting \cup Waking \cup {"swap", "held"}

\* The parts of a call, none of which is a part of a delivery.
InCall == Waiting \cup Waking \cup {"swap", "held"}

\* The kinds of places are told apart.
LEMMA Kinds ==
  /\ Outside \subseteq PCs /\ Preparing \subseteq PCs /\ InCall \subseteq PCs
  /\ \A pc \in InCall : pc \notin Preparing \cup {"handler"}
  /\ "program" \notin Preparing \cup {"handler"} /\ "held" \notin Outside \cup Preparing \cup Waiting \cup Waking
  /\ "held" \notin {"swap"}
  BY DEF PCs, Outside, Preparing, Waiting, Waking, Sleeping, InCall

\* A frame in no call is proper.
LEMMA NoCallProper ==
  ASSUME NEW where \in Outside
  PROVE /\ NoCall(where) \in Frame /\ NoCall(where) \in Proper
        /\ NoCall(where).pc = where /\ NoCall(where).back = where
  <1>1. Cardinality(Threads) \in Nat
    BY FutexAssumption, FS_CardinalityType
  <1>2. where \in PCs
    BY Kinds
  <1>3. NoCall(where) \in Frame
    BY <1>1, <1>2 DEF NoCall, Frame, PCs
  <1>4. NoCall(where).pc = where /\ NoCall(where).back = where
    BY DEF NoCall
  <1> QED
    BY <1>3, <1>4 DEF Proper, Outside, Preparing

\* The end of a call gives a proper frame, with nothing held.
LEMMA EndedProper ==
  ASSUME NEW f \in Proper, NEW out \in {"none", "again", "woken", "entry", "timedout"}
  PROVE Ended(f, out) \in Proper /\ Ended(f, out).back = f.back /\ Ended(f, out).pc # "held"
  <1>1. f \in Frame
    BY DEF Proper
  <1>2. f.back \in Outside /\ f.got \in BOOLEAN /\ f.ended \in BOOLEAN /\ f.native \in BOOLEAN
    BY <1>1 DEF Frame
  <1>3. PICK g \in Frame : g = NoCall(f.back) /\ g.pc = f.back /\ g.back = f.back
    BY <1>2, NoCallProper
  <1>4. PICK e : e = Ended(f, out)
    OBVIOUS
  <1>5. e = [g EXCEPT !.out = out, !.got = f.got, !.ended = f.ended, !.native = f.native]
    BY <1>3, <1>4 DEF Ended
  <1>6. e \in Frame /\ e.back = f.back /\ e.pc = f.back
    BY <1>2, <1>3, <1>5 DEF Frame
  <1>7. e \in Proper /\ e.pc # "held"
    BY <1>2, <1>6 DEF Proper, Outside, Preparing
  <1> QED
    BY <1>4, <1>6, <1>7

\* So does a call that begins, with a word, a value and a deadline or not.
LEMMA CalledProper ==
  ASSUME NEW f \in Proper, NEW pc \in InCall, NEW layer \in BOOLEAN
  PROVE Called(f, pc, layer) \in Proper /\ Called(f, pc, layer).back = f.back
        /\ Called(f, pc, layer).pc = pc
  <1>1. f \in Frame
    BY DEF Proper
  <1>2. f.back \in Outside /\ f.ended \in BOOLEAN /\ f.native \in BOOLEAN
    BY <1>1 DEF Frame
  <1>3. PICK g \in Frame : g = NoCall(f.back) /\ g.back = f.back
    BY <1>2, NoCallProper
  <1>4. PICK e : e = Called(f, pc, layer)
    OBVIOUS
  <1>5. e = [g EXCEPT !.pc = pc, !.layer = layer, !.ended = f.ended, !.native = f.native]
    BY <1>3, <1>4 DEF Called
  <1>6. pc \in PCs
    BY Kinds
  <1>7. e \in Frame /\ e.back = f.back /\ e.pc = pc
    BY <1>2, <1>3, <1>5, <1>6 DEF Frame, PCs
  <1>8. e \in Proper
    BY <1>7, Kinds DEF Proper
  <1> QED
    BY <1>4, <1>7, <1>8

\* A frame that goes on to another part of its call or of its delivery.
LEMMA GoesProper ==
  ASSUME NEW f \in Proper, NEW pc \in PCs,
         pc \in Preparing \cup {"handler"} => f.back = "handler",
         NEW e, e = [f EXCEPT !.pc = pc]
  PROVE e \in Proper /\ e.back = f.back /\ e.pc = pc
  <1>1. f \in Frame
    BY DEF Proper
  <1>2. e \in Frame /\ e.back = f.back /\ e.pc = pc
    BY <1>1 DEF Frame, PCs
  <1> QED
    BY <1>2 DEF Proper

\* An answer, and a wait that has its outcome.
LEMMA AnswerProper ==
  ASSUME NEW f \in Proper, NEW out \in {"none", "again", "woken", "entry", "timedout"}
  PROVE /\ Answer(f, out) \in Proper /\ Answer(f, out).back = f.back /\ Answer(f, out).pc # "held"
        /\ Received(f, out) \in Proper /\ Received(f, out).back = f.back /\ Received(f, out).pc # "held"
  <1>1. PICK a : a = [f EXCEPT !.pc = "swap"]
    OBVIOUS
  <1>2. a \in Proper /\ a.back = f.back /\ a.pc = "swap"
    <2>1. "swap" \in PCs /\ "swap" \notin Preparing \cup {"handler"}
      BY Kinds DEF InCall
    <2> QED
      BY <1>1, <2>1, GoesProper
  <1>3. Answer(f, out) \in Proper /\ Answer(f, out).back = f.back /\ Answer(f, out).pc # "held"
    BY <1>1, <1>2, EndedProper DEF Answer
  <1>4. f \in Frame
    BY DEF Proper
  <1>5. PICK r : r = Received(f, out)
    OBVIOUS
  <1>6. PICK pc \in {"cancel", "finish"} : pc = IF f.dl THEN "cancel" ELSE "finish"
    OBVIOUS
  <1>7. r = [f EXCEPT !.pc = pc, !.out = out]
    BY <1>5, <1>6 DEF Received
  <1>8. pc \in InCall /\ pc \in PCs /\ pc # "held"
    BY Kinds DEF InCall, Waiting
  <1>9. r \in Frame /\ r.back = f.back /\ r.pc = pc
    BY <1>4, <1>7, <1>8 DEF Frame, PCs
  <1>10. r \in Proper
    BY <1>8, <1>9, Kinds DEF Proper
  <1> QED
    BY <1>3, <1>5, <1>8, <1>9, <1>10

-----------------------------------------------------------------------------
(* Stacks.                                                                 *)

\* The frame of a thread that runs.
LEMMA TopFacts ==
  ASSUME StackOK(stack), NEW t \in Threads
  PROVE /\ stack[t] \in Seq(Proper) /\ Len(stack[t]) \in Nat /\ Len(stack[t]) >= 1
        /\ Len(stack[t]) \in 1..Len(stack[t])
        /\ Top(t) = stack[t][Len(stack[t])] /\ Top(t) \in Proper
  <1>1. stack[t] \in Seq(Proper) /\ Len(stack[t]) >= 1
    BY DEF StackOK
  <1>2. Len(stack[t]) \in Nat
    BY <1>1
  <1> QED
    BY <1>1, <1>2 DEF Top

\* The stack of one thread changes to `q`; its frame `d` changes to `f`.
Restack(s, r, t, q) == r = [s EXCEPT ![t] = q]
Reframe(s, r, t, d, f) == r = [s EXCEPT ![t] = [s[t] EXCEPT ![d] = f]]

\* The stack of one thread changes to one with the program at its bottom.
LEMMA OneStack ==
  ASSUME NEW s, StackOK(s), NEW t \in Threads, NEW q \in Seq(Proper), Len(q) >= 1,
         q[1].back = "program", NEW r, Restack(s, r, t, q)
  PROVE StackOK(r) /\ r[t] = q /\ \A u \in Threads \ {t} : r[u] = s[u]
  <1>1. s \in [Threads -> Seq(Proper)]
    BY DEF StackOK
  <1>2. \A u \in Threads : r[u] = IF u = t THEN q ELSE s[u]
    BY <1>1 DEF Restack
  <1>3. r \in [Threads -> Seq(Proper)]
    BY <1>1 DEF Restack
  <1>4. ASSUME NEW u \in Threads PROVE Len(r[u]) >= 1 /\ r[u][1].back = "program"
    BY <1>2 DEF StackOK
  <1> QED
    BY <1>2, <1>3, <1>4 DEF StackOK

\* One frame of a thread changes to `f`, of the same kind.
LEMMA OneFrame ==
  ASSUME NEW s, StackOK(s), NEW t \in Threads, NEW d \in 1..Len(s[t]), NEW f \in Proper,
         f.back = s[t][d].back, NEW r, Reframe(s, r, t, d, f)
  PROVE /\ StackOK(r) /\ Len(r[t]) = Len(s[t]) /\ r[t][d] = f
        /\ \A i \in 1..Len(s[t]) : i # d => r[t][i] = s[t][i]
        /\ \A u \in Threads \ {t} : r[u] = s[u]
  <1>1. s[t] \in Seq(Proper) /\ Len(s[t]) \in Nat /\ Len(s[t]) >= 1
    <2>1. s[t] \in Seq(Proper) /\ Len(s[t]) >= 1
      BY DEF StackOK
    <2> QED
      BY <2>1
  <1>2. PICK q : q = [s[t] EXCEPT ![d] = f]
    OBVIOUS
  <1>3. /\ q \in Seq(Proper) /\ Len(q) = Len(s[t]) /\ q[d] = f
        /\ \A i \in 1..Len(s[t]) : i # d => q[i] = s[t][i]
    BY <1>1, <1>2
  <1>4. Len(q) >= 1 /\ q[1].back = "program"
    <2>1. s[t][1].back = "program"
      BY DEF StackOK
    <2>2. 1 \in 1..Len(s[t])
      BY <1>1
    <2>3. q[1].back = s[t][1].back
      BY <1>3, <2>2
    <2> QED
      BY <1>1, <1>3, <2>1, <2>3
  <1>5. Restack(s, r, t, q)
    BY <1>2 DEF Restack, Reframe
  <1>6. StackOK(r) /\ r[t] = q /\ \A u \in Threads \ {t} : r[u] = s[u]
    BY <1>3, <1>4, <1>5, OneStack
  <1> QED
    BY <1>3, <1>6

\* A frame changes and stays where it is in its call; one that is not there
\* changes nothing.
LEMMA SamePlace ==
  ASSUME NEW s, StackOK(s), NEW t, NEW d, NEW f,
         t \in Threads /\ d \in 1..Len(s[t]) =>
             f \in Proper /\ f.back = s[t][d].back /\ f.pc = s[t][d].pc,
         NEW r, Reframe(s, r, t, d, f)
  PROVE /\ StackOK(r)
        /\ \A u \in Threads, i \in Nat : HeldAt(r, u, i) <=> HeldAt(s, u, i)
  <1>1. s \in [Threads -> Seq(Proper)]
    BY DEF StackOK
  <1>2. CASE t \in Threads /\ d \in 1..Len(s[t])
    <2>1. /\ StackOK(r) /\ Len(r[t]) = Len(s[t]) /\ r[t][d] = f
          /\ \A i \in 1..Len(s[t]) : i # d => r[t][i] = s[t][i]
          /\ \A u \in Threads \ {t} : r[u] = s[u]
      BY <1>2, OneFrame
    <2>2. ASSUME NEW u \in Threads, NEW i \in Nat PROVE HeldAt(r, u, i) <=> HeldAt(s, u, i)
      <3>1. CASE u = t /\ i = d
        BY <1>2, <2>1, <3>1 DEF HeldAt
      <3>2. CASE u = t /\ i # d
        BY <1>2, <2>1, <3>2 DEF HeldAt
      <3>3. CASE u # t
        BY <2>1, <3>3 DEF HeldAt
      <3> QED
        BY <3>1, <3>2, <3>3
    <2> QED
      BY <2>1, <2>2
  <1>3. CASE t \in Threads /\ d \notin 1..Len(s[t])
    <2>1. s[t] \in Seq(Proper)
      BY <1>1, <1>3
    <2>2. [s[t] EXCEPT ![d] = f] = s[t]
      BY <1>3, <2>1
    <2>3. r = s
      BY <1>1, <1>3, <2>2 DEF Reframe
    <2> QED
      BY <2>3
  <1>4. CASE t \notin Threads
    <2>1. r = s
      BY <1>1, <1>4 DEF Reframe
    <2> QED
      BY <2>1
  <1> QED
    BY <1>2, <1>3, <1>4

\* Nothing is held anew.
LEMMA HeldLess ==
  ASSUME Exclusive(stack, word[LockWord]), word'[LockWord] # 0 \/ word[LockWord] = 0,
         \A t \in Threads, i \in Nat : HeldAt(stack', t, i) => HeldAt(stack, t, i)
  PROVE Exclusive(stack', word'[LockWord])
  BY DEF Exclusive

\* The top frame changes from one that does not hold the lock to another.
LEMMA QuietTop ==
  ASSUME StackOK(stack), Exclusive(stack, word[LockWord]), word'[LockWord] # 0 \/ word[LockWord] = 0,
         NEW t \in Threads, NEW f \in Proper, f.back = Top(t).back, f.pc # "held", SetTop(t, f)
  PROVE StackOK(stack') /\ Exclusive(stack', word'[LockWord])
  <1>1. /\ stack[t] \in Seq(Proper) /\ Len(stack[t]) \in Nat
        /\ Len(stack[t]) \in 1..Len(stack[t]) /\ Top(t) = stack[t][Len(stack[t])]
    BY TopFacts
  <1>2. PICK d \in 1..Len(stack[t]) : d = Len(stack[t])
    BY <1>1
  <1>3. Reframe(stack, stack', t, d, f) /\ f.back = stack[t][d].back
    BY <1>1, <1>2 DEF SetTop, Reframe
  <1>4. /\ StackOK(stack') /\ Len(stack'[t]) = Len(stack[t]) /\ stack'[t][d] = f
        /\ \A i \in 1..Len(stack[t]) : i # d => stack'[t][i] = stack[t][i]
        /\ \A u \in Threads \ {t} : stack'[u] = stack[u]
    BY <1>3, OneFrame
  <1>5. ASSUME NEW u \in Threads, NEW i \in Nat, HeldAt(stack', u, i) PROVE HeldAt(stack, u, i)
    <2>1. CASE u = t
      BY <1>4, <1>5, <2>1 DEF HeldAt
    <2>2. CASE u # t
      BY <1>4, <1>5, <2>2 DEF HeldAt
    <2> QED
      BY <2>1, <2>2
  <1> QED
    BY <1>4, <1>5, HeldLess

\* A free lock is taken.
LEMMA TakesTop ==
  ASSUME StackOK(stack), Exclusive(stack, word[LockWord]), word[LockWord] = 0, word'[LockWord] # 0,
         NEW t \in Threads, NEW f \in Proper, f.back = Top(t).back, SetTop(t, f)
  PROVE StackOK(stack') /\ Exclusive(stack', word'[LockWord])
  <1>1. /\ stack[t] \in Seq(Proper) /\ Len(stack[t]) \in Nat
        /\ Len(stack[t]) \in 1..Len(stack[t]) /\ Top(t) = stack[t][Len(stack[t])]
    BY TopFacts
  <1>2. PICK d \in 1..Len(stack[t]) : d = Len(stack[t])
    BY <1>1
  <1>3. Reframe(stack, stack', t, d, f) /\ f.back = stack[t][d].back
    BY <1>1, <1>2 DEF SetTop, Reframe
  <1>4. /\ StackOK(stack') /\ Len(stack'[t]) = Len(stack[t]) /\ stack'[t][d] = f
        /\ \A i \in 1..Len(stack[t]) : i # d => stack'[t][i] = stack[t][i]
        /\ \A u \in Threads \ {t} : stack'[u] = stack[u]
    BY <1>3, OneFrame
  <1>5. ASSUME NEW u \in Threads, NEW i \in Nat, HeldAt(stack', u, i) PROVE u = t /\ i = d
    <2>0. ~HeldAt(stack, u, i)
      BY DEF Exclusive
    <2>1. CASE u = t
      BY <1>4, <1>5, <2>0, <2>1 DEF HeldAt
    <2>2. CASE u # t
      BY <1>4, <1>5, <2>0, <2>2 DEF HeldAt
    <2> QED
      BY <2>1, <2>2
  <1>6. Exclusive(stack', word'[LockWord])
    BY <1>5 DEF Exclusive
  <1> QED
    BY <1>4, <1>6

\* The holder lets it go.
LEMMA FreesTop ==
  ASSUME StackOK(stack), Exclusive(stack, word[LockWord]),
         NEW t \in Threads, Top(t).pc = "held",
         NEW f \in Proper, f.back = Top(t).back, f.pc # "held", SetTop(t, f)
  PROVE StackOK(stack') /\ Exclusive(stack', word'[LockWord])
  <1>1. /\ stack[t] \in Seq(Proper) /\ Len(stack[t]) \in Nat
        /\ Len(stack[t]) \in 1..Len(stack[t]) /\ Top(t) = stack[t][Len(stack[t])]
    BY TopFacts
  <1>2. PICK d \in 1..Len(stack[t]) : d = Len(stack[t])
    BY <1>1
  <1>3. Reframe(stack, stack', t, d, f) /\ f.back = stack[t][d].back
    BY <1>1, <1>2 DEF SetTop, Reframe
  <1>4. /\ StackOK(stack') /\ Len(stack'[t]) = Len(stack[t]) /\ stack'[t][d] = f
        /\ \A i \in 1..Len(stack[t]) : i # d => stack'[t][i] = stack[t][i]
        /\ \A u \in Threads \ {t} : stack'[u] = stack[u]
    BY <1>3, OneFrame
  <1>5. HeldAt(stack, t, d) /\ d \in Nat
    BY <1>1, <1>2 DEF HeldAt
  <1>6. ASSUME NEW u \in Threads, NEW i \in Nat, HeldAt(stack', u, i) PROVE FALSE
    <2>1. CASE u = t
      <3>1. i # d /\ i \in 1..Len(stack[t]) /\ stack[t][i].pc = "held"
        BY <1>4, <1>6, <2>1 DEF HeldAt
      <3>2. HeldAt(stack, t, i)
        BY <3>1 DEF HeldAt
      <3> QED
        BY <1>5, <3>1, <3>2 DEF Exclusive
    <2>2. CASE u # t
      <3>1. HeldAt(stack, u, i)
        BY <1>4, <1>6, <2>2 DEF HeldAt
      <3> QED
        BY <1>5, <2>2, <3>1 DEF Exclusive
    <2> QED
      BY <2>1, <2>2
  <1> QED
    BY <1>4, <1>6 DEF Exclusive

\* The stack of one thread changes and holds nothing more.
LEMMA QuietStack ==
  ASSUME LayerInductive, word' = word, NEW t \in Threads, NEW q \in Seq(Proper), Len(q) >= 1,
         q[1].back = "program",
         \A i \in 1..Len(q) : q[i].pc = "held" => HeldAt(stack, t, i),
         Restack(stack, stack', t, q)
  PROVE LayerInductive'
  <1>1. StackOK(stack) /\ WordOK /\ Exclusive(stack, word[LockWord])
    BY DEF LayerInductive
  <1>2. StackOK(stack') /\ stack'[t] = q /\ \A u \in Threads \ {t} : stack'[u] = stack[u]
    BY <1>1, OneStack
  <1>3. ASSUME NEW u \in Threads, NEW i \in Nat, HeldAt(stack', u, i) PROVE HeldAt(stack, u, i)
    <2>1. CASE u = t
      BY <1>2, <1>3, <2>1 DEF HeldAt
    <2>2. CASE u # t
      BY <1>2, <1>3, <2>2 DEF HeldAt
    <2> QED
      BY <2>1, <2>2
  <1>4. Exclusive(stack', word'[LockWord])
    BY <1>1, <1>3, HeldLess
  <1> QED
    BY <1>1, <1>2, <1>4 DEF LayerInductive, WordOK

\* The stacks stay as they are, and the word.
LEMMA QuietAll ==
  ASSUME LayerInductive, word' = word, stack' = stack
  PROVE LayerInductive'
  BY DEF LayerInductive, WordOK

\* The top frame changes and holds nothing, and the words stay.
LEMMA QuietFrame ==
  ASSUME LayerInductive, word' = word, NEW t \in Threads, NEW f \in Proper,
         f.back = Top(t).back, f.pc # "held", SetTop(t, f)
  PROVE LayerInductive'
  <1>1. StackOK(stack) /\ WordOK /\ Exclusive(stack, word[LockWord])
    BY DEF LayerInductive
  <1>2. StackOK(stack') /\ Exclusive(stack', word'[LockWord])
    BY <1>1, QuietTop
  <1> QED
    BY <1>1, <1>2 DEF LayerInductive, WordOK

\* A thread goes on in its call or its delivery.
LEMMA QuietGoto ==
  ASSUME LayerInductive, word' = word, NEW t \in Threads, NEW pc \in PCs \ {"held"},
         pc \in Preparing \cup {"handler"} => Top(t).pc \in Preparing \cup {"handler"},
         Goto(t, pc)
  PROVE LayerInductive'
  <1>1. Top(t) \in Proper
    BY TopFacts DEF LayerInductive
  <1>2. PICK f : f = [Top(t) EXCEPT !.pc = pc]
    OBVIOUS
  <1>3. f \in Proper /\ f.back = Top(t).back /\ f.pc = pc
    <2>1. pc \in Preparing \cup {"handler"} => Top(t).back = "handler"
      BY <1>1 DEF Proper
    <2> QED
      BY <1>1, <1>2, <2>1, GoesProper
  <1>4. SetTop(t, f)
    BY <1>2 DEF Goto
  <1> QED
    BY <1>3, <1>4, QuietFrame

\* The frame `g` with a word and a value and a deadline, or how many to wake.
Given(g, e, w, val, dl, left) ==
    \/ e = [g EXCEPT !.w = w, !.val = val, !.dl = dl]
    \/ e = [g EXCEPT !.w = w, !.val = val]
    \/ e = [g EXCEPT !.w = w, !.left = left]

\* It is proper too.
LEMMA WordProper ==
  ASSUME NEW g \in Proper, NEW w \in Words, NEW val \in 0..2, NEW dl \in BOOLEAN,
         NEW left \in 0..Cardinality(Threads), NEW e, Given(g, e, w, val, dl, left)
  PROVE e \in Proper /\ e.back = g.back /\ e.pc = g.pc
  <1>1. g \in Frame
    BY DEF Proper
  <1>2. e \in Frame /\ e.back = g.back /\ e.pc = g.pc
    <2>1. CASE e = [g EXCEPT !.w = w, !.val = val, !.dl = dl]
      BY <1>1, <2>1 DEF Frame
    <2>2. CASE e = [g EXCEPT !.w = w, !.val = val]
      BY <1>1, <2>2 DEF Frame
    <2>3. CASE e = [g EXCEPT !.w = w, !.left = left]
      BY <1>1, <2>3 DEF Frame
    <2> QED
      BY <2>1, <2>2, <2>3 DEF Given
  <1> QED
    BY <1>2 DEF Proper

-----------------------------------------------------------------------------
(* The steps.                                                              *)

\* A wait or a wake begins.
LEMMA CallStep ==
  ASSUME LayerInductive, NEW t \in Threads, NEW w \in AppWords, NEW dl \in BOOLEAN,
         CallWait(t, w, dl) \/ CallWake(t, w)
  PROVE LayerInductive'
  <1>1. StackOK(stack) /\ WordOK /\ Exclusive(stack, word[LockWord]) /\ Top(t) \in Proper
    BY TopFacts DEF LayerInductive
  <1>2. w \in Words /\ word[w] \in 0..1 /\ w # LockWord /\ LockWord \in Words
    BY <1>1, FutexAssumption DEF WordOK, Words
  <1>3. Cardinality(Threads) \in Nat
    BY FutexAssumption, FS_CardinalityType
  <1>4. CASE CallWait(t, w, dl)
    <2>1. PICK g : g = Called(Top(t), "count", FALSE)
      OBVIOUS
    <2>2. g \in Proper /\ g.back = Top(t).back /\ g.pc = "count"
      BY <1>1, <2>1, CalledProper DEF InCall, Waiting
    <2>3. PICK val \in 0..2 : val = word[w]
      BY <1>2
    <2>4. PICK f : f = [g EXCEPT !.w = w, !.val = val, !.dl = dl]
      OBVIOUS
    <2>5. f \in Proper /\ f.back = Top(t).back /\ f.pc # "held"
      <3>1. 0 \in 0..Cardinality(Threads)
        BY <1>3
      <3>2. Given(g, f, w, val, dl, 0)
        BY <2>4 DEF Given
      <3>3. f \in Proper /\ f.back = g.back /\ f.pc = g.pc
        BY <1>2, <2>2, <3>1, <3>2, WordProper
      <3> QED
        BY <2>2, <3>3
    <2>6. SetTop(t, f) /\ word' = word
      BY <1>4, <2>1, <2>3, <2>4 DEF CallWait
    <2> QED
      BY <2>5, <2>6, QuietFrame
  <1>5. CASE CallWake(t, w)
    <2>1. PICK g : g = Called(Top(t), "wakeRead", FALSE)
      OBVIOUS
    <2>2. g \in Proper /\ g.back = Top(t).back /\ g.pc = "wakeRead"
      BY <1>1, <2>1, CalledProper DEF InCall, Waking
    <2>3. PICK left \in 0..Cardinality(Threads) : left = Cardinality(Threads)
      BY <1>3
    <2>4. PICK f : f = [g EXCEPT !.w = w, !.left = left]
      OBVIOUS
    <2>5. f \in Proper /\ f.back = Top(t).back /\ f.pc # "held"
      <3>1. Given(g, f, w, 0, dl, left) /\ 0 \in 0..2
        BY <2>4 DEF Given
      <3>2. f \in Proper /\ f.back = g.back /\ f.pc = g.pc
        BY <1>2, <2>2, <3>1, WordProper
      <3> QED
        BY <2>2, <3>2
    <2>6. SetTop(t, f) /\ word' = [word EXCEPT ![w] = 1 - @]
      BY <1>5, <2>1, <2>3, <2>4 DEF CallWake
    <2>7. WordOK' /\ word'[LockWord] = word[LockWord]
      <3>1. word \in [Words -> 0..2] /\ \A v \in AppWords : word[v] \in 0..1
        BY <1>1 DEF WordOK
      <3>2. 1 - word[w] \in 0..1
        BY <1>2
      <3>3. \A v \in Words : word'[v] = IF v = w THEN 1 - word[w] ELSE word[v]
        BY <2>6, <3>1
      <3>4. word' \in [Words -> 0..2]
        <4>1. PICK x \in 0..2 : x = 1 - word[w]
          BY <3>2
        <4>2. word' = [word EXCEPT ![w] = x]
          BY <2>6, <4>1
        <4> QED
          BY <3>1, <4>2
      <3>5. \A v \in AppWords : word'[v] \in 0..1
        BY <3>1, <3>2, <3>3 DEF Words
      <3> QED
        BY <1>2, <3>3, <3>4, <3>5 DEF WordOK
    <2>8. StackOK(stack') /\ Exclusive(stack', word'[LockWord])
      BY <1>1, <2>5, <2>6, <2>7, QuietTop
    <2> QED
      BY <2>7, <2>8 DEF LayerInductive
  <1> QED
    BY <1>4, <1>5

\* The word of the lock changes.
LEMMA LockWordOK ==
  ASSUME WordOK, NEW v \in 0..2, word' = [word EXCEPT ![LockWord] = v]
  PROVE WordOK' /\ word'[LockWord] = v
  <1>1. word \in [Words -> 0..2] /\ LockWord \in Words /\ LockWord \notin AppWords
    BY FutexAssumption DEF WordOK, Words
  <1>2. word' \in [Words -> 0..2] /\ word'[LockWord] = v
    BY <1>1
  <1>3. \A w \in AppWords : word'[w] = word[w]
    BY <1>1 DEF Words
  <1> QED
    BY <1>2, <1>3 DEF WordOK

\* LayerLock::lock and try_lock, at once.
LEMMA CallLockStep ==
  ASSUME LayerInductive, NEW t \in Threads, CallLock(t)
  PROVE LayerInductive'
  <1>1. StackOK(stack) /\ WordOK /\ Exclusive(stack, word[LockWord]) /\ Top(t) \in Proper
    BY TopFacts DEF LayerInductive
  <1>2. word[LockWord] \in 0..2
    BY <1>1 DEF WordOK, Words
  <1>3. CASE word[LockWord] = 0
    <2>1. PICK f : f = Called(Top(t), "held", TRUE)
      OBVIOUS
    <2>2. f \in Proper /\ f.back = Top(t).back
      BY <1>1, <2>1, CalledProper DEF InCall
    <2>3. SetTop(t, f) /\ word' = [word EXCEPT ![LockWord] = 1]
      BY <1>3, <2>1 DEF CallLock
    <2>4. WordOK' /\ word'[LockWord] = 1
      BY <1>1, <2>3, LockWordOK
    <2>5. StackOK(stack') /\ Exclusive(stack', word'[LockWord])
      BY <1>1, <1>3, <2>2, <2>3, <2>4, TakesTop
    <2> QED
      BY <2>4, <2>5 DEF LayerInductive
  <1>4. CASE word[LockWord] # 0
    <2>1. PICK f : f = Called(Top(t), "swap", TRUE)
      OBVIOUS
    <2>2. f \in Proper /\ f.back = Top(t).back /\ f.pc = "swap"
      BY <1>1, <2>1, CalledProper DEF InCall
    <2>3. SetTop(t, f)
      BY <1>4, <2>1 DEF CallLock
    <2>4. PICK v \in 0..2 : v = word[LockWord]
      BY <1>2
    <2>5. word' = [word EXCEPT ![LockWord] = v]
      BY <1>4, <2>4 DEF CallLock
    <2>6. WordOK' /\ word'[LockWord] = word[LockWord]
      BY <1>1, <2>4, <2>5, LockWordOK
    <2>7. StackOK(stack') /\ Exclusive(stack', word'[LockWord])
      BY <1>1, <2>2, <2>3, <2>6, QuietTop
    <2> QED
      BY <2>6, <2>7 DEF LayerInductive
  <1> QED
    BY <1>3, <1>4

\* The loop of LayerLock::lock.
LEMMA SwapStep ==
  ASSUME LayerInductive, NEW t \in Threads, Swap(t)
  PROVE LayerInductive'
  <1>1. StackOK(stack) /\ WordOK /\ Exclusive(stack, word[LockWord]) /\ Top(t) \in Proper
    BY TopFacts DEF LayerInductive
  <1>2. word' = [word EXCEPT ![LockWord] = 2]
    BY DEF Swap
  <1>3. WordOK' /\ word'[LockWord] = 2
    BY <1>1, <1>2, LockWordOK
  <1>4. CASE word[LockWord] = 0
    <2>1. PICK f : f = Called(Top(t), "held", TRUE)
      OBVIOUS
    <2>2. f \in Proper /\ f.back = Top(t).back
      BY <1>1, <2>1, CalledProper DEF InCall
    <2>3. SetTop(t, f)
      BY <1>4, <2>1 DEF Swap
    <2>4. StackOK(stack') /\ Exclusive(stack', word'[LockWord])
      BY <1>1, <1>3, <1>4, <2>2, <2>3, TakesTop
    <2> QED
      BY <1>3, <2>4 DEF LayerInductive
  <1>5. CASE word[LockWord] # 0
    <2>1. PICK g : g = Called(Top(t), "count", TRUE)
      OBVIOUS
    <2>2. g \in Proper /\ g.back = Top(t).back /\ g.pc = "count"
      BY <1>1, <2>1, CalledProper DEF InCall, Waiting
    <2>3. PICK f : f = [g EXCEPT !.w = LockWord, !.val = 2]
      OBVIOUS
    <2>4. f \in Proper /\ f.back = Top(t).back /\ f.pc # "held"
      <3>1. 2 \in 0..2 /\ LockWord \in Words
        BY DEF Words
      <3>2. 0 \in 0..Cardinality(Threads)
        BY FutexAssumption, FS_CardinalityType
      <3>0. PICK dl \in BOOLEAN : TRUE
        OBVIOUS
      <3>3. Given(g, f, LockWord, 2, dl, 0)
        BY <2>3 DEF Given
      <3>4. f \in Proper /\ f.back = g.back /\ f.pc = g.pc
        BY <2>2, <3>1, <3>2, <3>3, WordProper
      <3> QED
        BY <2>2, <3>4
    <2>5. SetTop(t, f)
      BY <1>5, <2>1, <2>3 DEF Swap
    <2>6. StackOK(stack') /\ Exclusive(stack', word'[LockWord])
      BY <1>1, <1>3, <2>4, <2>5, QuietTop
    <2> QED
      BY <1>3, <2>6 DEF LayerInductive
  <1> QED
    BY <1>4, <1>5

\* LayerGuard::drop.
LEMMA UnlockStep ==
  ASSUME LayerInductive, NEW t \in Threads, Unlock(t)
  PROVE LayerInductive'
  <1>1. StackOK(stack) /\ WordOK /\ Exclusive(stack, word[LockWord]) /\ Top(t) \in Proper
    BY TopFacts DEF LayerInductive
  <1>2. word' = [word EXCEPT ![LockWord] = 0] /\ Top(t).pc = "held"
    BY DEF Unlock, At
  <1>3. WordOK'
    BY <1>1, <1>2, LockWordOK
  <1>4. PICK f \in Proper : f.back = Top(t).back /\ f.pc # "held" /\ SetTop(t, f)
    <2>1. CASE word[LockWord] = 2
      <3>1. PICK g : g = Called(Top(t), "wakeRead", TRUE)
        OBVIOUS
      <3>2. g \in Proper /\ g.back = Top(t).back /\ g.pc = "wakeRead"
        BY <1>1, <3>1, CalledProper DEF InCall, Waking
      <3>3. PICK f : f = [g EXCEPT !.w = LockWord, !.left = 1]
        OBVIOUS
      <3>4. 1 \in 0..Cardinality(Threads)
        <4>1. Cardinality(Threads) \in Nat /\ Cardinality(Threads) # 0
          BY FutexAssumption, FS_CardinalityType, FS_EmptySet
        <4> QED
          BY <4>1
      <3>5. 0 \in 0..2 /\ LockWord \in Words
        BY DEF Words
      <3>6. f \in Proper /\ f.back = g.back /\ f.pc = g.pc
        <4>0. PICK dl \in BOOLEAN : TRUE
          OBVIOUS
        <4>1. Given(g, f, LockWord, 0, dl, 1)
          BY <3>3 DEF Given
        <4> QED
          BY <3>2, <3>4, <3>5, <4>1, WordProper
      <3>7. SetTop(t, f)
        BY <2>1, <3>1, <3>3 DEF Unlock
      <3> QED
        BY <3>2, <3>6, <3>7
    <2>2. CASE word[LockWord] # 2
      <3>1. SetTop(t, Ended(Top(t), "none"))
        BY <2>2 DEF Unlock
      <3> QED
        BY <1>1, <3>1, EndedProper
    <2> QED
      BY <2>1, <2>2
  <1>5. StackOK(stack') /\ Exclusive(stack', word'[LockWord])
    BY <1>1, <1>2, <1>4, FreesTop
  <1> QED
    BY <1>3, <1>5 DEF LayerInductive

\* The other parts of futex_wait.
LEMMA WaitStep ==
  ASSUME LayerInductive, NEW t \in Threads,
         Count(t) \/ Compare(t) \/ Arm(t) \/ ReceiveBits(t) \/ ReceiveTimer(t)
         \/ CancelTimer(t) \/ Finish(t)
  PROVE LayerInductive'
  <1>1. Top(t) \in Proper
    BY TopFacts DEF LayerInductive
  <1>2. word' = word
    BY DEF Count, Compare, Arm, ReceiveBits, ReceiveTimer, CancelTimer, Finish
  <1>3. ASSUME NEW pc \in {"compare", "arm", "receive", "finish"}, Goto(t, pc) PROVE LayerInductive'
    <2>1. pc \in PCs \ {"held"} /\ pc \notin Preparing \cup {"handler"}
      BY Kinds DEF InCall, Waiting, Sleeping
    <2> QED
      BY <1>2, <1>3, <2>1, QuietGoto
  <1>4. ASSUME NEW out \in {"none", "again", "woken", "entry", "timedout"},
               SetTop(t, Answer(Top(t), out)) \/ SetTop(t, Received(Top(t), out))
        PROVE LayerInductive'
    BY <1>1, <1>2, <1>4, AnswerProper, QuietFrame
  <1>5. CASE Count(t)
    BY <1>3, <1>5 DEF Count
  <1>6. CASE Compare(t)
    <2>1. \/ SetTop(t, Answer(Top(t), "again"))
          \/ \E pc \in {"arm", "receive"} : Goto(t, pc)
      BY <1>6 DEF Compare
    <2> QED
      BY <1>3, <1>4, <2>1
  <1>7. CASE Arm(t)
    BY <1>3, <1>7 DEF Arm
  <1>8. CASE ReceiveBits(t)
    <2>1. \E out \in {"entry", "woken"} : SetTop(t, Received(Top(t), out))
      BY <1>8 DEF ReceiveBits
    <2> QED
      BY <1>4, <2>1
  <1>9. CASE ReceiveTimer(t)
    <2>1. SetTop(t, Received(Top(t), "timedout")) \/ stack' = stack
      BY <1>9 DEF ReceiveTimer
    <2> QED
      BY <1>2, <1>4, <2>1, QuietAll
  <1>10. CASE CancelTimer(t)
    BY <1>3, <1>10 DEF CancelTimer
  <1>11. CASE Finish(t)
    <2>1. Top(t).out \in {"none", "again", "woken", "entry", "timedout"}
      BY <1>1 DEF Proper, Frame
    <2>2. \E out \in {"none", "again", "woken", "entry", "timedout"} : SetTop(t, Answer(Top(t), out))
      BY <1>11, <2>1 DEF Finish
    <2> QED
      BY <1>4, <2>2
  <1> QED
    BY <1>5, <1>6, <1>7, <1>8, <1>9, <1>10, <1>11

\* A deadline passes.
LEMMA PassStep ==
  ASSUME LayerInductive, NEW t \in Threads, NEW d \in 1..MaxDepth, Pass(t, d)
  PROVE LayerInductive'
  <1>1. StackOK(stack) /\ WordOK /\ Exclusive(stack, word[LockWord]) /\ stack[t] \in Seq(Proper)
    BY TopFacts DEF LayerInductive
  <1>2. d \in 1..Len(stack[t]) /\ word' = word
    BY DEF Pass
  <1>3. PICK f : f = [stack[t][d] EXCEPT !.due = TRUE]
    OBVIOUS
  <1>4. Reframe(stack, stack', t, d, f)
    BY <1>3 DEF Pass, Reframe
  <1>5. f \in Proper /\ f.back = stack[t][d].back /\ f.pc = stack[t][d].pc
    <2>1. stack[t][d] \in Proper
      BY <1>1, <1>2
    <2> QED
      BY <1>3, <2>1 DEF Proper, Frame
  <1>6. StackOK(stack') /\ \A u \in Threads, i \in Nat : HeldAt(stack', u, i) <=> HeldAt(stack, u, i)
    BY <1>1, <1>4, <1>5, SamePlace
  <1>7. Exclusive(stack', word'[LockWord])
    BY <1>1, <1>2, <1>6, HeldLess
  <1> QED
    BY <1>1, <1>2, <1>6, <1>7 DEF LayerInductive, WordOK

\* futex_wake but for the node it unlinks.
LEMMA WakeStep ==
  ASSUME LayerInductive, NEW t \in Threads, WakeRead(t) \/ WakeLock(t) \/ WakeUnlock(t)
  PROVE LayerInductive'
  <1>1. Top(t) \in Proper
    BY TopFacts DEF LayerInductive
  <1>2. word' = word
    BY DEF WakeRead, WakeLock, WakeUnlock
  <1>3. ASSUME NEW pc \in {"wakeLock", "waking"}, Goto(t, pc) PROVE LayerInductive'
    <2>1. pc \in PCs \ {"held"} /\ pc \notin Preparing \cup {"handler"}
      BY Kinds DEF InCall, Waking
    <2> QED
      BY <1>2, <1>3, <2>1, QuietGoto
  <1>4. ASSUME SetTop(t, Ended(Top(t), "none")) PROVE LayerInductive'
    BY <1>1, <1>2, <1>4, EndedProper, QuietFrame
  <1>5. SetTop(t, Ended(Top(t), "none")) \/ \E pc \in {"wakeLock", "waking"} : Goto(t, pc)
    BY DEF WakeRead, WakeLock, WakeUnlock, Goto
  <1> QED
    BY <1>3, <1>4, <1>5

\* The waker counts one thread less to wake.
LEMMA LeftProper ==
  ASSUME NEW g \in Proper, g.left > 0, NEW f, f = [g EXCEPT !.left = @ - 1]
  PROVE f \in Proper /\ f.back = g.back /\ f.pc = g.pc
  <1>1. g \in Frame
    BY DEF Proper
  <1>2. PICK l \in 0..Cardinality(Threads) : l = g.left - 1
    <2>1. g.left \in 0..Cardinality(Threads)
      BY <1>1 DEF Frame
    <2>2. Cardinality(Threads) \in Nat
      BY FutexAssumption, FS_CardinalityType
    <2> QED
      BY <2>1, <2>2
  <1>3. f = [g EXCEPT !.left = l]
    BY <1>2
  <1>4. f \in Frame /\ f.back = g.back /\ f.pc = g.pc
    BY <1>1, <1>3 DEF Frame
  <1> QED
    BY <1>4 DEF Proper

\* A waker unlinks a node.  Whatever frame the node names, none moves.
LEMMA WakeOneStep ==
  ASSUME LayerInductive, NEW t \in Threads, WakeOne(t)
  PROVE LayerInductive'
  <1>1. /\ StackOK(stack) /\ WordOK /\ Exclusive(stack, word[LockWord])
        /\ Len(stack[t]) \in 1..Len(stack[t]) /\ Top(t) \in Proper /\ Top(t) = stack[t][Len(stack[t])]
    BY TopFacts DEF LayerInductive
  <1>2. PICK u : /\ stack' = [stack EXCEPT ![t][Len(stack[t])].left = @ - 1, ![u][owner[u]].got = TRUE]
                 /\ word' = word
    BY DEF WakeOne
  <1>3. PICK n : n = Len(stack[t])
    OBVIOUS
  <1>4. PICK f : f = [stack[t][n] EXCEPT !.left = @ - 1]
    OBVIOUS
  <1>5. PICK mid : Reframe(stack, mid, t, n, f)
    BY DEF Reframe
  <1>6. PICK g : g = [mid[u][owner[u]] EXCEPT !.got = TRUE]
    OBVIOUS
  <1>7. Reframe(mid, stack', u, owner[u], g) /\ word' = word
    BY <1>2, <1>3, <1>4, <1>5, <1>6 DEF WakeOne, Reframe
  <1>8. f \in Proper /\ f.back = stack[t][n].back /\ f.pc = stack[t][n].pc
    <2>1. Top(t).left > 0 /\ Top(t) = stack[t][n]
      BY <1>1, <1>3 DEF WakeOne
    <2> QED
      BY <1>1, <1>4, <2>1, LeftProper
  <1>9. StackOK(mid) /\ \A v \in Threads, i \in Nat : HeldAt(mid, v, i) <=> HeldAt(stack, v, i)
    BY <1>1, <1>5, <1>8, SamePlace
  <1>10. ASSUME u \in Threads, owner[u] \in 1..Len(mid[u])
         PROVE g \in Proper /\ g.back = mid[u][owner[u]].back /\ g.pc = mid[u][owner[u]].pc
    <2>1. mid[u] \in Seq(Proper)
      BY <1>9, <1>10 DEF StackOK
    <2>2. mid[u][owner[u]] \in Proper
      BY <1>10, <2>1
    <2> QED
      BY <1>6, <2>2 DEF Proper, Frame
  <1>11. StackOK(stack') /\ \A v \in Threads, i \in Nat : HeldAt(stack', v, i) <=> HeldAt(mid, v, i)
    BY <1>7, <1>9, <1>10, SamePlace
  <1>12. Exclusive(stack', word'[LockWord])
    BY <1>1, <1>7, <1>9, <1>11, HeldLess
  <1> QED
    BY <1>1, <1>7, <1>11, <1>12 DEF LayerInductive, WordOK

\* A delivery begins with a proper frame that holds nothing.
LEMMA DeliveryProper ==
  ASSUME NEW t \in Threads, NEW own \in BOOLEAN
  PROVE Delivery(t, own) \in Proper /\ Delivery(t, own).pc # "held"
  <1>1. PICK g \in Proper : g = NoCall("handler") /\ g.back = "handler"
    BY NoCallProper DEF Outside
  <1>2. PICK pc \in {"park", "check"} : pc = IF stop[t] THEN "park" ELSE "check"
    OBVIOUS
  <1>3. PICK f : f = [g EXCEPT !.pc = pc]
    OBVIOUS
  <1>4. pc \in PCs /\ pc # "held"
    BY Kinds DEF Preparing
  <1>5. f \in Proper /\ f.pc = pc
    BY <1>1, <1>3, <1>4, GoesProper
  <1>6. PICK e : e = [f EXCEPT !.native = own]
    OBVIOUS
  <1>7. e \in Proper /\ e.pc = pc
    BY <1>5, <1>6 DEF Proper, Frame
  <1>8. Delivery(t, own) = e
    BY <1>1, <1>2, <1>3, <1>6 DEF Delivery
  <1> QED
    BY <1>4, <1>7, <1>8

\* A stack as it is, or with a delivery above it.
LEMMA Pushed ==
  ASSUME LayerInductive, word' = word, NEW t \in Threads, NEW here \in Seq(Proper), Len(here) >= 1,
         here[1].back = "program",
         \A i \in 1..Len(here) : here[i].pc = "held" => HeldAt(stack, t, i),
         NEW own \in BOOLEAN,
         Restack(stack, stack', t, here) \/ Restack(stack, stack', t, Append(here, Delivery(t, own)))
  PROVE LayerInductive'
  <1>1. CASE Restack(stack, stack', t, here)
    BY <1>1, QuietStack
  <1>2. CASE Restack(stack, stack', t, Append(here, Delivery(t, own)))
    <2>1. PICK f \in Proper : f = Delivery(t, own) /\ f.pc # "held"
      BY DeliveryProper
    <2>2. PICK q : q = Append(here, f)
      OBVIOUS
    <2>3. /\ q \in Seq(Proper) /\ Len(q) = Len(here) + 1 /\ q[Len(here) + 1] = f
          /\ \A i \in 1..Len(here) : q[i] = here[i]
      BY <2>2
    <2>4. Len(q) >= 1 /\ q[1].back = "program"
      <3>1. 1 \in 1..Len(here) /\ Len(here) \in Nat
        OBVIOUS
      <3> QED
        BY <2>3, <3>1
    <2>5. ASSUME NEW i \in 1..Len(q), q[i].pc = "held" PROVE HeldAt(stack, t, i)
      <3>1. i \in 1..Len(here)
        BY <2>1, <2>3, <2>5
      <3> QED
        BY <2>3, <2>5, <3>1
    <2>6. Restack(stack, stack', t, q)
      BY <1>2, <2>1, <2>2
    <2> QED
      BY <2>3, <2>4, <2>5, <2>6, QuietStack
  <1> QED
    BY <1>1, <1>2

\* The kernel enters the thread.
LEMMA EnterStep ==
  ASSUME LayerInductive, NEW t \in Threads, NEW inside \in BOOLEAN, Enter(t, inside)
  PROVE LayerInductive'
  <1>1. /\ StackOK(stack) /\ Len(stack[t]) \in 1..Len(stack[t]) /\ Top(t) \in Proper
        /\ Top(t) = stack[t][Len(stack[t])] /\ stack[t] \in Seq(Proper)
    BY TopFacts DEF LayerInductive
  <1>2. PICK d \in 1..Len(stack[t]) : d = Len(stack[t])
    BY <1>1
  <1>3. PICK f : f = IF Top(t).pc = "receive" /\ inside THEN Received(Top(t), "entry") ELSE Top(t)
    OBVIOUS
  <1>4. f \in Proper /\ f.back = stack[t][d].back /\ (f.pc = "held" => stack[t][d].pc = "held")
    BY <1>1, <1>2, <1>3, AnswerProper
  <1>5. PICK here : here = Interrupted(t, inside)
    OBVIOUS
  <1>6. here = [stack[t] EXCEPT ![d] = f]
    BY <1>2, <1>3, <1>5 DEF Interrupted
  <1>7. /\ here \in Seq(Proper) /\ Len(here) = Len(stack[t]) /\ here[d] = f
        /\ \A i \in 1..Len(stack[t]) : i # d => here[i] = stack[t][i]
    BY <1>1, <1>4, <1>6
  <1>8. Len(here) >= 1 /\ here[1].back = "program"
    <2>1. stack[t][1].back = "program" /\ Len(stack[t]) >= 1
      BY <1>1 DEF StackOK
    <2>2. 1 \in 1..Len(stack[t])
      BY <1>1, <2>1
    <2>3. here[1].back = stack[t][1].back
      BY <1>4, <1>7, <2>2
    <2> QED
      BY <1>7, <2>1, <2>3
  <1>9. ASSUME NEW i \in 1..Len(here), here[i].pc = "held" PROVE HeldAt(stack, t, i)
    <2>1. CASE i = d
      BY <1>4, <1>7, <1>9, <2>1 DEF HeldAt
    <2>2. CASE i # d
      BY <1>7, <1>9, <2>2 DEF HeldAt
    <2> QED
      BY <2>1, <2>2
  <1>10. /\ word' = word
         /\ Restack(stack, stack', t, here) \/ Restack(stack, stack', t, Append(here, Delivery(t, TRUE)))
    BY <1>5 DEF Enter, Restack
  <1> QED
    BY <1>7, <1>8, <1>9, <1>10, Pushed

\* The end of the outermost section delivers.
LEMMA DeferredStep ==
  ASSUME LayerInductive, NEW t \in Threads, DeliverDeferred(t)
  PROVE LayerInductive'
  <1>1. stack[t] \in Seq(Proper) /\ Len(stack[t]) >= 1 /\ stack[t][1].back = "program"
    BY DEF LayerInductive, StackOK
  <1>2. \A i \in 1..Len(stack[t]) : stack[t][i].pc = "held" => HeldAt(stack, t, i)
    BY DEF HeldAt
  <1>3. word' = word /\ Restack(stack, stack', t, Append(stack[t], Delivery(t, FALSE)))
    BY DEF DeliverDeferred, Restack
  <1> QED
    BY <1>1, <1>2, <1>3, Pushed

\* The steps of a delivery up to its handlers, and their return.
LEMMA DeliveryStep ==
  ASSUME LayerInductive, NEW t \in Threads, park(t) \/ Check(t) \/ Take(t) \/ Return(t)
  PROVE LayerInductive'
  <1>1. Top(t) \in Proper /\ Top(t) \in Frame
    BY TopFacts DEF LayerInductive, Proper
  <1>2. word' = word /\ Top(t).pc \in Preparing \cup {"handler"}
    BY DEF park, Check, Take, Return, At, Preparing
  <1>3. Top(t).back = "handler"
    BY <1>1, <1>2 DEF Proper
  <1>4. CASE park(t) \/ Take(t)
    <2>1. PICK pc \in {"check", "handler"} : Goto(t, pc)
      BY <1>4 DEF park, Take
    <2>2. pc \in PCs \ {"held"}
      BY Kinds DEF Preparing, Outside
    <2> QED
      BY <1>2, <2>1, <2>2, QuietGoto
  <1>5. CASE Check(t)
    <2>1. PICK e \in BOOLEAN : e = (pending[t] /\ waiting[t])
      OBVIOUS
    <2>2. PICK f : f = [Top(t) EXCEPT !.pc = "take", !.ended = e]
      OBVIOUS
    <2>3. SetTop(t, f)
      BY <1>5, <2>1, <2>2 DEF Check
    <2>4. f \in Proper /\ f.back = Top(t).back /\ f.pc # "held"
      BY <1>1, <1>3, <2>2 DEF Proper, Frame, Preparing
    <2> QED
      BY <1>2, <2>3, <2>4, QuietFrame
  <1>6. CASE Return(t)
    <2>1. PICK g \in Proper : g = NoCall("handler") /\ g.back = "handler"
      BY NoCallProper DEF Outside
    <2>2. PICK e \in BOOLEAN, own \in BOOLEAN : e = Top(t).ended /\ own = Top(t).native
      BY <1>1 DEF Frame
    <2>3. PICK f : f = [g EXCEPT !.pc = "take", !.ended = e, !.native = own]
      OBVIOUS
    <2>4. SetTop(t, f)
      BY <1>6, <2>1, <2>2, <2>3 DEF Return
    <2>5. f \in Proper /\ f.back = Top(t).back /\ f.pc # "held"
      BY <1>3, <2>1, <2>3 DEF Proper, Frame, Preparing
    <2> QED
      BY <1>2, <2>4, <2>5, QuietFrame
  <1> QED
    BY <1>4, <1>5, <1>6

\* The delivery ends: its frame is not the one of the program.
LEMMA ResumeStep ==
  ASSUME LayerInductive, NEW t \in Threads, resume_wait(t)
  PROVE LayerInductive'
  <1>1. /\ stack[t] \in Seq(Proper) /\ Len(stack[t]) \in Nat /\ Len(stack[t]) >= 1
        /\ Top(t) = stack[t][Len(stack[t])] /\ Top(t) \in Proper
    BY TopFacts DEF LayerInductive
  <1>2. stack[t][1].back = "program"
    BY DEF LayerInductive, StackOK
  <1>3. Top(t).back = "handler"
    BY <1>1 DEF resume_wait, At, Proper, Preparing
  <1>4. Len(stack[t]) >= 2
    BY <1>1, <1>2, <1>3
  <1>5. PICK q : q = Front(stack[t])
    OBVIOUS
  <1>6. /\ q \in Seq(Proper) /\ Len(q) = Len(stack[t]) - 1
        /\ \A i \in 1..Len(stack[t]) - 1 : q[i] = stack[t][i]
    BY <1>1, <1>4, <1>5 DEF Front
  <1>7. Len(q) >= 1 /\ q[1].back = "program"
    BY <1>1, <1>2, <1>4, <1>6
  <1>8. \A i \in 1..Len(q) : q[i].pc = "held" => HeldAt(stack, t, i)
    BY <1>1, <1>6 DEF HeldAt
  <1>9. word' = word /\ Restack(stack, stack', t, q)
    BY <1>5 DEF resume_wait, Restack
  <1> QED
    BY <1>6, <1>7, <1>8, <1>9, QuietStack

-----------------------------------------------------------------------------
(* The theorems.                                                           *)

\* The first state.
LEMMA LayerInit == Init => LayerInductive
  <1> SUFFICES ASSUME Init PROVE LayerInductive
    OBVIOUS
  <1>1. PICK f \in Proper : f = NoCall("program") /\ f.pc = "program" /\ f.back = "program"
    BY NoCallProper DEF Outside
  <1>2. \A t \in Threads : stack[t] = <<f>>
    BY <1>1 DEF Init
  <1>3. <<f>> \in Seq(Proper) /\ Len(<<f>>) = 1 /\ <<f>>[1] = f
    OBVIOUS
  <1>4. StackOK(stack)
    <2>1. stack \in [Threads -> Seq(Proper)]
      BY <1>1, <1>3 DEF Init
    <2>2. PICK q \in Seq(Proper) : q = <<f>> /\ Len(q) = 1 /\ q[1] = f
      BY <1>3
    <2>3. \A t \in Threads : stack[t] = q
      BY <1>2, <2>2
    <2> QED
      BY <1>1, <2>1, <2>2, <2>3 DEF StackOK
  <1>5. WordOK
    BY DEF Init, WordOK, Words
  <1>6. ASSUME NEW t \in Threads, NEW i \in Nat PROVE ~HeldAt(stack, t, i)
    BY <1>1, <1>2, <1>3 DEF HeldAt
  <1> QED
    BY <1>4, <1>5, <1>6 DEF LayerInductive, Exclusive

\* Every step keeps the invariant.
LEMMA LayerStep == LayerInductive /\ [Next]_vars => LayerInductive'
  <1> SUFFICES ASSUME LayerInductive, [Next]_vars PROVE LayerInductive'
    OBVIOUS
  <1>1. CASE UNCHANGED vars
    BY <1>1, QuietAll DEF vars
  <1>2. ASSUME NEW t \in Threads, Call(t) PROVE LayerInductive'
    <2>1. CASE CallLock(t)
      BY <2>1, CallLockStep
    <2>2. ASSUME NEW w \in AppWords, CallWake(t, w) PROVE LayerInductive'
      <3>1. PICK dl \in BOOLEAN : TRUE
        OBVIOUS
      <3> QED
        BY <2>2, <3>1, CallStep
    <2>3. ASSUME NEW w \in AppWords, NEW dl \in Deadlines, CallWait(t, w, dl) PROVE LayerInductive'
      <3>1. dl \in BOOLEAN
        BY FutexAssumption
      <3> QED
        BY <2>3, <3>1, CallStep
    <2> QED
      BY <1>2, <2>1, <2>2, <2>3 DEF Call
  <1>3. ASSUME NEW t \in Threads, Step(t) PROVE LayerInductive'
    BY <1>3, WaitStep, WakeStep, WakeOneStep, SwapStep, UnlockStep, EnterStep, DeferredStep,
       DeliveryStep, ResumeStep DEF Step
  <1>4. ASSUME NEW t \in Threads, Outer(t) PROVE LayerInductive'
    BY <1>4, QuietAll DEF Outer, Kill, Stop, Cancel
  <1>5. ASSUME NEW t \in Threads, NEW d \in 1..MaxDepth, Pass(t, d) PROVE LayerInductive'
    BY <1>5, PassStep
  <1> QED
    BY <1>1, <1>2, <1>3, <1>4, <1>5 DEF Next

\* The frames and the words keep their types, and the invariant of the lock
\* of the layer holds, over any nesting of handlers.
THEOREM LayerInvariance == Spec => []LayerInductive
  BY LayerInit, LayerStep, PTL DEF Spec

\* One thread at most holds the lock of the layer, and the word says so
\* (LayerExclusive).
THEOREM LayerExclusion == Spec => []LayerExclusive
  <1>1. ASSUME LayerInductive PROVE LayerExclusive
    <2>1. StackOK(stack) /\ Exclusive(stack, word[LockWord])
      BY <1>1 DEF LayerInductive
    <2> DEFINE H == {x \in Frames : FrameAt(x).pc = "held"}
    <2>2. ASSUME NEW x \in H
          PROVE \E t \in Threads, i \in Nat : x = <<t, i>> /\ HeldAt(stack, t, i)
      <3>1. PICK t \in Threads : \E i \in 1..Len(stack[t]) : x = <<t, i>>
        BY DEF Frames
      <3>2. PICK i \in 1..Len(stack[t]) : x = <<t, i>>
        BY <3>1
      <3>3. Len(stack[t]) \in Nat
        BY <2>1, TopFacts
      <3>4. stack[t][i].pc = "held"
        BY <3>2 DEF FrameAt
      <3> QED
        BY <3>2, <3>3, <3>4 DEF HeldAt
    <2>3. \A x, y \in H : x = y
      BY <2>1, <2>2 DEF Exclusive
    <2>4. \A x \in H : word[LockWord] # 0
      BY <2>1, <2>2 DEF Exclusive
    <2> HIDE DEF H
    <2>5. Cardinality(H) <= 1
      <3>1. CASE H = {}
        BY <3>1, FS_EmptySet
      <3>2. CASE H # {}
        <4>1. PICK x \in H : H = {x}
          BY <2>3, <3>2
        <4> QED
          BY <4>1, FS_Singleton
      <3> QED
        BY <3>1, <3>2
    <2> QED
      BY <2>4, <2>5 DEF LayerExclusive, H
  <1> QED
    BY <1>1, LayerInvariance, PTL

-----------------------------------------------------------------------------
(* What a waker counted.                                                   *)

\* The places where a frame sleeps, told apart from the others.
LEMMA Rests ==
  /\ Asleep \subseteq Waiting
  /\ \A pc \in Outside \cup Preparing \cup Waking \cup {"count", "compare", "swap", "held"} : pc \notin Asleep
  /\ \A pc \in Asleep : pc \notin Outside \cup Preparing \cup Waking \cup {"count", "compare", "swap", "held"}
  /\ {"arm", "receive", "cancel", "finish"} = Asleep
  BY DEF Asleep, Sleeping, Waiting, Outside, Preparing, Waking

\* The places where nothing is asked of the word or of the count.
LEMMA Ends ==
  /\ \A pc \in {"swap", "held"} : pc \notin Outside \cup Preparing \cup Waiting \cup Waking
  /\ \A pc \in Outside \cup Preparing : pc \notin Waiting \cup Waking \cup {"count", "compare"}
  /\ \A pc \in Waking : pc \notin Outside \cup Preparing \cup Waiting
  /\ \A pc \in Waiting : pc \notin Outside \cup Preparing \cup Waking
  BY DEF Asleep, Sleeping, Waiting, Outside, Preparing, Waking

\* The frame of a call that is over.
LEMMA EndedFields ==
  ASSUME NEW f \in Proper, NEW out
  PROVE /\ Ended(f, out).pc = f.back /\ Ended(f, out).out = out /\ (Ended(f, out).got <=> f.got)
        /\ ~Ended(f, out).layer
  <1>1. f.got \in BOOLEAN
    BY DEF Proper, Frame
  <1> QED
    BY <1>1 DEF Ended, NoCall

LEMMA EndedKept ==
  ASSUME NEW f \in Proper, NEW out, f.got => out # "timedout"
  PROVE KeptFrame(Ended(f, out)) /\ Ended(f, out).pc \notin Asleep
  <1>1. f.back \in Outside
    BY DEF Proper, Frame
  <1>2. PICK e : e = Ended(f, out)
    OBVIOUS
  <1>3. e.pc \in Outside /\ e.out = out /\ (e.got <=> f.got) /\ ~e.layer
    BY <1>1, <1>2, EndedFields
  <1>4. KeptFrame(e) /\ e.pc \notin Asleep
    BY <1>3, Ends, Rests DEF KeptFrame
  <1> QED
    BY <1>2, <1>4

\* One frame of one thread takes the place of another.
LEMMA FrameChange ==
  ASSUME NEW s, StackOK(s), NEW r, StackOK(r), NEW t \in Threads, NEW d \in 1..Len(s[t]), NEW f,
         Reframe(s, r, t, d, f)
  PROVE /\ Len(r[t]) = Len(s[t]) /\ r[t][d] = f
        /\ \A i \in 1..Len(s[t]) : i # d => r[t][i] = s[t][i]
        /\ \A u \in Threads \ {t} : r[u] = s[u]
  <1>1. s \in [Threads -> Seq(Proper)] /\ r \in [Threads -> Seq(Proper)]
    BY DEF StackOK
  <1>2. /\ r[t] = [s[t] EXCEPT ![d] = f]
        /\ \A u \in Threads \ {t} : r[u] = s[u]
    BY <1>1 DEF Reframe
  <1>3. PICK p \in Seq(Proper) : p = s[t]
    BY <1>1
  <1>4. PICK q \in Seq(Proper) : q = r[t]
    BY <1>1
  <1>5. DOMAIN p = 1..Len(p) /\ DOMAIN q = 1..Len(q) /\ Len(p) \in Nat /\ Len(q) \in Nat
    OBVIOUS
  <1>6. DOMAIN q = DOMAIN p
    BY <1>2, <1>3, <1>4
  <1>7. Len(p) = Len(q)
    <2>1. Len(p) >= 1 /\ Len(q) >= 1
      BY <1>3, <1>4 DEF StackOK
    <2>2. ASSUME NEW m \in Nat, NEW n \in Nat, m >= 1, n >= 1, 1..m = 1..n PROVE m = n
      <3>1. m \in 1..n /\ n \in 1..m
        BY <2>2
      <3> QED
        BY <3>1
    <2> QED
      BY <1>5, <1>6, <2>1, <2>2
  <1>8. q = [p EXCEPT ![d] = f] /\ d \in 1..Len(p)
    BY <1>2, <1>3, <1>4
  <1>9. q[d] = f /\ \A i \in 1..Len(p) : i # d => q[i] = p[i]
    BY <1>5, <1>8
  <1> QED
    BY <1>2, <1>3, <1>4, <1>7, <1>9

\* The same, at the top of the stack of a thread.
LEMMA TopChange ==
  ASSUME StackOK(stack), StackOK(stack'), NEW t \in Threads, NEW f, SetTop(t, f)
  PROVE /\ Len(stack'[t]) = Len(stack[t]) /\ stack'[t][Len(stack[t])] = f
        /\ \A i \in 1..Len(stack[t]) : i # Len(stack[t]) => stack'[t][i] = stack[t][i]
        /\ \A u \in Threads \ {t} : stack'[u] = stack[u]
  <1>1. Len(stack[t]) \in 1..Len(stack[t])
    BY TopFacts
  <1>2. Reframe(stack, stack', t, Len(stack[t]), f)
    BY DEF SetTop, Reframe
  <1> QED
    BY <1>1, <1>2, FrameChange

\* The invariant after a step: of the frames that changed, and of the links.
Kept == FramesKept(stack) /\ LinksOK(stack, addr, owner) /\ owner \in [Threads -> Nat]

\* From the nodes `a` to `b`: that of the thread stays, or it is gone.
Unlinking(a, b, t) ==
    /\ b \in [Threads -> Words \cup {NoWord}]
    /\ \A u \in Threads \ {t} : b[u] = a[u]
    /\ b[t] = a[t] \/ b[t] = NoWord
Unlinks(t) == Unlinking(addr, addr', t) /\ owner' = owner

\* The frame `f` in the place of `g` leaves a link as it was.
LinkSame(g, f) ==
    /\ f.pc \in Asleep <=> g.pc \in Asleep
    /\ g.pc \in Asleep => f.w = g.w /\ (f.got => g.got)

\* One frame changes, and at most the node of its thread leaves.
LEMMA KeepFrame ==
  ASSUME NEW s, StackOK(s), FramesKept(s), NEW r, StackOK(r), NEW a, NEW b, NEW o, LinksOK(s, a, o),
         NEW t \in Threads, NEW d \in 1..Len(s[t]), NEW f, KeptFrame(f), Reframe(s, r, t, d, f),
         Unlinking(a, b, t), b[t] # NoWord => LinkSame(s[t][d], f)
  PROVE FramesKept(r) /\ LinksOK(r, b, o)
  <1>1. PICK n : n = Len(s[t])
    OBVIOUS
  <1>2. /\ Len(r[t]) = n /\ r[t][d] = f /\ d \in 1..n
        /\ \A i \in 1..n : i # d => r[t][i] = s[t][i]
        /\ \A u \in Threads \ {t} : r[u] = s[u]
    BY <1>1, FrameChange
  <1>3. FramesKept(r)
    <2>1. ASSUME NEW u \in Threads, NEW i \in 1..Len(r[u]) PROVE KeptFrame(r[u][i])
      <3>1. CASE u = t /\ i = d
        BY <1>2, <3>1
      <3>2. CASE u = t /\ i # d
        BY <1>1, <1>2, <2>1, <3>2 DEF FramesKept
      <3>3. CASE u # t
        BY <1>2, <2>1, <3>3 DEF FramesKept
      <3> QED
        BY <3>1, <3>2, <3>3
    <2> QED
      BY <2>1 DEF FramesKept
  <1>4. ASSUME NEW u \in Threads, b[u] # NoWord PROVE Linkage(r[u], b[u], o[u])
    <2>1. b[u] = a[u]
      BY <1>4 DEF Unlinking
    <2>2. Linkage(s[u], a[u], o[u])
      BY <1>4, <2>1 DEF LinksOK
    <2>3. CASE u # t
      BY <1>2, <2>1, <2>2, <2>3
    <2>4. CASE u = t
      <3>1. LinkSame(s[t][d], f)
        BY <1>4, <2>4
      <3>2. PICK e : e = o[t]
        OBVIOUS
      <3>3. /\ e \in 1..n /\ s[t][e].pc \in Asleep /\ s[t][e].w = a[t] /\ ~s[t][e].got
            /\ \A i \in 1..n : e < i => s[t][i].pc \notin Asleep
        BY <1>1, <2>2, <2>4, <3>2 DEF Linkage
      <3>4. r[t][e].pc \in Asleep /\ r[t][e].w = a[t] /\ ~r[t][e].got
        <4>1. CASE e = d
          BY <1>2, <3>1, <3>3, <4>1 DEF LinkSame
        <4>2. CASE e # d
          BY <1>2, <3>3, <4>2
        <4> QED
          BY <4>1, <4>2
      <3>5. ASSUME NEW i \in 1..n, e < i PROVE r[t][i].pc \notin Asleep
        <4>1. CASE i = d
          BY <1>2, <3>1, <3>3, <3>5, <4>1 DEF LinkSame
        <4>2. CASE i # d
          BY <1>2, <3>3, <3>5, <4>2
        <4> QED
          BY <4>1, <4>2
      <3> QED
        BY <1>2, <2>1, <2>4, <3>2, <3>3, <3>4, <3>5 DEF Linkage
    <2> QED
      BY <2>3, <2>4
  <1> QED
    BY <1>3, <1>4 DEF LinksOK, Unlinking

\* The top frame changes.
LEMMA KeepTop ==
  ASSUME KeptInductive, StackOK(stack'), NEW t \in Threads, NEW f, KeptFrame(f), SetTop(t, f), Unlinks(t),
         addr'[t] # NoWord => LinkSame(Top(t), f)
  PROVE Kept'
  <1>1. StackOK(stack) /\ FramesKept(stack) /\ LinksOK(stack, addr, owner) /\ owner \in [Threads -> Nat]
    BY DEF KeptInductive, LayerInductive
  <1>2. PICK n : n = Len(stack[t])
    OBVIOUS
  <1>3. n \in 1..Len(stack[t]) /\ Top(t) = stack[t][n]
    BY <1>1, <1>2, TopFacts
  <1>4. Reframe(stack, stack', t, n, f)
    BY <1>2 DEF SetTop, Reframe
  <1>5. owner' = owner /\ Unlinking(addr, addr', t)
    BY DEF Unlinks
  <1>6. addr'[t] # NoWord => LinkSame(stack[t][n], f)
    BY <1>3
  <1>7. FramesKept(stack') /\ LinksOK(stack', addr', owner)
    BY <1>1, <1>3, <1>4, <1>5, <1>6, KeepFrame
  <1> QED
    BY <1>1, <1>5, <1>7 DEF Kept

\* The same, of a frame that does not sleep, with the nodes as they are.
LEMMA KeepAwake ==
  ASSUME KeptInductive, StackOK(stack'), NEW t \in Threads, NEW f, KeptFrame(f), SetTop(t, f),
         Top(t).pc \notin Asleep, f.pc \notin Asleep, addr' = addr, owner' = owner
  PROVE Kept'
  <1>1. Unlinks(t)
    BY DEF KeptInductive, LinksOK, Unlinks, Unlinking
  <1>2. LinkSame(Top(t), f)
    BY DEF LinkSame
  <1> QED
    BY <1>1, <1>2, KeepTop

\* The stacks and the nodes stay.
LEMMA KeepAll ==
  ASSUME KeptInductive, stack' = stack, addr' = addr, owner' = owner
  PROVE Kept'
  BY DEF KeptInductive, Kept

\* The facts that every step of a thread starts from.
LEMMA KeptTop ==
  ASSUME KeptInductive, NEW t \in Threads
  PROVE /\ StackOK(stack) /\ Top(t) \in Proper /\ Top(t) \in Frame /\ KeptFrame(Top(t))
        /\ WordOK /\ LockWord \in Words /\ LinksOK(stack, addr, owner)
  <1>1. StackOK(stack) /\ FramesKept(stack) /\ WordOK /\ LinksOK(stack, addr, owner)
    BY DEF KeptInductive, LayerInductive
  <1>2. Top(t) \in Proper /\ Top(t) = stack[t][Len(stack[t])] /\ Len(stack[t]) \in 1..Len(stack[t])
    BY <1>1, TopFacts
  <1> QED
    BY <1>1, <1>2 DEF Proper, FramesKept, Words

\* A call of the program or of a handler.
LEMMA CallKept ==
  ASSUME KeptInductive, StackOK(stack'), NEW t \in Threads, Call(t)
  PROVE Kept'
  <1>1. Top(t) \in Proper /\ Top(t).pc \in Outside /\ addr' = addr /\ owner' = owner
    BY KeptTop DEF Call, CallLock, CallWake, CallWait, bucketVars
  <1>2. Top(t).pc \notin Asleep
    BY <1>1, Rests
  <1>3. CASE CallLock(t)
    <2>1. PICK pc \in {"held", "swap"} : SetTop(t, Called(Top(t), pc, TRUE))
      BY <1>3 DEF CallLock
    <2>2. PICK e : e = Called(Top(t), pc, TRUE)
      OBVIOUS
    <2>3. e.pc = pc /\ e.out = "none" /\ ~e.got /\ ~e.dl
      BY <2>2 DEF Called, NoCall
    <2>4. KeptFrame(e) /\ e.pc \notin Asleep
      BY <2>3, Ends, Rests DEF KeptFrame
    <2> QED
      BY <1>1, <1>2, <2>1, <2>2, <2>4, KeepAwake
  <1>4. ASSUME NEW w \in AppWords, CallWake(t, w) PROVE Kept'
    <2>1. PICK g : g = Called(Top(t), "wakeRead", FALSE)
      OBVIOUS
    <2>2. g \in Proper /\ g.pc = "wakeRead"
      BY <1>1, <2>1, CalledProper DEF InCall, Waking
    <2>3. g.out = "none" /\ ~g.got /\ ~g.dl
      BY <2>1 DEF Called, NoCall
    <2>4. PICK e : e = [g EXCEPT !.w = w, !.left = Cardinality(Threads)]
      OBVIOUS
    <2>5. e.pc = "wakeRead" /\ e.out = "none" /\ ~e.got /\ ~e.dl /\ e.w \in Words
      BY <2>2, <2>3, <2>4 DEF Proper, Frame, Words
    <2>6. KeptFrame(e) /\ e.pc \notin Asleep
      BY <2>5, Ends, Rests DEF KeptFrame, Waking
    <2>7. SetTop(t, e)
      BY <1>4, <2>1, <2>4 DEF CallWake
    <2> QED
      BY <1>1, <1>2, <2>6, <2>7, KeepAwake
  <1>5. ASSUME NEW w \in AppWords, NEW dl \in Deadlines, CallWait(t, w, dl) PROVE Kept'
    <2>1. PICK g : g = Called(Top(t), "count", FALSE)
      OBVIOUS
    <2>2. g \in Proper /\ g.pc = "count"
      BY <1>1, <2>1, CalledProper DEF InCall, Waiting
    <2>3. g.out = "none" /\ ~g.got /\ ~g.layer
      BY <2>1 DEF Called, NoCall
    <2>4. PICK e : e = [g EXCEPT !.w = w, !.val = word[w], !.dl = dl]
      OBVIOUS
    <2>5. e.pc = "count" /\ e.out = "none" /\ ~e.got /\ ~e.layer /\ e.w \in Words
      BY <2>2, <2>3, <2>4 DEF Proper, Frame, Words
    <2>6. KeptFrame(e) /\ e.pc \notin Asleep
      BY <2>5, Ends, Rests DEF KeptFrame
    <2>7. SetTop(t, e)
      BY <1>5, <2>1, <2>4 DEF CallWait
    <2> QED
      BY <1>1, <1>2, <2>6, <2>7, KeepAwake
  <1> QED
    BY <1>3, <1>4, <1>5 DEF Call

\* The loop of LayerLock::lock and the end of its guard.
LEMMA LockKept ==
  ASSUME KeptInductive, StackOK(stack'), NEW t \in Threads, Swap(t) \/ Unlock(t)
  PROVE Kept'
  <1>1. /\ Top(t) \in Proper /\ LockWord \in Words /\ Top(t).pc \in {"swap", "held"}
        /\ addr' = addr /\ owner' = owner
    BY KeptTop DEF Swap, Unlock, At, bucketVars
  <1>2. Top(t).pc \notin Asleep
    BY <1>1, Rests
  <1>3. ASSUME SetTop(t, Called(Top(t), "held", TRUE)) PROVE Kept'
    <2>1. PICK e : e = Called(Top(t), "held", TRUE)
      OBVIOUS
    <2>2. e.pc = "held" /\ e.out = "none" /\ ~e.got /\ ~e.dl
      BY <2>1 DEF Called, NoCall
    <2>3. KeptFrame(e) /\ e.pc \notin Asleep
      BY <2>2, Ends, Rests DEF KeptFrame
    <2> QED
      BY <1>1, <1>2, <1>3, <2>1, <2>3, KeepAwake
  <1>4. ASSUME SetTop(t, Ended(Top(t), "none")) PROVE Kept'
    <2>1. PICK e : e = Ended(Top(t), "none")
      OBVIOUS
    <2>2. KeptFrame(e) /\ e.pc \notin Asleep
      BY <1>1, <2>1, EndedKept
    <2> QED
      BY <1>1, <1>2, <1>4, <2>1, <2>2, KeepAwake
  <1>5. ASSUME NEW g, NEW e, NEW pc \in {"count", "wakeRead"}, g = Called(Top(t), pc, TRUE),
               \/ e = [g EXCEPT !.w = LockWord, !.val = 2]
               \/ e = [g EXCEPT !.w = LockWord, !.left = 1],
               SetTop(t, e)
        PROVE Kept'
    <2>1. g \in Proper /\ g.pc = pc
      BY <1>1, <1>5, CalledProper DEF InCall, Waking, Waiting
    <2>2. g.out = "none" /\ ~g.got /\ ~g.dl
      BY <1>5 DEF Called, NoCall
    <2>3. e.pc = pc /\ e.out = "none" /\ ~e.got /\ ~e.dl /\ e.w = LockWord
      BY <1>5, <2>1, <2>2 DEF Proper, Frame
    <2>4. pc \notin Asleep /\ pc \notin Outside \cup Preparing
      BY Ends, Rests DEF Waking, Waiting
    <2>5. KeptFrame(e) /\ e.pc \notin Asleep
      BY <1>1, <2>3, <2>4 DEF KeptFrame
    <2> QED
      BY <1>1, <1>2, <1>5, <2>5, KeepAwake
  <1>6. CASE Swap(t)
    <2>1. PICK g : g = Called(Top(t), "count", TRUE)
      OBVIOUS
    <2>2. PICK e : e = [g EXCEPT !.w = LockWord, !.val = 2]
      OBVIOUS
    <2>3. SetTop(t, Called(Top(t), "held", TRUE)) \/ SetTop(t, e)
      BY <1>6, <2>1, <2>2 DEF Swap
    <2> QED
      BY <1>3, <1>5, <2>1, <2>2, <2>3
  <1>7. CASE Unlock(t)
    <2>1. PICK g : g = Called(Top(t), "wakeRead", TRUE)
      OBVIOUS
    <2>2. PICK e : e = [g EXCEPT !.w = LockWord, !.left = 1]
      OBVIOUS
    <2>3. SetTop(t, Ended(Top(t), "none")) \/ SetTop(t, e)
      BY <1>7, <2>1, <2>2 DEF Unlock
    <2> QED
      BY <1>4, <1>5, <2>1, <2>2, <2>3
  <1> QED
    BY <1>6, <1>7

\* A wait goes on asleep.
LEMMA SleepsOn ==
  ASSUME KeptInductive, StackOK(stack'), NEW t \in Threads, Top(t).pc \in Asleep,
         NEW f, f.pc \in Asleep, f.w = Top(t).w, f.got <=> Top(t).got,
         f.layer => ~f.dl /\ f.out # "timedout", SetTop(t, f), addr' = addr, owner' = owner
  PROVE Kept'
  <1>1. KeptFrame(Top(t))
    BY KeptTop
  <1>2. f.w \in Words
    BY <1>1, Rests DEF KeptFrame
  <1>3. KeptFrame(f)
    BY <1>2, Rests DEF KeptFrame
  <1>4. Unlinks(t)
    BY DEF KeptInductive, LinksOK, Unlinks, Unlinking
  <1>5. LinkSame(Top(t), f)
    BY DEF LinkSame
  <1> QED
    BY <1>3, <1>4, <1>5, KeepTop

\* The answer of a wait.
LEMMA AnswerKept ==
  ASSUME NEW f \in Proper, KeptFrame(f), NEW out, ~f.layer /\ f.got => out # "timedout"
  PROVE KeptFrame(Answer(f, out)) /\ Answer(f, out).pc \notin Asleep
  <1>1. CASE f.layer
    <2>1. PICK e : e = [f EXCEPT !.pc = "swap"]
      OBVIOUS
    <2>2. e.pc = "swap" /\ ~e.dl /\ e.out # "timedout"
      BY <1>1, <2>1 DEF Proper, Frame, KeptFrame
    <2>3. KeptFrame(e) /\ e.pc \notin Asleep
      BY <2>2, Ends, Rests DEF KeptFrame
    <2> QED
      BY <1>1, <2>1, <2>3 DEF Answer
  <1>2. CASE ~f.layer
    BY <1>2, EndedKept DEF Answer
  <1> QED
    BY <1>1, <1>2

\* The node is linked: the frame that links it is the highest, and nothing has
\* counted it.  A node that a handler links may be linked already, in a frame
\* below; it is the handler's now.
LEMMA LinkKept ==
  ASSUME KeptInductive, StackOK(stack'), NEW t \in Threads, At(t, "compare"),
         NEW pc \in Asleep, Goto(t, pc),
         addr' = [addr EXCEPT ![t] = Top(t).w], owner' = [owner EXCEPT ![t] = Len(stack[t])]
  PROVE Kept'
  <1>1. /\ StackOK(stack) /\ Top(t) \in Proper /\ Top(t) \in Frame /\ KeptFrame(Top(t))
        /\ LinksOK(stack, addr, owner)
    BY KeptTop
  <1>2. Top(t).pc = "compare" /\ ~Top(t).got /\ Top(t).w \in Words
    BY <1>1 DEF At, KeptFrame, Waiting
  <1>3. PICK f : f = [Top(t) EXCEPT !.pc = pc]
    OBVIOUS
  <1>4. /\ f.pc = pc /\ f.w = Top(t).w /\ ~f.got /\ (f.layer => ~f.dl /\ f.out # "timedout")
    BY <1>1, <1>2, <1>3 DEF Frame, KeptFrame
  <1>5. KeptFrame(f)
    BY <1>2, <1>4, Rests DEF KeptFrame
  <1>6. SetTop(t, f)
    BY <1>3 DEF Goto
  <1>7. PICK n : n = Len(stack[t])
    OBVIOUS
  <1>8. /\ Len(stack'[t]) = n /\ stack'[t][n] = f
        /\ \A i \in 1..n : i # n => stack'[t][i] = stack[t][i]
        /\ \A u \in Threads \ {t} : stack'[u] = stack[u]
    BY <1>1, <1>6, <1>7, TopChange
  <1>9. n \in Nat /\ n \in 1..n
    BY <1>1, <1>7, TopFacts
  <1>10. addr \in [Threads -> Words \cup {NoWord}] /\ owner \in [Threads -> Nat] /\ FramesKept(stack)
    BY DEF KeptInductive, LinksOK
  <1>11. FramesKept(stack')
    <2>1. ASSUME NEW u \in Threads, NEW i \in 1..Len(stack'[u]) PROVE KeptFrame(stack'[u][i])
      <3>1. CASE u = t /\ i = n
        BY <1>5, <1>8, <3>1
      <3>2. CASE u = t /\ i # n
        BY <1>7, <1>8, <1>10, <2>1, <3>2 DEF FramesKept
      <3>3. CASE u # t
        BY <1>8, <1>10, <2>1, <3>3 DEF FramesKept
      <3> QED
        BY <3>1, <3>2, <3>3
    <2> QED
      BY <2>1 DEF FramesKept
  <1>12. /\ addr' \in [Threads -> Words \cup {NoWord}] /\ owner' \in [Threads -> Nat]
         /\ addr'[t] = Top(t).w /\ owner'[t] = n
         /\ \A u \in Threads \ {t} : addr'[u] = addr[u] /\ owner'[u] = owner[u]
    BY <1>2, <1>7, <1>9, <1>10
  <1>13. ASSUME NEW u \in Threads, addr'[u] # NoWord PROVE Linkage(stack'[u], addr'[u], owner'[u])
    <2>1. CASE u = t
      <3>1. \A i \in 1..n : ~(n < i)
        BY <1>9
      <3> QED
        BY <1>4, <1>8, <1>9, <1>12, <2>1, <3>1 DEF Linkage
    <2>2. CASE u # t
      BY <1>1, <1>8, <1>12, <1>13, <2>2 DEF LinksOK
    <2> QED
      BY <2>1, <2>2
  <1> QED
    BY <1>11, <1>12, <1>13 DEF Kept, LinksOK

\* A wait that has its outcome still sleeps.
LEMMA ReceivedFields ==
  ASSUME NEW f \in Proper, KeptFrame(f), NEW out, f.layer => out # "timedout",
         NEW e, e = Received(f, out)
  PROVE e.pc \in Asleep /\ e.w = f.w /\ (e.got <=> f.got) /\ (e.layer => ~e.dl /\ e.out # "timedout")
  <1>1. f \in Frame
    BY DEF Proper
  <1>2. PICK pc \in {"cancel", "finish"} : pc = IF f.dl THEN "cancel" ELSE "finish"
    OBVIOUS
  <1>3. e = [f EXCEPT !.pc = pc, !.out = out]
    BY <1>2 DEF Received
  <1>4. e.pc = pc /\ e.w = f.w /\ e.out = out
    BY <1>1, <1>3 DEF Frame
  <1>5. (e.got <=> f.got) /\ (e.layer <=> f.layer) /\ (e.dl <=> f.dl)
    BY <1>1, <1>3 DEF Frame
  <1> QED
    BY <1>2, <1>4, <1>5, Rests DEF KeptFrame

\* The node of the thread leaves.
LEMMA RemoveUnlinks ==
  ASSUME KeptInductive, NEW t \in Threads, remove(t), owner' = owner
  PROVE Unlinks(t) /\ addr'[t] = NoWord
  <1>1. addr \in [Threads -> Words \cup {NoWord}] /\ addr' = [addr EXCEPT ![t] = NoWord]
    BY DEF KeptInductive, LinksOK, remove
  <1> QED
    BY <1>1 DEF Unlinks, Unlinking

\* A thread asleep whose node is linked is the frame the node names.
LEMMA TopLinked ==
  ASSUME KeptInductive, NEW t \in Threads, Top(t).pc \in Asleep, addr[t] # NoWord
  PROVE addr[t] = Top(t).w /\ ~Top(t).got
  <1>1. StackOK(stack) /\ Linkage(stack[t], addr[t], owner[t])
    BY KeptTop DEF LinksOK
  <1>2. PICK n : n = Len(stack[t])
    OBVIOUS
  <1>3. n \in Nat /\ n \in 1..n /\ Top(t) = stack[t][n]
    BY <1>1, <1>2, TopFacts
  <1>4. PICK d : d = owner[t]
    OBVIOUS
  <1>5. /\ d \in 1..n /\ stack[t][d].w = addr[t] /\ ~stack[t][d].got
        /\ \A i \in 1..n : d < i => stack[t][i].pc \notin Asleep
    BY <1>1, <1>2, <1>4 DEF Linkage
  <1>6. ~(d < n)
    BY <1>3, <1>5
  <1>7. d = n
    BY <1>3, <1>5, <1>6
  <1> QED
    BY <1>3, <1>5, <1>7

\* futex_wait.
LEMMA WaitKept ==
  ASSUME KeptInductive, StackOK(stack'), NEW t \in Threads,
         Count(t) \/ Compare(t) \/ Arm(t) \/ ReceiveBits(t) \/ ReceiveTimer(t)
         \/ CancelTimer(t) \/ Finish(t)
  PROVE Kept'
  <1>1. Top(t) \in Proper /\ Top(t) \in Frame /\ KeptFrame(Top(t))
    BY KeptTop
  <1>2. CASE Count(t)
    <2>1. Top(t).pc = "count" /\ Goto(t, "compare") /\ addr' = addr /\ owner' = owner
      BY <1>2 DEF Count, At
    <2>2. PICK f : f = [Top(t) EXCEPT !.pc = "compare"]
      OBVIOUS
    <2>3. f.pc = "compare" /\ f.w = Top(t).w /\ f.out = Top(t).out
      BY <1>1, <2>2 DEF Frame
    <2>4. (f.got <=> Top(t).got) /\ (f.layer <=> Top(t).layer) /\ (f.dl <=> Top(t).dl)
      BY <1>1, <2>2 DEF Frame
    <2>5. "count" \in Waiting /\ "compare" \in Waiting /\ "count" \notin Asleep /\ "compare" \notin Asleep
      BY Rests DEF Waiting
    <2>6. KeptFrame(f)
      BY <1>1, <2>1, <2>3, <2>4, <2>5, Ends DEF KeptFrame
    <2>7. SetTop(t, f)
      BY <2>1, <2>2 DEF Goto
    <2> QED
      BY <2>1, <2>3, <2>5, <2>6, <2>7, KeepAwake
  <1>3. CASE Compare(t)
    <2>1. CASE SetTop(t, Answer(Top(t), "again")) /\ addr' = addr /\ owner' = owner
      <3>1. PICK e : e = Answer(Top(t), "again")
        OBVIOUS
      <3>2. KeptFrame(e) /\ e.pc \notin Asleep
        BY <1>1, <3>1, AnswerKept
      <3>3. Top(t).pc \notin Asleep
        BY <1>3, Rests DEF Compare, At
      <3> QED
        BY <2>1, <3>1, <3>2, <3>3, KeepAwake
    <2>2. CASE /\ addr' = [addr EXCEPT ![t] = Top(t).w] /\ owner' = [owner EXCEPT ![t] = Len(stack[t])]
               /\ \E pc \in {"arm", "receive"} : Goto(t, pc)
      <3>1. PICK pc \in {"arm", "receive"} : Goto(t, pc)
        BY <2>2
      <3>2. pc \in Asleep
        BY Rests
      <3>3. At(t, "compare")
        BY <1>3 DEF Compare
      <3> QED
        BY <2>2, <3>1, <3>2, <3>3, LinkKept
    <2> QED
      BY <1>3, <2>1, <2>2 DEF Compare
  <1>4. CASE Arm(t) \/ CancelTimer(t)
    <2>1. PICK pc \in {"receive", "finish"} :
             Goto(t, pc) /\ Top(t).pc \in {"arm", "cancel"} /\ addr' = addr /\ owner' = owner
      BY <1>4 DEF Arm, CancelTimer, At, bucketVars
    <2>2. PICK f : f = [Top(t) EXCEPT !.pc = pc]
      OBVIOUS
    <2>3. f.pc = pc /\ f.w = Top(t).w /\ f.out = Top(t).out
      BY <1>1, <2>2 DEF Frame
    <2>4. (f.got <=> Top(t).got) /\ (f.layer <=> Top(t).layer) /\ (f.dl <=> Top(t).dl)
      BY <1>1, <2>2 DEF Frame
    <2>5. pc \in Asleep /\ Top(t).pc \in Asleep
      BY <2>1, Rests
    <2>6. f.layer => ~f.dl /\ f.out # "timedout"
      BY <1>1, <2>3, <2>4 DEF KeptFrame
    <2>7. SetTop(t, f)
      BY <2>1, <2>2 DEF Goto
    <2> QED
      BY <2>1, <2>3, <2>4, <2>5, <2>6, <2>7, SleepsOn
  <1>5. CASE ReceiveBits(t) \/ ReceiveTimer(t)
    <2>1. Top(t).pc = "receive" /\ addr' = addr /\ owner' = owner
      BY <1>5 DEF ReceiveBits, ReceiveTimer, At, bucketVars
    <2>2. Top(t).pc \in Asleep
      BY <2>1, Rests
    <2>3. ASSUME NEW out, Top(t).layer => out # "timedout", SetTop(t, Received(Top(t), out)) PROVE Kept'
      <3>1. PICK e : e = Received(Top(t), out)
        OBVIOUS
      <3>2. e.pc \in Asleep /\ e.w = Top(t).w /\ (e.got <=> Top(t).got) /\ (e.layer => ~e.dl /\ e.out # "timedout")
        BY <1>1, <2>3, <3>1, ReceivedFields
      <3> QED
        BY <2>1, <2>2, <2>3, <3>1, <3>2, SleepsOn
    <2>4. CASE ReceiveBits(t)
      <3>1. \E out \in {"entry", "woken"} : SetTop(t, Received(Top(t), out))
        BY <2>4 DEF ReceiveBits
      <3> QED
        BY <2>3, <3>1
    <2>5. CASE ReceiveTimer(t)
      <3>1. (Top(t).dl /\ SetTop(t, Received(Top(t), "timedout"))) \/ stack' = stack
        BY <2>5 DEF ReceiveTimer
      <3>2. CASE stack' = stack
        BY <2>1, <3>2, KeepAll
      <3>3. CASE Top(t).dl /\ SetTop(t, Received(Top(t), "timedout"))
        <4>1. ~Top(t).layer
          BY <1>1, <3>3 DEF KeptFrame
        <4> QED
          BY <2>3, <3>3, <4>1
      <3> QED
        BY <3>1, <3>2, <3>3
    <2> QED
      BY <1>5, <2>4, <2>5
  <1>6. CASE Finish(t)
    <2>1. Top(t).pc = "finish" /\ owner' = owner
      BY <1>6 DEF Finish, At
    <2>2. Top(t).pc \in Asleep /\ Top(t).w # NoWord
      BY <1>1, <2>1, FutexAssumption, Rests DEF KeptFrame
    <2>3. ASSUME NEW out, ~Top(t).layer /\ Top(t).got => out # "timedout",
                 SetTop(t, Answer(Top(t), out)), Unlinks(t), addr'[t] = NoWord
          PROVE Kept'
      <3>1. PICK e : e = Answer(Top(t), out)
        OBVIOUS
      <3>2. KeptFrame(e)
        BY <1>1, <2>3, <3>1, AnswerKept
      <3> QED
        BY <2>3, <3>1, <3>2, KeepTop
    <2>4. CASE addr[t] = Top(t).w /\ remove(t) /\ SetTop(t, Answer(Top(t), Top(t).out))
      <3>1. ~Top(t).got
        BY <2>2, <2>4, TopLinked
      <3>2. Unlinks(t) /\ addr'[t] = NoWord
        BY <2>1, <2>4, RemoveUnlinks
      <3> QED
        BY <2>3, <2>4, <3>1, <3>2
    <2>5. CASE /\ addr[t] # Top(t).w /\ addr' = addr
               /\ \E out : out # "timedout" /\ SetTop(t, Answer(Top(t), out))
      <3>1. addr[t] = NoWord
        BY <2>2, <2>5, TopLinked
      <3>2. Unlinks(t)
        BY <2>1, <2>5 DEF Unlinks, Unlinking, KeptInductive, LinksOK
      <3> QED
        BY <2>3, <2>5, <3>1, <3>2
    <2>6. \/ addr[t] = Top(t).w /\ remove(t) /\ SetTop(t, Answer(Top(t), Top(t).out))
          \/ /\ addr[t] # Top(t).w /\ addr' = addr
             /\ SetTop(t, Answer(Top(t), IF Top(t).out = "timedout" THEN "woken" ELSE Top(t).out))
      BY <1>6 DEF Finish
    <2>7. (IF Top(t).out = "timedout" THEN "woken" ELSE Top(t).out) # "timedout"
      OBVIOUS
    <2> QED
      BY <2>4, <2>5, <2>6, <2>7
  <1> QED
    BY <1>2, <1>3, <1>4, <1>5, <1>6

\* A frame that goes on to another place keeps the rest.
LEMMA PcFields ==
  ASSUME NEW f \in Frame, NEW pc, NEW e, e = [f EXCEPT !.pc = pc]
  PROVE /\ e.pc = pc /\ e.w = f.w /\ e.out = f.out
        /\ (e.got <=> f.got) /\ (e.layer <=> f.layer) /\ (e.dl <=> f.dl)
  BY DEF Frame

\* futex_wake but for the node it unlinks.
LEMMA WakeKept ==
  ASSUME KeptInductive, StackOK(stack'), NEW t \in Threads, WakeRead(t) \/ WakeLock(t) \/ WakeUnlock(t)
  PROVE Kept'
  <1>1. Top(t) \in Proper /\ Top(t) \in Frame /\ KeptFrame(Top(t))
    BY KeptTop
  <1>2. Top(t).pc \in Waking /\ addr' = addr /\ owner' = owner
    BY DEF WakeRead, WakeLock, WakeUnlock, At, Waking, bucketVars
  <1>3. Top(t).pc \notin Asleep
    BY <1>2, Rests
  <1>4. ASSUME NEW pc \in {"wakeLock", "waking"}, Goto(t, pc) PROVE Kept'
    <2>1. PICK f : f = [Top(t) EXCEPT !.pc = pc]
      OBVIOUS
    <2>2. /\ f.pc = pc /\ f.w = Top(t).w /\ f.out = Top(t).out
          /\ (f.got <=> Top(t).got) /\ (f.layer <=> Top(t).layer) /\ (f.dl <=> Top(t).dl)
      BY <1>1, <2>1, PcFields
    <2>3. pc \in Waking /\ pc \notin Asleep
      BY Rests DEF Waking
    <2>4. pc \notin Outside \cup Preparing \cup Waiting
      BY <2>3, Ends
    <2>5. pc \notin {"count", "compare"}
      OBVIOUS
    <2>6. Top(t).w \in Words
      BY <1>1, <1>2 DEF KeptFrame
    <2>7. KeptFrame(f)
      BY <1>1, <2>2, <2>4, <2>5, <2>6 DEF KeptFrame
    <2>8. SetTop(t, f)
      BY <1>4, <2>1 DEF Goto
    <2> QED
      BY <1>2, <1>3, <2>2, <2>3, <2>7, <2>8, KeepAwake
  <1>5. ASSUME SetTop(t, Ended(Top(t), "none")) PROVE Kept'
    <2>1. PICK e : e = Ended(Top(t), "none")
      OBVIOUS
    <2>2. KeptFrame(e) /\ e.pc \notin Asleep
      BY <1>1, <2>1, EndedKept
    <2> QED
      BY <1>2, <1>3, <1>5, <2>1, <2>2, KeepAwake
  <1>6. SetTop(t, Ended(Top(t), "none")) \/ \E pc \in {"wakeLock", "waking"} : Goto(t, pc)
    BY DEF WakeRead, WakeLock, WakeUnlock, Goto
  <1> QED
    BY <1>4, <1>5, <1>6

\* A waker unlinks a node and counts the wait whose node it is: one that
\* sleeps, and that looks at its node again before it answers.
LEMMA WakeOneKept ==
  ASSUME KeptInductive, StackOK(stack'), NEW t \in Threads, WakeOne(t)
  PROVE Kept'
  <1>1. /\ StackOK(stack) /\ Top(t) \in Proper /\ Top(t) \in Frame /\ KeptFrame(Top(t))
        /\ LinksOK(stack, addr, owner)
    BY KeptTop
  <1>2. FramesKept(stack) /\ owner \in [Threads -> Nat]
    BY DEF KeptInductive
  <1>3. PICK u : /\ stack' = [stack EXCEPT ![t][Len(stack[t])].left = @ - 1, ![u][owner[u]].got = TRUE]
                 /\ addr[u] = Top(t).w /\ addr' = [addr EXCEPT ![u] = NoWord] /\ owner' = owner
    BY DEF WakeOne, OfWord, remove
  <1>4. Top(t).pc = "waking" /\ Top(t).left > 0
    BY DEF WakeOne, At
  <1>5. PICK n : n = Len(stack[t])
    OBVIOUS
  <1>6. n \in 1..Len(stack[t]) /\ Top(t) = stack[t][n]
    BY <1>1, <1>5, TopFacts
  <1>7. PICK f : f = [stack[t][n] EXCEPT !.left = @ - 1]
    OBVIOUS
  <1>8. f \in Proper /\ f.back = stack[t][n].back
    BY <1>1, <1>4, <1>6, <1>7, LeftProper
  <1>9. PICK mid : Reframe(stack, mid, t, n, f)
    BY DEF Reframe
  <1>10. PICK g : g = [mid[u][owner[u]] EXCEPT !.got = TRUE]
    OBVIOUS
  <1>11. Reframe(mid, stack', u, owner[u], g)
    BY <1>3, <1>5, <1>7, <1>9, <1>10 DEF Reframe
  <1>12. StackOK(mid)
    BY <1>1, <1>6, <1>8, <1>9, OneFrame
  <1>13. FramesKept(mid) /\ LinksOK(mid, addr, owner)
    <2>1. f.pc = "waking" /\ f.w = Top(t).w /\ f.out = Top(t).out
      BY <1>1, <1>4, <1>6, <1>7 DEF Frame
    <2>2. (f.got <=> Top(t).got) /\ (f.layer <=> Top(t).layer) /\ (f.dl <=> Top(t).dl)
      BY <1>1, <1>6, <1>7 DEF Frame
    <2>3. "waking" \in Waking /\ "waking" \notin {"count", "compare"}
      BY DEF Waking
    <2>4. "waking" \notin Outside \cup Preparing \cup Waiting /\ "waking" \notin Asleep
      BY <2>3, Ends, Rests
    <2>5. KeptFrame(f)
      BY <1>1, <1>4, <2>1, <2>2, <2>3, <2>4 DEF KeptFrame
    <2>6. Unlinking(addr, addr, t)
      BY <1>1 DEF LinksOK, Unlinking
    <2>7. LinkSame(stack[t][n], f)
      BY <1>4, <1>6, <2>1, <2>4 DEF LinkSame
    <2> QED
      BY <1>1, <1>2, <1>6, <1>9, <1>12, <2>5, <2>6, <2>7, KeepFrame
  <1>14. addr \in [Threads -> Words \cup {NoWord}]
    BY <1>1 DEF LinksOK
  <1>15. CASE u \in Threads
    <2>1. addr[u] # NoWord
      <3>1. Top(t).w \in Words
        BY <1>1, <1>4 DEF KeptFrame, Waking
      <3> QED
        BY <1>3, <3>1, FutexAssumption
    <2>2. PICK d : d = owner[u]
      OBVIOUS
    <2>3. d \in 1..Len(mid[u]) /\ mid[u][d].pc \in Asleep
      BY <1>13, <1>15, <2>1, <2>2 DEF LinksOK, Linkage
    <2>4. PICK h \in Frame : h = mid[u][d] /\ KeptFrame(h) /\ h.pc \in Asleep
      <3>1. mid[u] \in Seq(Proper)
        BY <1>12, <1>15 DEF StackOK
      <3>2. mid[u][d] \in Proper
        BY <2>3, <3>1
      <3> QED
        BY <1>13, <1>15, <2>3, <3>2 DEF Proper, FramesKept
    <2>5. g = [h EXCEPT !.got = TRUE]
      BY <1>10, <2>2, <2>4
    <2>6. g.pc = h.pc /\ g.w = h.w /\ g.out = h.out /\ (g.layer <=> h.layer) /\ (g.dl <=> h.dl)
      BY <2>4, <2>5 DEF Frame
    <2>7. h.pc \notin Outside \cup Preparing \cup {"count", "compare"}
      BY <2>4, Rests
    <2>8. KeptFrame(g)
      BY <2>4, <2>6, <2>7 DEF KeptFrame
    <2>9. Unlinking(addr, addr', u) /\ addr'[u] = NoWord
      BY <1>3, <1>14, <1>15 DEF Unlinking
    <2>10. Reframe(mid, stack', u, d, g)
      BY <1>11, <2>2
    <2>11. FramesKept(stack') /\ LinksOK(stack', addr', owner)
      BY <1>12, <1>13, <1>15, <2>3, <2>8, <2>9, <2>10, KeepFrame
    <2> QED
      BY <1>2, <1>3, <2>11 DEF Kept
  <1>16. CASE u \notin Threads
    <2>1. addr' = addr
      BY <1>3, <1>14, <1>16
    <2>2. stack' = mid
      <3>1. mid \in [Threads -> Seq(Proper)]
        BY <1>12 DEF StackOK
      <3> QED
        BY <1>11, <1>16, <3>1 DEF Reframe
    <2> QED
      BY <1>2, <1>3, <1>13, <2>1, <2>2 DEF Kept
  <1> QED
    BY <1>15, <1>16

\* A deadline passes.
LEMMA PassKept ==
  ASSUME KeptInductive, StackOK(stack'), NEW t \in Threads, NEW d \in 1..MaxDepth, Pass(t, d)
  PROVE Kept'
  <1>1. StackOK(stack) /\ LinksOK(stack, addr, owner) /\ FramesKept(stack) /\ owner \in [Threads -> Nat]
    BY DEF KeptInductive, LayerInductive
  <1>2. d \in 1..Len(stack[t]) /\ addr' = addr /\ owner' = owner
    BY DEF Pass, bucketVars
  <1>3. PICK h \in Frame : h = stack[t][d] /\ KeptFrame(h)
    <2>1. stack[t] \in Seq(Proper)
      BY <1>1 DEF StackOK
    <2>2. stack[t][d] \in Proper
      BY <1>2, <2>1
    <2> QED
      BY <1>1, <1>2, <2>2 DEF Proper, FramesKept
  <1>4. PICK f : f = [h EXCEPT !.due = TRUE]
    OBVIOUS
  <1>5. f.pc = h.pc /\ f.w = h.w /\ f.out = h.out
    BY <1>3, <1>4 DEF Frame
  <1>6. (f.got <=> h.got) /\ (f.layer <=> h.layer) /\ (f.dl <=> h.dl)
    BY <1>3, <1>4 DEF Frame
  <1>7. KeptFrame(f) /\ LinkSame(stack[t][d], f)
    BY <1>3, <1>5, <1>6 DEF KeptFrame, LinkSame
  <1>8. Reframe(stack, stack', t, d, f)
    BY <1>3, <1>4 DEF Pass, Reframe
  <1>9. Unlinking(addr, addr', t)
    BY <1>1, <1>2 DEF LinksOK, Unlinking
  <1>10. FramesKept(stack') /\ LinksOK(stack', addr', owner)
    BY <1>1, <1>2, <1>7, <1>8, <1>9, KeepFrame
  <1> QED
    BY <1>1, <1>2, <1>10 DEF Kept

\* A delivery begins above a stack.
LEMMA PushKept ==
  ASSUME NEW s, StackOK(s), FramesKept(s), NEW r, StackOK(r), NEW a, NEW o, LinksOK(s, a, o),
         NEW t \in Threads, NEW f, KeptFrame(f), f.pc \notin Asleep, Restack(s, r, t, Append(s[t], f))
  PROVE FramesKept(r) /\ LinksOK(r, a, o)
  <1>1. s \in [Threads -> Seq(Proper)] /\ r \in [Threads -> Seq(Proper)]
    BY DEF StackOK
  <1>2. r[t] = Append(s[t], f) /\ \A u \in Threads \ {t} : r[u] = s[u]
    BY <1>1 DEF Restack
  <1>3. PICK p \in Seq(Proper) : p = s[t]
    BY <1>1
  <1>4. PICK n \in Nat : n = Len(p)
    BY <1>3
  <1>5. /\ Len(r[t]) = n + 1 /\ r[t][n + 1] = f
        /\ \A i \in 1..n : r[t][i] = s[t][i]
    BY <1>2, <1>3, <1>4
  <1>6. FramesKept(r)
    <2>1. ASSUME NEW u \in Threads, NEW i \in 1..Len(r[u]) PROVE KeptFrame(r[u][i])
      <3>1. CASE u = t /\ i = n + 1
        BY <1>5, <3>1
      <3>2. CASE u = t /\ i # n + 1
        <4>1. i \in 1..n
          BY <1>5, <2>1, <3>2
        <4> QED
          BY <1>3, <1>4, <1>5, <3>2, <4>1 DEF FramesKept
      <3>3. CASE u # t
        BY <1>2, <2>1, <3>3 DEF FramesKept
      <3> QED
        BY <3>1, <3>2, <3>3
    <2> QED
      BY <2>1 DEF FramesKept
  <1>7. ASSUME NEW u \in Threads, a[u] # NoWord PROVE Linkage(r[u], a[u], o[u])
    <2>1. Linkage(s[u], a[u], o[u])
      BY <1>7 DEF LinksOK
    <2>2. CASE u # t
      BY <1>2, <2>1, <2>2
    <2>3. CASE u = t
      <3>1. PICK e : e = o[t]
        OBVIOUS
      <3>2. /\ e \in 1..n /\ s[t][e].pc \in Asleep /\ s[t][e].w = a[t] /\ ~s[t][e].got
            /\ \A i \in 1..n : e < i => s[t][i].pc \notin Asleep
        BY <1>3, <1>4, <2>1, <2>3, <3>1 DEF Linkage
      <3>3. e \in 1..n + 1 /\ r[t][e].pc \in Asleep /\ r[t][e].w = a[t] /\ ~r[t][e].got
        BY <1>4, <1>5, <3>2
      <3>4. ASSUME NEW i \in 1..n + 1, e < i PROVE r[t][i].pc \notin Asleep
        <4>1. CASE i = n + 1
          BY <1>5, <4>1
        <4>2. CASE i # n + 1
          <5>1. i \in 1..n
            BY <1>4, <3>4, <4>2
          <5> QED
            BY <1>5, <3>2, <3>4, <5>1
        <4> QED
          BY <4>1, <4>2
      <3> QED
        BY <1>5, <2>3, <3>1, <3>3, <3>4 DEF Linkage
    <2> QED
      BY <2>2, <2>3
  <1> QED
    BY <1>6, <1>7 DEF LinksOK

\* The frame of a delivery has counted nothing.
LEMMA DeliveryKept ==
  ASSUME NEW t \in Threads, NEW own \in BOOLEAN
  PROVE KeptFrame(Delivery(t, own)) /\ Delivery(t, own).pc \notin Asleep
  <1>1. PICK f : f = Delivery(t, own)
    OBVIOUS
  <1>2. f.pc \in {"park", "check"} /\ f.out = "none" /\ ~f.got /\ ~f.layer
    BY <1>1 DEF Delivery, NoCall
  <1>3. f.pc \in Preparing
    BY <1>2 DEF Preparing
  <1>4. KeptFrame(f) /\ f.pc \notin Asleep
    BY <1>2, <1>3, Ends, Rests DEF KeptFrame
  <1> QED
    BY <1>1, <1>4

\* The kernel enters the thread, or the end of a section delivers.
LEMMA EnterKept ==
  ASSUME KeptInductive, StackOK(stack'), NEW t \in Threads, NEW inside \in BOOLEAN,
         Enter(t, inside) \/ DeliverDeferred(t)
  PROVE Kept'
  <1>1. /\ StackOK(stack) /\ Top(t) \in Proper /\ KeptFrame(Top(t)) /\ LinksOK(stack, addr, owner)
        /\ FramesKept(stack) /\ owner \in [Threads -> Nat]
    BY KeptTop DEF KeptInductive
  <1>2. addr' = addr /\ owner' = owner
    BY DEF Enter, DeliverDeferred, bucketVars
  <1>3. PICK f, g : f = Delivery(t, TRUE) /\ g = Delivery(t, FALSE)
    OBVIOUS
  <1>4. KeptFrame(f) /\ f.pc \notin Asleep /\ KeptFrame(g) /\ g.pc \notin Asleep
    BY <1>3, DeliveryKept
  <1>5. CASE Enter(t, inside)
    <2>1. PICK n : n = Len(stack[t])
      OBVIOUS
    <2>2. n \in 1..Len(stack[t]) /\ Top(t) = stack[t][n]
      BY <1>1, <2>1, TopFacts
    <2>3. PICK h : h = IF Top(t).pc = "receive" /\ inside THEN Received(Top(t), "entry") ELSE Top(t)
      OBVIOUS
    <2>4. h \in Proper /\ h.back = stack[t][n].back
      BY <1>1, <2>2, <2>3, AnswerProper
    <2>5. KeptFrame(h) /\ LinkSame(stack[t][n], h)
      <3>1. CASE h = Top(t)
        BY <1>1, <2>2, <3>1 DEF LinkSame
      <3>2. CASE Top(t).pc = "receive" /\ h = Received(Top(t), "entry")
        <4>1. Top(t).pc \in Asleep
          BY <3>2, Rests
        <4>2. Top(t).w \in Words
          BY <1>1, <4>1, Rests DEF KeptFrame
        <4>3. /\ h.pc \in Asleep /\ h.w = Top(t).w /\ (h.got <=> Top(t).got)
              /\ (h.layer => ~h.dl /\ h.out # "timedout")
          BY <1>1, <3>2, ReceivedFields
        <4>4. h.pc \notin Outside \cup Preparing \cup {"count", "compare"}
          BY <4>3, Rests
        <4> QED
          BY <2>2, <4>1, <4>2, <4>3, <4>4 DEF KeptFrame, LinkSame
      <3> QED
        BY <2>3, <3>1, <3>2
    <2>6. PICK mid : Reframe(stack, mid, t, n, h)
      BY DEF Reframe
    <2>7. StackOK(mid)
      BY <1>1, <2>2, <2>4, <2>6, OneFrame
    <2>8. Unlinking(addr, addr, t)
      BY <1>1 DEF LinksOK, Unlinking
    <2>9. FramesKept(mid) /\ LinksOK(mid, addr, owner)
      BY <1>1, <2>2, <2>5, <2>6, <2>7, <2>8, KeepFrame
    <2>10. stack \in [Threads -> Seq(Proper)]
      BY <1>1 DEF StackOK
    <2>11. mid[t] = Interrupted(t, inside)
      BY <2>1, <2>3, <2>6, <2>10 DEF Reframe, Interrupted
    <2>12. stack' = mid \/ Restack(mid, stack', t, Append(mid[t], f))
      <3>1. PICK q : q = mid[t]
        OBVIOUS
      <3>2. mid = [stack EXCEPT ![t] = q]
        BY <2>6, <2>10, <3>1 DEF Reframe
      <3>3. stack' = [stack EXCEPT ![t] = q] \/ stack' = [stack EXCEPT ![t] = Append(q, f)]
        BY <1>3, <1>5, <2>11, <3>1 DEF Enter
      <3>4. [mid EXCEPT ![t] = Append(q, f)] = [stack EXCEPT ![t] = Append(q, f)]
        BY <2>10, <3>2
      <3> QED
        BY <3>1, <3>2, <3>3, <3>4 DEF Restack
    <2>13. CASE stack' = mid
      BY <1>1, <1>2, <2>9, <2>13 DEF Kept
    <2>14. CASE Restack(mid, stack', t, Append(mid[t], f))
      <3>1. FramesKept(stack') /\ LinksOK(stack', addr, owner)
        BY <1>4, <2>7, <2>9, <2>14, PushKept
      <3> QED
        BY <1>1, <1>2, <3>1 DEF Kept
    <2> QED
      BY <2>12, <2>13, <2>14
  <1>6. CASE DeliverDeferred(t)
    <2>1. Restack(stack, stack', t, Append(stack[t], g))
      BY <1>3, <1>6 DEF DeliverDeferred, Restack
    <2>2. FramesKept(stack') /\ LinksOK(stack', addr, owner)
      BY <1>1, <1>4, <2>1, PushKept
    <2> QED
      BY <1>1, <1>2, <2>2 DEF Kept
  <1> QED
    BY <1>5, <1>6

\* The steps of a delivery up to its handlers, and their return.
LEMMA DeliveryStepKept ==
  ASSUME KeptInductive, StackOK(stack'), NEW t \in Threads, park(t) \/ Check(t) \/ Take(t) \/ Return(t)
  PROVE Kept'
  <1>1. Top(t) \in Frame /\ KeptFrame(Top(t)) /\ addr \in [Threads -> Words \cup {NoWord}]
    BY KeptTop DEF LinksOK
  <1>2. Top(t).pc \in Preparing \cup {"handler"} /\ owner' = owner
    BY DEF park, Check, Take, Return, At, Preparing, bucketVars
  <1>3. Top(t).pc \in Outside \cup Preparing /\ Top(t).pc \notin Asleep
    BY <1>2, Rests DEF Outside
  <1>4. ASSUME NEW f, f.pc \in {"check", "take", "handler"}, f.out = Top(t).out, f.got <=> Top(t).got,
               f.layer <=> Top(t).layer, f.dl <=> Top(t).dl, SetTop(t, f), Unlinks(t)
        PROVE Kept'
    <2>1. f.pc \in Outside \cup Preparing
      BY <1>4 DEF Outside, Preparing
    <2>2. f.pc \notin Asleep /\ f.pc \notin Waiting \cup Waking \cup {"count", "compare"}
      BY <2>1, Ends, Rests
    <2>3. KeptFrame(f)
      BY <1>1, <1>3, <1>4, <2>2 DEF KeptFrame
    <2>4. LinkSame(Top(t), f)
      BY <1>3, <2>2 DEF LinkSame
    <2> QED
      BY <1>4, <2>3, <2>4, KeepTop
  <1>5. CASE park(t) \/ Take(t)
    <2>1. PICK pc \in {"check", "handler"} : Goto(t, pc) /\ addr' = addr
      BY <1>5 DEF park, Take, bucketVars
    <2>2. PICK f : f = [Top(t) EXCEPT !.pc = pc]
      OBVIOUS
    <2>3. /\ f.pc = pc /\ f.out = Top(t).out
          /\ (f.got <=> Top(t).got) /\ (f.layer <=> Top(t).layer) /\ (f.dl <=> Top(t).dl)
      BY <1>1, <2>2, PcFields
    <2>4. SetTop(t, f)
      BY <2>1, <2>2 DEF Goto
    <2>5. Unlinks(t)
      BY <1>1, <1>2, <2>1 DEF Unlinks, Unlinking
    <2> QED
      BY <1>4, <2>3, <2>4, <2>5
  <1>6. CASE Check(t)
    <2>1. PICK e \in BOOLEAN : e = (pending[t] /\ waiting[t])
      OBVIOUS
    <2>2. PICK f : f = [Top(t) EXCEPT !.pc = "take", !.ended = e]
      OBVIOUS
    <2>3. f.pc = "take" /\ f.out = Top(t).out
      BY <1>1, <2>2 DEF Frame
    <2>4. (f.got <=> Top(t).got) /\ (f.layer <=> Top(t).layer) /\ (f.dl <=> Top(t).dl)
      BY <1>1, <2>2 DEF Frame
    <2>5. SetTop(t, f)
      BY <1>6, <2>1, <2>2 DEF Check
    <2>6. Unlinks(t)
      <3>1. addr' = addr \/ remove(t)
        BY <1>6 DEF Check, abandon
      <3>2. CASE addr' = addr
        BY <1>1, <1>2, <3>2 DEF Unlinks, Unlinking
      <3> QED
        BY <1>2, <3>1, <3>2, RemoveUnlinks
    <2> QED
      BY <1>4, <2>3, <2>4, <2>5, <2>6
  <1>7. CASE Return(t)
    <2>1. PICK f : f = [NoCall("handler") EXCEPT !.pc = "take", !.ended = Top(t).ended,
                                                !.native = Top(t).native]
      OBVIOUS
    <2>2. f.pc = "take" /\ f.out = "none" /\ ~f.got /\ ~f.layer
      BY <2>1 DEF NoCall
    <2>3. f.pc \in Preparing
      BY <2>2 DEF Preparing
    <2>4. KeptFrame(f) /\ f.pc \notin Asleep
      BY <2>2, <2>3, Ends, Rests DEF KeptFrame
    <2>5. SetTop(t, f) /\ addr' = addr
      BY <1>7, <2>1 DEF Return, bucketVars
    <2> QED
      BY <1>2, <1>3, <2>4, <2>5, KeepAwake
  <1> QED
    BY <1>5, <1>6, <1>7

\* The delivery ends; its frame was not one that slept.
LEMMA ResumeKept ==
  ASSUME KeptInductive, StackOK(stack'), NEW t \in Threads, resume_wait(t)
  PROVE Kept'
  <1>1. /\ StackOK(stack) /\ LinksOK(stack, addr, owner) /\ FramesKept(stack)
        /\ owner \in [Threads -> Nat] /\ addr' = addr /\ owner' = owner
    BY KeptTop DEF KeptInductive, resume_wait, bucketVars
  <1>2. stack \in [Threads -> Seq(Proper)] /\ stack' \in [Threads -> Seq(Proper)]
    BY <1>1 DEF StackOK
  <1>3. PICK p \in Seq(Proper) : p = stack[t]
    BY <1>2
  <1>4. PICK n \in Nat : n = Len(p) /\ n >= 1 /\ Top(t) = stack[t][n]
    BY <1>1, <1>3, TopFacts
  <1>5. stack'[t] = Front(p) /\ \A u \in Threads \ {t} : stack'[u] = stack[u]
    BY <1>2, <1>3 DEF resume_wait
  <1>6. Len(stack'[t]) = n - 1 /\ \A i \in 1..n - 1 : stack'[t][i] = stack[t][i]
    <2>1. PICK q : q = Front(p)
      OBVIOUS
    <2>2. Len(q) = n - 1 /\ \A i \in 1..n - 1 : q[i] = p[i]
      BY <1>3, <1>4, <2>1 DEF Front
    <2> QED
      BY <1>3, <1>5, <2>1, <2>2
  <1>7. \A i \in 1..n - 1 : i \in 1..n
    BY <1>4
  <1>8. FramesKept(stack')
    <2>1. ASSUME NEW u \in Threads, NEW i \in 1..Len(stack'[u]) PROVE KeptFrame(stack'[u][i])
      <3>1. CASE u = t
        BY <1>1, <1>3, <1>4, <1>6, <1>7, <2>1, <3>1 DEF FramesKept
      <3>2. CASE u # t
        BY <1>1, <1>5, <2>1, <3>2 DEF FramesKept
      <3> QED
        BY <3>1, <3>2
    <2> QED
      BY <2>1 DEF FramesKept
  <1>9. ASSUME NEW u \in Threads, addr[u] # NoWord PROVE Linkage(stack'[u], addr[u], owner[u])
    <2>1. Linkage(stack[u], addr[u], owner[u])
      BY <1>1, <1>9 DEF LinksOK
    <2>2. CASE u # t
      BY <1>5, <2>1, <2>2
    <2>3. CASE u = t
      <3>1. PICK e : e = owner[t]
        OBVIOUS
      <3>2. /\ e \in 1..n /\ stack[t][e].pc \in Asleep /\ stack[t][e].w = addr[t] /\ ~stack[t][e].got
            /\ \A i \in 1..n : e < i => stack[t][i].pc \notin Asleep
        BY <1>3, <1>4, <2>1, <2>3, <3>1 DEF Linkage
      <3>3. stack[t][n].pc \notin Asleep
        BY <1>4, Rests DEF resume_wait, At, Preparing
      <3>4. e \in 1..n - 1
        <4>1. e # n
          BY <3>2, <3>3
        <4> QED
          BY <1>4, <3>2, <4>1
      <3> QED
        BY <1>6, <1>7, <2>3, <3>1, <3>2, <3>4 DEF Linkage
    <2> QED
      BY <2>2, <2>3
  <1> QED
    BY <1>1, <1>8, <1>9 DEF Kept, LinksOK

\* The first state: no call, no node.
LEMMA KeptInit == Init => KeptInductive
  <1> SUFFICES ASSUME Init PROVE KeptInductive
    OBVIOUS
  <1>1. LayerInductive
    BY LayerInit
  <1>2. PICK f : f = NoCall("program")
    OBVIOUS
  <1>3. f.pc = "program" /\ f.out = "none" /\ ~f.got /\ ~f.layer
    BY <1>2 DEF NoCall
  <1>4. KeptFrame(f)
    BY <1>3, Ends DEF KeptFrame, Outside
  <1>5. \A t \in Threads : stack[t] = <<f>>
    BY <1>2 DEF Init
  <1>6. FramesKept(stack)
    <2>1. ASSUME NEW t \in Threads, NEW i \in 1..Len(stack[t]) PROVE stack[t][i] = f
      BY <1>5, <2>1
    <2> QED
      BY <1>4, <2>1 DEF FramesKept
  <1>7. addr = [t \in Threads |-> NoWord] /\ owner = [t \in Threads |-> 0]
    BY DEF Init
  <1>8. LinksOK(stack, addr, owner) /\ owner \in [Threads -> Nat]
    BY <1>7 DEF LinksOK
  <1> QED
    BY <1>1, <1>6, <1>8 DEF KeptInductive

\* Every step keeps the invariant.
LEMMA KeptStep == KeptInductive /\ [Next]_vars => KeptInductive'
  <1> SUFFICES ASSUME KeptInductive, [Next]_vars PROVE KeptInductive'
    OBVIOUS
  <1>1. LayerInductive'
    BY LayerStep DEF KeptInductive
  <1>2. StackOK(stack')
    BY <1>1 DEF LayerInductive
  <1>3. Kept'
    <2>1. CASE UNCHANGED vars
      BY <2>1, KeepAll DEF vars, bucketVars
    <2>2. ASSUME NEW t \in Threads, Step(t) PROVE Kept'
      <3>1. ASSUME NEW inside \in BOOLEAN, Enter(t, inside) PROVE Kept'
        BY <1>2, <3>1, EnterKept
      <3>2. CASE DeliverDeferred(t)
        <4>1. PICK inside \in BOOLEAN : TRUE
          OBVIOUS
        <4> QED
          BY <1>2, <3>2, <4>1, EnterKept
      <3> QED
        BY <1>2, <2>2, <3>1, <3>2, WaitKept, WakeKept, WakeOneKept, LockKept, DeliveryStepKept, ResumeKept
           DEF Step
    <2>3. ASSUME NEW t \in Threads, Outer(t) PROVE Kept'
      BY <2>3, KeepAll DEF Outer, Kill, Stop, Cancel, bucketVars
    <2>4. ASSUME NEW t \in Threads, Call(t) PROVE Kept'
      BY <1>2, <2>4, CallKept
    <2>5. ASSUME NEW t \in Threads, NEW d \in 1..MaxDepth, Pass(t, d) PROVE Kept'
      BY <1>2, <2>5, PassKept
    <2> QED
      BY <2>1, <2>2, <2>3, <2>4, <2>5 DEF Next
  <1> QED
    BY <1>1, <1>3 DEF Kept, KeptInductive

\* The invariant of the counts and the links, over any nesting of handlers and
\* any number of signals.
THEOREM CountInvariance == Spec => []KeptInductive
  BY KeptInit, KeptStep, PTL DEF Spec

\* A wake that counted a thread is never answered as a timeout (WakeIsKept),
\* although a deadline may pass at any point of it and a handler may wait with
\* the node of the wait it interrupted (futex_wait, 578-588).
THEOREM CountedIsWoken == Spec => []WakeIsKept
  <1>1. ASSUME KeptInductive PROVE WakeIsKept
    <2>1. ASSUME NEW x \in Frames, FrameAt(x).pc \in Outside, FrameAt(x).got
          PROVE FrameAt(x).out # "timedout"
      <3>1. PICK t \in Threads : \E i \in 1..Len(stack[t]) : x = <<t, i>>
        BY DEF Frames
      <3>2. PICK i \in 1..Len(stack[t]) : x = <<t, i>>
        BY <3>1
      <3>3. FrameAt(x) = stack[t][i]
        BY <3>2 DEF FrameAt
      <3>4. KeptFrame(stack[t][i])
        BY <1>1 DEF KeptInductive, FramesKept
      <3> QED
        BY <2>1, <3>3, <3>4 DEF KeptFrame
    <2> QED
      BY <2>1 DEF WakeIsKept
  <1> QED
    BY <1>1, CountInvariance, PTL

=============================================================================
