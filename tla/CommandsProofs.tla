--------------------------- MODULE CommandsProofs ---------------------------
(***************************************************************************)
(* Proofs about Commands, for any CPUs, threads and size of a batch: a     *)
(* thread stands in the queues once at most and is kept until its CPU took *)
(* it, no command is left where nobody will look, and no woken thread runs *)
(* before its message is copied.                                           *)
(***************************************************************************)
EXTENDS Commands, FiniteSetTheorems, SequenceTheorems, TLAPS

-----------------------------------------------------------------------------
(* Sequences as the sets of what stands in them.                           *)

Elems(s) == {s[i] : i \in 1..Len(s)}
Distinct(s) == \A i, j \in 1..Len(s) : s[i] = s[j] => i = j

-----------------------------------------------------------------------------
(* The inductive invariant.                                                *)

\* The thread is in the outbox of `c`, or in the queue from `d` to `c`.
InBox(c, t) == t \in Elems(outbox[c])
InRing(c, d, t) == t \in Elems(rings[c][d])

\* Nothing stands twice in an outbox or in a queue.
Singly == \A c \in CPUs : Distinct(outbox[c]) /\ \A d \in CPUs : Distinct(rings[c][d])

\* A thread of an outbox has commands, is of another CPU and is nowhere else.
Boxed ==
    \A t \in Threads, c \in CPUs : InBox(c, t) =>
        /\ cmds[t] # {} /\ Home[t] # c
        /\ \A d \in CPUs : InBox(d, t) => d = c
        /\ \A d, e \in CPUs : ~InRing(d, e, t)

\* A thread of a queue has commands, the queue leads to its CPU from another,
\* and it is in no other queue.
Ringed ==
    \A t \in Threads, c, d \in CPUs : InRing(c, d, t) =>
        /\ cmds[t] # {} /\ Home[t] = c /\ d # c
        /\ \A e \in CPUs : InRing(c, e, t) => e = d

\* A thread with commands is somewhere.
Placed ==
    \A t \in Threads : cmds[t] # {} => \E c \in CPUs : InBox(c, t) \/ InRing(Home[t], c, t)

Queues == Singly /\ Boxed /\ Ringed /\ Placed

\* The batch of `c` holds the thread, and holds it with a flag.
InBatch(c, t) == \E e \in Elems(batch[c]) : e[1] = t
HasFlag(c, t, flag) == \E e \in Elems(batch[c]) : e[1] = t /\ flag \in e[2]

\* Only drain has a batch, of threads of its CPU.
Batches ==
    \A c \in CPUs :
        /\ pc[c] \notin {"take", "took", "serve"} => batch[c] = <<>>
        /\ \A t \in Threads : InBatch(c, t) => Home[t] = c

\* An EXIT on its way is the last command of its thread, and the reference
\* goes when nothing names the thread.
Ends ==
    \A t \in Threads :
        /\ "EXIT" \in cmds[t] => ~IsHeld(t)
        /\ \A c \in CPUs : HasFlag(c, t, "EXIT") => ~IsHeld(t) /\ cmds[t] = {}
        /\ ref[t] = "gone" => ~IsHeld(t) /\ cmds[t] = {} /\ \A c \in CPUs : ~InBatch(c, t)

\* A WAKE on its way is of a thread that was woken, and is the only one.
Woken ==
    \A t \in Threads :
        /\ "WAKE" \in cmds[t] => life[t] \in {"woken", "ended", "dead"}
        /\ \A c \in CPUs : HasFlag(c, t, "WAKE") =>
            life[t] \in {"woken", "ended", "dead"} /\ "WAKE" \notin cmds[t]

\* A copy is made by a CPU in the middle of it, for a thread of its own or for
\* one that was woken and does not run yet.
Copying ==
    \A t \in Threads, c \in CPUs : copier[c] = t =>
        pc[c] = "copy" /\ (Home[t] = c \/ life[t] \in {"woken", "ended", "dead"})

\* Nobody copies to a thread that a batch about to be served wakes.
Waited ==
    \A t \in Threads, c, d \in CPUs :
        pc[c] = "serve" /\ HasFlag(c, t, "WAKE") => copier[d] # t

Copies == Woken /\ Copying /\ Waited

\* The word of a CPU says that it polls exactly while it does.
Polls == \A c \in CPUs : "POLLING" \in word[c] <=> pc[c] \in {"poll", "unpoll", "quiet"}

CommandsInductive ==
    TypeOK /\ Queues /\ Batches /\ Ends /\ Copies /\ Polls /\ Rung

-----------------------------------------------------------------------------
(* Lemmas about sequences.                                                 *)

\* Nothing stands in the empty sequence, and in no other.
LEMMA ElemsEmpty ==
  ASSUME NEW S, NEW s \in Seq(S)
  PROVE /\ s = <<>> <=> Elems(s) = {}
        /\ Elems(s) \subseteq S
  <1>1. Len(s) \in Nat /\ \A i \in 1..Len(s) : s[i] \in S
    OBVIOUS
  <1>2. CASE s = <<>>
    BY <1>2 DEF Elems
  <1>3. CASE s # <<>>
    <2>1. s[1] \in Elems(s)
      BY <1>1, <1>3, EmptySeq DEF Elems
    <2> QED
      BY <1>1, <1>3, <2>1 DEF Elems
  <1> QED
    BY <1>2, <1>3

\* What Append adds.
LEMMA ElemsAppend ==
  ASSUME NEW S, NEW s \in Seq(S), NEW x \in S
  PROVE /\ Elems(Append(s, x)) = Elems(s) \union {x}
        /\ Distinct(s) /\ x \notin Elems(s) => Distinct(Append(s, x))
        /\ Append(s, x) \in Seq(S) /\ Append(s, x) # <<>> /\ Len(Append(s, x)) = Len(s) + 1
  <1>1. /\ Append(s, x) \in Seq(S) /\ Append(s, x) # <<>> /\ Len(Append(s, x)) = Len(s) + 1
        /\ \A i \in 1..Len(s) : Append(s, x)[i] = s[i]
        /\ Append(s, x)[Len(s) + 1] = x /\ Len(s) \in Nat
    BY AppendProperties
  <1> DEFINE r == Append(s, x)
  <1> HIDE DEF r
  <1>2. Elems(r) = Elems(s) \union {x}
    BY <1>1 DEF Elems, r
  <1>3. ASSUME Distinct(s), x \notin Elems(s) PROVE Distinct(r)
    BY <1>1, <1>3 DEF Distinct, Elems, r
  <1> QED
    BY <1>1, <1>2, <1>3 DEF r

\* What Tail leaves.
LEMMA ElemsTail ==
  ASSUME NEW S, NEW s \in Seq(S), s # <<>>, Distinct(s)
  PROVE /\ Head(s) \in S /\ Head(s) \in Elems(s)
        /\ Elems(Tail(s)) = Elems(s) \ {Head(s)}
        /\ Distinct(Tail(s)) /\ Tail(s) \in Seq(S)
  <1>1. /\ Head(s) \in S /\ Tail(s) \in Seq(S) /\ Len(Tail(s)) = Len(s) - 1
        /\ \A i \in 1..Len(Tail(s)) : Tail(s)[i] = s[i + 1]
        /\ Head(s) = s[1] /\ Len(s) \in Nat \ {0}
    BY HeadTailProperties, EmptySeq, LenProperties
  <1> DEFINE r == Tail(s)
             h == Head(s)
  <1> HIDE DEF r, h
  <1>2. h \in Elems(s)
    BY <1>1 DEF Elems, h
  <1>3. Distinct(r)
    BY <1>1 DEF Distinct, r
  <1>4. ASSUME NEW y \in Elems(r) PROVE y \in Elems(s) \ {h}
    BY <1>1, <1>4 DEF Elems, Distinct, r, h
  <1>5. ASSUME NEW y \in Elems(s), y # h PROVE y \in Elems(r)
    <2>1. PICK i \in 1..Len(s) : s[i] = y
      BY <1>5 DEF Elems
    <2>2. i # 1 /\ i - 1 \in 1..Len(r) /\ r[i - 1] = s[i]
      BY <1>1, <1>5, <2>1 DEF r, h
    <2> QED
      BY <2>1, <2>2 DEF Elems
  <1> QED
    BY <1>1, <1>2, <1>3, <1>4, <1>5 DEF r, h

\* Times says no more than Elems where nothing stands twice.
LEMMA TimesElems ==
  ASSUME NEW S, NEW s \in Seq(S), NEW t, Distinct(s)
  PROVE /\ t \notin Elems(s) => Times(t, s) = 0
        /\ t \in Elems(s) => Times(t, s) = 1
  <1> DEFINE I == {i \in 1..Len(s) : s[i] = t}
  <1>1. ASSUME t \notin Elems(s) PROVE I = {}
    BY <1>1 DEF Elems
  <1>2. ASSUME t \in Elems(s) PROVE \E i \in 1..Len(s) : I = {i}
    BY <1>2 DEF Elems, Distinct
  <1> QED
    BY <1>1, <1>2, FS_EmptySet, FS_Singleton DEF Times

-----------------------------------------------------------------------------
(* The steps of the queues.                                                *)

\* A step that leaves outboxes, queues and flags alone.
LEMMA QueuesSame ==
  ASSUME Queues, UNCHANGED <<cmds, outbox, rings>>
  PROVE Queues'
  BY DEF Queues, Singly, Boxed, Ringed, Placed, InBox, InRing

\* post: the first flag of a thread of another CPU puts it into the outbox.
LEMMA QueuesPost ==
  ASSUME TypeOK, Queues, NEW c \in CPUs, NEW t \in Threads, NEW flag \in {"WAKE", "LEVEL", "EXIT"},
         Post(c, t, flag), Home[t] # c \/ cmds[t] # {}, UNCHANGED rings
  PROVE /\ Queues' /\ cmds' \in [Threads -> Flags] /\ outbox' \in [CPUs -> Seq(Threads)]
        /\ cmds' = [cmds EXCEPT ![t] = cmds[t] \union {flag}]
  <1>0. /\ cmds \in [Threads -> Flags] /\ outbox \in [CPUs -> Seq(Threads)]
        /\ rings \in [CPUs -> [CPUs -> Seq(Threads)]] /\ Home \in [Threads -> CPUs]
    BY HomeAssumption DEF TypeOK
  <1>1. cmds' = [cmds EXCEPT ![t] = cmds[t] \union {flag}] /\ cmds' \in [Threads -> Flags]
    BY <1>0 DEF Post, Flags
  <1>2. CASE cmds[t] # {}
    <2>1. outbox' = outbox
      BY <1>0, <1>2 DEF Post
    <2>2. \A x \in Threads : cmds'[x] # {} <=> cmds[x] # {}
      BY <1>0, <1>1, <1>2
    <2> QED
      BY <1>0, <1>1, <2>1, <2>2 DEF Queues, Singly, Boxed, Ringed, Placed, InBox, InRing
  <1>3. CASE cmds[t] = {}
    <2>1. /\ outbox' = [outbox EXCEPT ![c] = Append(outbox[c], t)] /\ Home[t] # c
          /\ outbox' \in [CPUs -> Seq(Threads)]
      BY <1>0, <1>3, ElemsAppend DEF Post
    <2>2. \A d \in CPUs : ~InBox(d, t) /\ \A e \in CPUs : ~InRing(d, e, t)
      BY <1>0, <1>3 DEF Queues, Boxed, Ringed
    <2>3. \A d \in CPUs : \A x \in Threads : InBox(d, x)' <=> InBox(d, x) \/ (d = c /\ x = t)
      <3>1. Elems(Append(outbox[c], t)) = Elems(outbox[c]) \union {t}
        BY <1>0, ElemsAppend
      <3>2. ASSUME NEW d \in CPUs, NEW x \in Threads PROVE InBox(d, x)' <=> InBox(d, x) \/ (d = c /\ x = t)
        BY <1>0, <2>1, <3>1 DEF InBox
      <3> QED
        BY <3>2
    <2>4. \A d, e \in CPUs : \A x \in Threads : InRing(d, e, x)' <=> InRing(d, e, x)
      BY <1>0 DEF InRing
    <2>5. \A d \in CPUs : Distinct(outbox'[d]) /\ \A e \in CPUs : Distinct(rings'[d][e])
      <3>1. Distinct(Append(outbox[c], t))
        BY <1>0, <2>2, ElemsAppend DEF Queues, Singly, InBox
      <3> QED
        BY <2>1, <3>1 DEF Queues, Singly
    <2>6. \A x \in Threads : cmds'[x] # {} <=> (cmds[x] # {} \/ x = t)
      BY <1>0, <1>1
    <2>7. Queues'
      <3>1. Singly'
        BY <1>0, <2>5 DEF Singly
      <3>2. Boxed'
        <4> SUFFICES ASSUME NEW x \in Threads, NEW a \in CPUs, InBox(a, x)'
                     PROVE /\ cmds'[x] # {} /\ Home[x] # a
                           /\ \A b \in CPUs : InBox(b, x)' => b = a
                           /\ \A b, e \in CPUs : ~InRing(b, e, x)'
          BY DEF Boxed
        <4>1. cmds'[x] # {} /\ Home[x] # a
          BY <1>0, <2>1, <2>2, <2>3, <2>4, <2>6 DEF Queues, Boxed, Ringed
        <4>2. ASSUME NEW b \in CPUs, InBox(b, x)' PROVE b = a
          <5>1. CASE x = t
            BY <1>0, <2>1, <2>2, <2>3, <2>4, <2>6, <4>2, <5>1 DEF Queues, Boxed, Ringed
          <5>2. CASE x # t
            BY <1>0, <2>1, <2>2, <2>3, <2>4, <2>6, <4>2, <5>2 DEF Queues, Boxed, Ringed
          <5> QED
            BY <5>1, <5>2
        <4>3. ASSUME NEW b \in CPUs, NEW e \in CPUs PROVE ~InRing(b, e, x)'
          <5>1. CASE x = t
            BY <1>0, <2>1, <2>2, <2>3, <2>4, <2>6, <5>1 DEF Queues, Boxed, Ringed
          <5>2. CASE x # t
            BY <1>0, <2>1, <2>2, <2>3, <2>4, <2>6, <5>2 DEF Queues, Boxed, Ringed
          <5> QED
            BY <5>1, <5>2
        <4> QED
          BY <4>1, <4>2, <4>3
      <3>3. Ringed'
        <4> SUFFICES ASSUME NEW x \in Threads, NEW a \in CPUs, NEW b \in CPUs, InRing(a, b, x)'
                     PROVE /\ cmds'[x] # {} /\ Home[x] = a /\ b # a
                           /\ \A e \in CPUs : InRing(a, e, x)' => e = b
          BY DEF Ringed
        <4>1. cmds'[x] # {} /\ Home[x] = a /\ b # a
          BY <1>0, <2>2, <2>4, <2>6 DEF Queues, Ringed
        <4>2. ASSUME NEW e \in CPUs, InRing(a, e, x)' PROVE e = b
          BY <1>0, <2>2, <2>4, <2>6, <4>2 DEF Queues, Ringed
        <4> QED
          BY <4>1, <4>2
      <3>4. Placed'
        BY <1>0, <2>1, <2>3, <2>4, <2>6 DEF Queues, Placed
      <3> QED
        BY <3>1, <3>2, <3>3, <3>4 DEF Queues
    <2> QED
      BY <1>1, <2>1, <2>7
  <1> QED
    BY <1>2, <1>3

\* flush moves the head of the outbox into the queue to its CPU.
LEMMA QueuesPush ==
  ASSUME TypeOK, Queues, NEW c \in CPUs, Push(c)
  PROVE /\ Queues' /\ outbox' \in [CPUs -> Seq(Threads)] /\ rings' \in [CPUs -> [CPUs -> Seq(Threads)]]
        /\ Head(outbox[c]) \in Threads
        /\ \A d, e \in CPUs : rings'[d][e] = rings[d][e] \/ d = Home[Head(outbox[c])]
  <1> DEFINE t == Head(outbox[c])
             h == Home[t]
  <1>0. /\ cmds \in [Threads -> Flags] /\ outbox \in [CPUs -> Seq(Threads)]
        /\ rings \in [CPUs -> [CPUs -> Seq(Threads)]] /\ Home \in [Threads -> CPUs]
    BY HomeAssumption DEF TypeOK
  <1>1. /\ t \in Threads /\ InBox(c, t) /\ outbox' = [outbox EXCEPT ![c] = Tail(outbox[c])]
        /\ Tail(outbox[c]) \in Seq(Threads) /\ Distinct(Tail(outbox[c]))
        /\ Elems(Tail(outbox[c])) = Elems(outbox[c]) \ {t}
    BY <1>0, ElemsTail DEF Push, Queues, Singly, InBox
  <1>2. /\ h \in CPUs
        /\ rings' = [rings EXCEPT ![h] = [rings[h] EXCEPT ![c] = Append(rings[h][c], t)]]
    BY <1>0, <1>1 DEF Push
  <1> HIDE DEF t, h
  <1>3. /\ Append(rings[h][c], t) \in Seq(Threads)
        /\ Elems(Append(rings[h][c], t)) = Elems(rings[h][c]) \union {t}
        /\ Distinct(Append(rings[h][c], t))
    <2>1. rings[h][c] \in Seq(Threads)
      BY <1>0, <1>1, <1>2
    <2>2. Distinct(rings[h][c])
      BY <1>0, <1>1, <1>2 DEF Queues, Singly
    <2>3. ~InRing(h, c, t)
      BY <1>0, <1>1, <1>2 DEF Queues, Boxed
    <2> QED
      BY <1>1, <2>1, <2>2, <2>3, ElemsAppend, Zenon DEF InRing
  <1>4. outbox' \in [CPUs -> Seq(Threads)] /\ rings' \in [CPUs -> [CPUs -> Seq(Threads)]]
    BY <1>0, <1>1, <1>2, <1>3
  <1>5. \A d \in CPUs : \A x \in Threads : InBox(d, x)' <=> InBox(d, x) /\ ~(d = c /\ x = t)
    BY <1>0, <1>1 DEF InBox
  <1>6. \A d, e \in CPUs : \A x \in Threads :
            InRing(d, e, x)' <=> InRing(d, e, x) \/ (d = h /\ e = c /\ x = t)
    BY <1>0, <1>2, <1>3 DEF InRing
  <1>7. \A d \in CPUs : Distinct(outbox'[d]) /\ \A e \in CPUs : Distinct(rings'[d][e])
    BY <1>0, <1>1, <1>2, <1>3 DEF Queues, Singly
  <1>8. cmds' = cmds /\ h = Home[t]
    BY <1>0 DEF Push, h
  <1>9. Queues'
    <2>1. Singly'
      BY <1>0, <1>7 DEF Singly
    <2>2. Boxed'
      <3> SUFFICES ASSUME NEW x \in Threads, NEW a \in CPUs, InBox(a, x)'
                   PROVE /\ cmds'[x] # {} /\ Home[x] # a
                         /\ \A b \in CPUs : InBox(b, x)' => b = a
                         /\ \A b, e \in CPUs : ~InRing(b, e, x)'
        BY DEF Boxed
      <3>1. cmds'[x] # {} /\ Home[x] # a
        <4>1. CASE x = t
          BY <1>0, <1>1, <1>5, <1>6, <1>8, <4>1 DEF Queues, Boxed
        <4>2. CASE x # t
          BY <1>0, <1>1, <1>5, <1>6, <1>8, <4>2 DEF Queues, Boxed
        <4> QED
          BY <4>1, <4>2
      <3>2. ASSUME NEW b \in CPUs, InBox(b, x)' PROVE b = a
        BY <1>0, <1>1, <1>5, <1>6, <1>8, <3>2 DEF Queues, Boxed
      <3>3. ASSUME NEW b \in CPUs, NEW e \in CPUs PROVE ~InRing(b, e, x)'
        BY <1>0, <1>1, <1>5, <1>6, <1>8 DEF Queues, Boxed
      <3> QED
        BY <3>1, <3>2, <3>3
    <2>3. Ringed'
      <3> SUFFICES ASSUME NEW x \in Threads, NEW a \in CPUs, NEW b \in CPUs, InRing(a, b, x)'
                   PROVE /\ cmds'[x] # {} /\ Home[x] = a /\ b # a
                         /\ \A e \in CPUs : InRing(a, e, x)' => e = b
        BY DEF Ringed
      <3>1. cmds'[x] # {} /\ Home[x] = a /\ b # a
        <4>1. CASE x = t
          BY <1>0, <1>1, <1>6, <1>8, <4>1 DEF Queues, Ringed, Boxed
        <4>2. CASE x # t
          BY <1>0, <1>1, <1>6, <1>8, <4>2 DEF Queues, Ringed, Boxed
        <4> QED
          BY <4>1, <4>2
      <3>2. ASSUME NEW e \in CPUs, InRing(a, e, x)' PROVE e = b
        <4>1. CASE x = t
          BY <1>0, <1>1, <1>6, <1>8, <3>2, <4>1 DEF Queues, Ringed, Boxed
        <4>2. CASE x # t
          BY <1>0, <1>1, <1>6, <1>8, <3>2, <4>2 DEF Queues, Ringed, Boxed
        <4> QED
          BY <4>1, <4>2
      <3> QED
        BY <3>1, <3>2
    <2>4. Placed'
      BY <1>0, <1>1, <1>2, <1>5, <1>6, <1>8 DEF Queues, Placed
    <2> QED
      BY <2>1, <2>2, <2>3, <2>4 DEF Queues
  <1>10. \A d, e \in CPUs : rings'[d][e] = rings[d][e] \/ d = h
    BY <1>0, <1>2
  <1> QED
    BY <1>1, <1>4, <1>9, <1>10 DEF t, h

\* take_batch takes the head of a queue, with its flags.
LEMMA QueuesLook ==
  ASSUME TypeOK, Queues, NEW c \in CPUs, NEW d \in CPUs, Look(c, d), rings[c][d] # <<>>,
         NEW t, t = Head(rings[c][d])
  PROVE /\ Queues' /\ t \in Threads /\ Home[t] = c /\ cmds[t] # {}
        /\ cmds' = [cmds EXCEPT ![t] = {}] /\ cmds' \in [Threads -> Flags]
        /\ rings' \in [CPUs -> [CPUs -> Seq(Threads)]]
  <1>0. /\ cmds \in [Threads -> Flags] /\ outbox \in [CPUs -> Seq(Threads)]
        /\ rings \in [CPUs -> [CPUs -> Seq(Threads)]] /\ Home \in [Threads -> CPUs]
    BY HomeAssumption DEF TypeOK
  <1>1. /\ t \in Threads /\ InRing(c, d, t)
        /\ Tail(rings[c][d]) \in Seq(Threads) /\ Distinct(Tail(rings[c][d]))
        /\ Elems(Tail(rings[c][d])) = Elems(rings[c][d]) \ {t}
    <2>1. rings[c][d] \in Seq(Threads) /\ Distinct(rings[c][d])
      BY <1>0 DEF Queues, Singly
    <2> QED
      BY <1>0, <2>1, ElemsTail DEF InRing
  <1>2. /\ rings' = [rings EXCEPT ![c] = [rings[c] EXCEPT ![d] = Tail(rings[c][d])]]
        /\ cmds' = [cmds EXCEPT ![t] = {}] /\ outbox' = outbox
    BY <1>0 DEF Look, send
  <1>3. rings' \in [CPUs -> [CPUs -> Seq(Threads)]]
    BY <1>0, <1>1, <1>2
  <1>4. cmds' \in [Threads -> Flags]
    BY <1>0, <1>2 DEF Flags
  <1>5. \A e \in CPUs : \A x \in Threads : InBox(e, x)' <=> InBox(e, x)
    BY <1>0, <1>2 DEF InBox
  <1>6. \A e, f \in CPUs : \A x \in Threads :
            InRing(e, f, x)' <=> InRing(e, f, x) /\ ~(e = c /\ f = d /\ x = t)
    BY <1>0, <1>1, <1>2 DEF InRing
  <1>7. \A e \in CPUs : Distinct(outbox'[e]) /\ \A f \in CPUs : Distinct(rings'[e][f])
    BY <1>0, <1>1, <1>2 DEF Queues, Singly
  <1>8. Home[t] = c /\ cmds[t] # {}
    BY <1>0, <1>1 DEF Queues, Ringed
  <1>9. Queues'
    <2>1. Singly'
      BY <1>0, <1>7 DEF Singly
    <2>2. Boxed'
      <3> SUFFICES ASSUME NEW x \in Threads, NEW a \in CPUs, InBox(a, x)'
                   PROVE /\ cmds'[x] # {} /\ Home[x] # a
                         /\ \A b \in CPUs : InBox(b, x)' => b = a
                         /\ \A b, e \in CPUs : ~InRing(b, e, x)'
        BY DEF Boxed
      <3>1. cmds'[x] # {} /\ Home[x] # a
        <4>1. CASE x = t
          BY <1>1, <1>5, <4>1 DEF Queues, Boxed
        <4>2. CASE x # t
          BY <1>0, <1>1, <1>2, <1>5, <1>6, <4>2 DEF Queues, Boxed
        <4> QED
          BY <4>1, <4>2
      <3>2. ASSUME NEW b \in CPUs, InBox(b, x)' PROVE b = a
        BY <1>0, <1>1, <1>2, <1>5, <1>6, <3>2 DEF Queues, Boxed
      <3>3. ASSUME NEW b \in CPUs, NEW e \in CPUs PROVE ~InRing(b, e, x)'
        BY <1>0, <1>1, <1>2, <1>5, <1>6 DEF Queues, Boxed
      <3> QED
        BY <3>1, <3>2, <3>3
    <2>3. Ringed'
      <3> SUFFICES ASSUME NEW x \in Threads, NEW a \in CPUs, NEW b \in CPUs, InRing(a, b, x)'
                   PROVE /\ cmds'[x] # {} /\ Home[x] = a /\ b # a
                         /\ \A e \in CPUs : InRing(a, e, x)' => e = b
        BY DEF Ringed
      <3>1. cmds'[x] # {} /\ Home[x] = a /\ b # a
        <4>0. x # t
          <5>1. InRing(a, b, x) /\ (x = t => a # c \/ b # d)
            BY <1>6
          <5>2. x = t => a = c /\ b = d
            BY <1>1, <5>1 DEF Queues, Ringed
          <5> QED
            BY <5>1, <5>2
        <4>1. CASE x = t
          BY <4>0, <4>1
        <4>2. CASE x # t
          BY <1>0, <1>1, <1>2, <1>6, <1>8, <4>2 DEF Queues, Ringed
        <4> QED
          BY <4>1, <4>2
      <3>2. ASSUME NEW e \in CPUs, InRing(a, e, x)' PROVE e = b
        <4>0. x # t
          <5>1. InRing(a, b, x) /\ (x = t => a # c \/ b # d)
            BY <1>6
          <5>2. x = t => a = c /\ b = d
            BY <1>1, <5>1 DEF Queues, Ringed
          <5> QED
            BY <5>1, <5>2
        <4>1. CASE x = t
          BY <4>0, <4>1
        <4>2. CASE x # t
          BY <1>0, <1>1, <1>2, <1>6, <1>8, <3>2, <4>2 DEF Queues, Ringed
        <4> QED
          BY <4>1, <4>2
      <3> QED
        BY <3>1, <3>2
    <2>4. Placed'
      BY <1>0, <1>1, <1>2, <1>5, <1>6 DEF Queues, Placed
    <2> QED
      BY <2>1, <2>2, <2>3, <2>4 DEF Queues
  <1> QED
    BY <1>1, <1>2, <1>3, <1>4, <1>8, <1>9

-----------------------------------------------------------------------------
(* Steps that leave most of the state alone.                               *)

\* The CPU goes on to another label and the threads stay as they are.
LEMMA ThreadsSame ==
  ASSUME TypeOK, Ends, Copies, NEW c \in CPUs, NEW l \in Labels, l # "serve", pc[c] # "copy",
         pc' = [pc EXCEPT ![c] = l], UNCHANGED <<cmds, life, ref, copier, batch>>
  PROVE Ends' /\ Copies'
  <1>1. Ends'
    BY DEF Ends, IsHeld, InBatch, HasFlag
  <1>2. \A d \in CPUs, t \in Threads : HasFlag(d, t, "WAKE")' <=> HasFlag(d, t, "WAKE")
    BY DEF HasFlag
  <1>3. /\ pc \in [CPUs -> Labels]
        /\ \A d \in CPUs : /\ pc[d] = "copy" => pc'[d] = "copy"
                           /\ pc'[d] = "serve" => pc[d] = "serve"
    BY DEF TypeOK
  <1>4. Woken'
    BY <1>2 DEF Copies, Woken
  <1>5. Copying'
    BY <1>3 DEF Copies, Copying
  <1>6. Waited'
    BY <1>2, <1>3 DEF Copies, Waited
  <1> QED
    BY <1>1, <1>4, <1>5, <1>6 DEF Copies

\* What Rung says of one CPU.
RungAt(c) ==
    /\ \A d \in CPUs : rings[c][d] # <<>> => Alerted(c) \/ WillSee(c, d)
    /\ reaped[c] > 0 =>
        \/ Alerted(c) \/ pc[c] \in {"take", "took", "serve", "self"}
        \/ \E d \in CPUs : c \in kicks[d]

\* Rung, CPU by CPU.
LEMMA RungEach == Rung <=> \A c \in CPUs : RungAt(c)
  BY DEF Rung, RungAt

\* An alert stays while nobody takes it.
LEMMA AlertedSame ==
  ASSUME TypeOK, NEW c \in CPUs, NEW l \in Labels, NEW x \in CPUs, pc[c] # "sgi",
         pc' = [pc EXCEPT ![c] = l], to' = to,
         x \in sgi => x \in sgi', x \in bell => x \in bell', word'[x] = word[x],
         \A d \in CPUs : x \in mask[d] => x \in mask'[d], Alerted(x)
  PROVE Alerted(x)'
  <1>1. \A d \in CPUs : pc[d] = "sgi" => pc'[d] = "sgi"
    BY DEF TypeOK
  <1> QED
    BY <1>1 DEF Alerted

\* A step of another CPU that takes nothing of what was on its way to `x`.
LEMMA RungOther ==
  ASSUME NEW x \in CPUs, RungAt(x), pc'[x] = pc[x], left'[x] = left[x], batch'[x] = batch[x],
         rings'[x] = rings[x], reaped'[x] = reaped[x], Alerted(x) => Alerted(x)',
         (\E d \in CPUs : x \in kicks[d]) => Alerted(x)' \/ \E d \in CPUs : x \in kicks'[d]
  PROVE RungAt(x)'
  <1>1. \A d \in CPUs : WillSee(x, d) => WillSee(x, d)'
    BY DEF WillSee
  <1> QED
    BY <1>1 DEF RungAt

\* No queue leads from a CPU to itself.
LEMMA OwnRing ==
  ASSUME Queues, TypeOK, NEW c \in CPUs
  PROVE rings[c][c] = <<>>
  <1>1. \A t \in Threads : ~InRing(c, c, t)
    BY DEF Queues, Ringed
  <1>2. rings[c][c] \in Seq(Threads)
    BY DEF TypeOK
  <1> QED
    BY <1>1, <1>2, ElemsEmpty DEF InRing

\* The CPU begins a pass: it will look at every queue to it.
LEMMA RungTake ==
  ASSUME Queues, TypeOK, NEW c \in CPUs, TakeFrom(c), rings' = rings
  PROVE RungAt(c)'
  <1>1. rings[c][c] = <<>>
    BY OwnRing
  <1>2. pc'[c] = "take" /\ left'[c] = CPUs \ {c}
    BY DEF TakeFrom, Go, TypeOK
  <1>3. \A d \in CPUs : d # c => WillSee(c, d)'
    BY <1>2 DEF WillSee
  <1> QED
    BY <1>1, <1>2, <1>3 DEF RungAt

\* The CPU is outside drain, and no alert goes.
LEMMA RungOutside ==
  ASSUME TypeOK, Rung, NEW c \in CPUs, NEW l \in Labels, pc' = [pc EXCEPT ![c] = l],
         pc[c] \notin {"take", "took", "serve", "self", "after"},
         UNCHANGED <<rings, reaped, batch>>, \A x \in CPUs : x # c => left'[x] = left[x],
         \A x \in CPUs : Alerted(x) => Alerted(x)',
         \A x, d \in CPUs : x \in kicks[d] => Alerted(x)' \/ x \in kicks'[d]
  PROVE Rung'
  <1> SUFFICES ASSUME NEW x \in CPUs PROVE RungAt(x)'
    BY RungEach DEF Rung, RungAt
  <1>1. CASE x = c
    <2>1. \A d \in CPUs : ~WillSee(c, d)
      BY DEF WillSee
    <2> QED
      BY <1>1, <2>1, RungEach DEF RungAt
  <1>2. CASE x # c
    BY <1>2, RungEach, RungOther DEF TypeOK
  <1> QED
    BY <1>1, <1>2

\* The CPU goes on outside drain, and nothing that Rung names changes.
LEMMA RungSame ==
  ASSUME TypeOK, Rung, NEW c \in CPUs, NEW l \in Labels, pc' = [pc EXCEPT ![c] = l],
         pc[c] \notin {"sgi", "take", "took", "serve", "self", "after"},
         UNCHANGED <<rings, mask, to, word, sgi, bell, reaped, kicks, batch, left>>
  PROVE Rung'
  <1>1. ASSUME NEW x \in CPUs, Alerted(x) PROVE Alerted(x)'
    BY <1>1, AlertedSame
  <1> QED
    BY <1>1, RungOutside

\* The CPU begins a pass, for an alert of its own.
LEMMA RungTaking ==
  ASSUME TypeOK, Queues, Rung, NEW c \in CPUs, TakeFrom(c), UNCHANGED <<rings, reaped, batch, kicks>>,
         \A x \in CPUs : x # c /\ Alerted(x) => Alerted(x)'
  PROVE Rung'
  <1> SUFFICES ASSUME NEW x \in CPUs PROVE RungAt(x)'
    BY RungEach DEF Rung, RungAt
  <1>1. CASE x = c
    BY <1>1, RungTake
  <1>2. CASE x # c
    <2>1. pc'[x] = pc[x] /\ left'[x] = left[x]
      BY <1>2 DEF TypeOK, TakeFrom, Go
    <2> QED
      BY <1>2, <2>1, RungEach, RungOther
  <1> QED
    BY <1>1, <1>2

\* flush_copy_now: the copy is made.
LEMMA CopyStep ==
  ASSUME CommandsInductive, NEW c \in CPUs, Copy(c)
  PROVE CommandsInductive'
  <1> USE HomeAssumption, BatchAssumption DEF CommandsInductive, thread, send, idle, drain
  <1>0. PICK l \in Labels \ {"serve"} : pc' = [pc EXCEPT ![c] = l]
    BY DEF Copy, Go, TypeOK, Labels
  <1>1. TypeOK'
    BY <1>0 DEF Copy, Go, TypeOK
  <1>2. Queues'
    BY QueuesSame DEF Copy
  <1>3. Batches'
    BY DEF Copy, Go, TypeOK, Batches, InBatch
  <1>4. Ends'
    BY DEF Copy, Go, TypeOK, Ends, IsHeld, InBatch, HasFlag
  <1>5. Copies'
    <2>0. \A x \in CPUs, y \in Threads : HasFlag(x, y, "WAKE")' <=> HasFlag(x, y, "WAKE")
      BY DEF Copy, HasFlag
    <2>1. Woken'
      BY <2>0 DEF Copy, TypeOK, Copies, Woken
    <2>2. Copying'
      BY <1>0, <2>0 DEF Copy, Go, TypeOK, Copies, Copying
    <2>3. Waited'
      BY <1>0, <2>0 DEF Copy, Go, TypeOK, Copies, Waited
    <2> QED
      BY <2>1, <2>2, <2>3 DEF Copies
  <1>6. Polls'
    BY DEF Copy, Go, TypeOK, Polls
  <1>7. Rung'
    BY <1>0, RungSame DEF Copy, Go
  <1> QED
    BY <1>1, <1>2, <1>3, <1>4, <1>5, <1>6, <1>7

\* flush: what the outbox asks in is rung, too.
LEMMA PushedStep ==
  ASSUME CommandsInductive, NEW c \in CPUs, Pushed(c)
  PROVE CommandsInductive'
  <1> USE HomeAssumption, BatchAssumption DEF CommandsInductive, thread, send, idle, drain
  <1>0. PICK l \in Labels \ {"serve"} : pc' = [pc EXCEPT ![c] = l]
    BY DEF Pushed, Go, TypeOK, Labels
  <1>1. TypeOK'
    BY <1>0 DEF Pushed, Go, TypeOK
  <1>2. Queues'
    BY QueuesSame DEF Pushed
  <1>3. Batches'
    BY DEF Pushed, Go, TypeOK, Batches, InBatch
  <1>4. Ends' /\ Copies'
    BY <1>0, ThreadsSame DEF Pushed, Go
  <1>6. Polls'
    BY DEF Pushed, Go, TypeOK, Polls
  <1>7. Rung'
    <2>1. ASSUME NEW x \in CPUs, Alerted(x) PROVE Alerted(x)'
      BY <1>0, <2>1, AlertedSame DEF Pushed, TypeOK
    <2>2. ASSUME NEW x \in CPUs, NEW e \in CPUs, x \in kicks[e] PROVE Alerted(x)' \/ x \in kicks'[e]
      BY <2>2 DEF Pushed, TypeOK, Alerted
    <2> QED
      BY <1>0, <2>1, <2>2, RungOutside DEF Pushed
  <1> QED
    BY <1>1, <1>2, <1>3, <1>4, <1>6, <1>7

\* ring: the poller sees the bell, or the SGI follows.
LEMMA RingStep ==
  ASSUME CommandsInductive, NEW c \in CPUs, NEW d \in CPUs, Ring(c, d)
  PROVE CommandsInductive'
  <1> USE HomeAssumption, BatchAssumption DEF CommandsInductive, thread, send, idle, drain
  <1>0. PICK l \in Labels \ {"serve"} : pc' = [pc EXCEPT ![c] = l]
    BY DEF Ring, Go, TypeOK, Labels
  <1>1. TypeOK'
    <2>1. mask' \in [CPUs -> SUBSET CPUs]
      BY <1>0 DEF Ring, Go, TypeOK
    <2>2. word' \in [CPUs -> SUBSET {"POLLING", "BELL"}]
      BY <1>0 DEF Ring, Go, TypeOK
    <2>3. to' \in [CPUs -> CPUs]
      BY <1>0 DEF Ring, Go, TypeOK
    <2>4. pc' \in [CPUs -> Labels]
      BY <1>0 DEF Ring, Go, TypeOK
    <2> QED
      BY <2>1, <2>2, <2>3, <2>4 DEF Ring, TypeOK
  <1>2. Queues'
    BY QueuesSame DEF Ring
  <1>3. Batches'
    BY DEF Ring, Go, TypeOK, Batches, InBatch
  <1>4. Ends' /\ Copies'
    BY <1>0, ThreadsSame DEF Ring, Go
  <1>6. Polls'
    BY DEF Ring, Go, TypeOK, Polls
  <1>7. Rung'
    <2>1. \A e \in CPUs : pc[e] = "sgi" => pc'[e] = "sgi" /\ to'[e] = to[e]
      BY DEF Ring, Go, TypeOK
    <2>2. ASSUME NEW x \in CPUs, Alerted(x) PROVE Alerted(x)'
      <3>1. CASE x # d
        <4>1. (x \in sgi => x \in sgi') /\ (x \in bell => x \in bell') /\ word'[x] = word[x]
              /\ \A e \in CPUs : x \in mask[e] => x \in mask'[e]
          BY <3>1 DEF Ring, TypeOK
        <4> QED
          BY <2>1, <2>2, <4>1 DEF Alerted
      <3>2. CASE x = d /\ PollOn = "yes" /\ "POLLING" \in word[d]
        <4>1. word'[d] = {"POLLING", "BELL"}
          BY <3>2 DEF Ring, TypeOK
        <4> QED
          BY <3>2, <4>1 DEF Alerted
      <3>3. CASE x = d /\ ~(PollOn = "yes" /\ "POLLING" \in word[d])
        <4>1. pc'[c] = "sgi" /\ to'[c] = d
          BY <3>3 DEF Ring, Go, TypeOK
        <4> QED
          BY <3>3, <4>1 DEF Alerted
      <3> QED
        BY <3>1, <3>2, <3>3
    <2> QED
      BY <1>0, <2>2, RungOutside DEF Ring
  <1> QED
    BY <1>1, <1>2, <1>3, <1>4, <1>6, <1>7

\* ring: the SGI of a CPU that does not poll.
LEMMA SendSgiStep ==
  ASSUME CommandsInductive, NEW c \in CPUs, SendSgi(c)
  PROVE CommandsInductive'
  <1> USE HomeAssumption, BatchAssumption DEF CommandsInductive, thread, send, idle, drain
  <1>0. PICK l \in Labels \ {"serve"} : pc' = [pc EXCEPT ![c] = l]
    BY DEF SendSgi, Go, TypeOK, Labels
  <1>1. TypeOK'
    BY <1>0 DEF SendSgi, Go, TypeOK
  <1>2. Queues'
    BY QueuesSame DEF SendSgi
  <1>3. Batches'
    BY DEF SendSgi, Go, TypeOK, Batches, InBatch
  <1>4. Ends' /\ Copies'
    BY <1>0, ThreadsSame DEF SendSgi, Go
  <1>6. Polls'
    BY DEF SendSgi, Go, TypeOK, Polls
  <1>7. Rung'
    <2>1. \A e \in CPUs : pc[e] = "sgi" => (pc'[e] = "sgi" /\ to'[e] = to[e]) \/ to[e] \in sgi'
      BY DEF SendSgi, Go, TypeOK
    <2>2. sgi \subseteq sgi'
      BY DEF SendSgi
    <2>3. ASSUME NEW x \in CPUs, Alerted(x) PROVE Alerted(x)'
      BY <2>1, <2>2, <2>3 DEF Alerted, SendSgi
    <2> QED
      BY <1>0, <2>3, RungOutside DEF SendSgi
  <1> QED
    BY <1>1, <1>2, <1>3, <1>4, <1>6, <1>7

\* The drain of a bell begins, or the next turn.
LEMMA FlushedStep ==
  ASSUME CommandsInductive, NEW c \in CPUs, Flushed(c)
  PROVE CommandsInductive'
  <1> USE HomeAssumption, BatchAssumption DEF CommandsInductive, thread, send, idle, drain
  <1>0. PICK l \in Labels \ {"serve"} : pc' = [pc EXCEPT ![c] = l]
    BY DEF Flushed, Go, TakeFrom, TypeOK, Labels
  <1>1. TypeOK'
    <2>1. bell' \in SUBSET CPUs
      BY <1>0 DEF Flushed, Go, TakeFrom, TypeOK
    <2>2. left' \in [CPUs -> SUBSET CPUs]
      <3>1. left' = left \/ left' = [left EXCEPT ![c] = CPUs \ {c}]
        BY DEF Flushed, TakeFrom
      <3>2. left \in [CPUs -> SUBSET CPUs]
        BY DEF TypeOK
      <3>3. CASE left' = left
        BY <3>2, <3>3
      <3>4. CASE left' # left
        BY <3>1, <3>2, <3>4
      <3> QED
        BY <3>3, <3>4
    <2>3. pc' \in [CPUs -> Labels]
      BY <1>0 DEF Flushed, Go, TakeFrom, TypeOK
    <2> QED
      BY <2>1, <2>2, <2>3 DEF Flushed, TypeOK
  <1>2. Queues'
    BY QueuesSame DEF Flushed
  <1>3. Batches'
    BY DEF Flushed, Go, TakeFrom, TypeOK, Batches, InBatch
  <1>4. Ends' /\ Copies'
    BY <1>0, ThreadsSame DEF Flushed, Go, TakeFrom
  <1>6. Polls'
    <2> SUFFICES ASSUME NEW x \in CPUs PROVE "POLLING" \in word'[x] <=> pc'[x] \in {"poll", "unpoll", "quiet"}
      BY DEF Polls
    <2>1. CASE x = c
      BY <2>1 DEF Flushed, Go, TakeFrom, TypeOK, Polls
    <2>2. CASE x # c
      BY <2>2 DEF Flushed, Go, TakeFrom, TypeOK, Polls
    <2> QED
      BY <2>1, <2>2
  <1>7. Rung'
    <2>1. ASSUME NEW x \in CPUs, Alerted(x), x # c \/ c \notin bell PROVE Alerted(x)'
      BY <1>0, <2>1, AlertedSame DEF Flushed
    <2>2. CASE c \in bell
      BY <2>1, <2>2, RungTaking DEF Flushed
    <2>3. CASE c \notin bell
      BY <1>0, <2>1, <2>3, RungOutside DEF Flushed
    <2> QED
      BY <2>2, <2>3
  <1> QED
    BY <1>1, <1>2, <1>3, <1>4, <1>6, <1>7

\* A turn of exit_loop takes the SGI and looks at every queue.
LEMMA TurnStep ==
  ASSUME CommandsInductive, NEW c \in CPUs, Turn(c)
  PROVE CommandsInductive'
  <1> USE HomeAssumption, BatchAssumption DEF CommandsInductive, thread, send, idle, drain
  <1>0. PICK l \in Labels \ {"serve"} : pc' = [pc EXCEPT ![c] = l]
    BY DEF Turn, Go, TakeFrom, TypeOK, Labels
  <1>1. TypeOK'
    <2>1. sgi' \in SUBSET CPUs
      BY <1>0 DEF Turn, Go, TakeFrom, TypeOK
    <2>2. left' \in [CPUs -> SUBSET CPUs]
      <3>1. left' = left \/ left' = [left EXCEPT ![c] = CPUs \ {c}]
        BY DEF Turn, TakeFrom
      <3>2. left \in [CPUs -> SUBSET CPUs]
        BY DEF TypeOK
      <3>3. CASE left' = left
        BY <3>2, <3>3
      <3>4. CASE left' # left
        BY <3>1, <3>2, <3>4
      <3> QED
        BY <3>3, <3>4
    <2>3. pc' \in [CPUs -> Labels]
      BY <1>0 DEF Turn, Go, TakeFrom, TypeOK
    <2> QED
      BY <2>1, <2>2, <2>3 DEF Turn, TypeOK
  <1>2. Queues'
    BY QueuesSame DEF Turn
  <1>3. Batches'
    BY DEF Turn, Go, TakeFrom, TypeOK, Batches, InBatch
  <1>4. Ends' /\ Copies'
    BY <1>0, ThreadsSame DEF Turn, Go, TakeFrom
  <1>6. Polls'
    BY DEF Turn, Go, TakeFrom, TypeOK, Polls
  <1>7. Rung'
    <2>1. ASSUME NEW x \in CPUs, Alerted(x), x # c \/ c \notin sgi PROVE Alerted(x)'
      BY <1>0, <2>1, AlertedSame DEF Turn
    <2>2. CASE c \in sgi
      BY <2>1, <2>2, RungTaking DEF Turn
    <2>3. CASE c \notin sgi
      BY <1>0, <2>1, <2>3, RungOutside DEF Turn
    <2> QED
      BY <2>2, <2>3
  <1> QED
    BY <1>1, <1>2, <1>3, <1>4, <1>6, <1>7

\* The CPU goes to EL0.
LEMMA RunStep ==
  ASSUME CommandsInductive, NEW c \in CPUs, Run(c)
  PROVE CommandsInductive'
  <1> USE HomeAssumption, BatchAssumption DEF CommandsInductive, thread, send, idle, drain
  <1>0. PICK l \in Labels \ {"serve"} : pc' = [pc EXCEPT ![c] = l]
    BY DEF Run, Go, TypeOK, Labels
  <1>1. TypeOK'
    BY <1>0 DEF Run, Go, TypeOK
  <1>2. Queues'
    BY QueuesSame DEF Run
  <1>3. Batches'
    BY DEF Run, Go, TypeOK, Batches, InBatch
  <1>4. Ends' /\ Copies'
    BY <1>0, ThreadsSame DEF Run, Go
  <1>6. Polls'
    BY DEF Run, Go, TypeOK, Polls
  <1>7. Rung'
    BY <1>0, RungSame DEF Run, Go
  <1> QED
    BY <1>1, <1>2, <1>3, <1>4, <1>6, <1>7

\* The SGI stays pending until the turn that takes it.
LEMMA InterruptedStep ==
  ASSUME CommandsInductive, NEW c \in CPUs, Interrupted(c)
  PROVE CommandsInductive'
  <1> USE HomeAssumption, BatchAssumption DEF CommandsInductive, thread, send, idle, drain
  <1>0. PICK l \in Labels \ {"serve"} : pc' = [pc EXCEPT ![c] = l]
    BY DEF Interrupted, Go, TypeOK, Labels
  <1>1. TypeOK'
    BY <1>0 DEF Interrupted, Go, TypeOK
  <1>2. Queues'
    BY QueuesSame DEF Interrupted
  <1>3. Batches'
    BY DEF Interrupted, Go, TypeOK, Batches, InBatch
  <1>4. Ends' /\ Copies'
    BY <1>0, ThreadsSame DEF Interrupted, Go
  <1>6. Polls'
    BY DEF Interrupted, Go, TypeOK, Polls
  <1>7. Rung'
    BY <1>0, RungSame DEF Interrupted, Go
  <1> QED
    BY <1>1, <1>2, <1>3, <1>4, <1>6, <1>7

\* sleep: the bell of an earlier window is no alert, so it may be cleared.
LEMMA SleepStep ==
  ASSUME CommandsInductive, NEW c \in CPUs, Sleep(c)
  PROVE CommandsInductive'
  <1> USE HomeAssumption, BatchAssumption DEF CommandsInductive, thread, send, idle, drain
  <1>0. PICK l \in Labels \ {"serve"} : pc' = [pc EXCEPT ![c] = l]
    BY DEF Sleep, Go, TypeOK, Labels
  <1>1. TypeOK'
    <2>1. word' \in [CPUs -> SUBSET {"POLLING", "BELL"}]
      <3>1. word' = word \/ word' = [word EXCEPT ![c] = {"POLLING"}]
        BY DEF Sleep
      <3>2. word \in [CPUs -> SUBSET {"POLLING", "BELL"}]
        BY DEF TypeOK
      <3>3. CASE word' = word
        BY <3>2, <3>3
      <3>4. CASE word' # word
        BY <3>1, <3>2, <3>4
      <3> QED
        BY <3>3, <3>4
    <2>2. pc' \in [CPUs -> Labels]
      BY <1>0 DEF Sleep, Go, TypeOK
    <2> QED
      BY <2>1, <2>2 DEF Sleep, TypeOK
  <1>2. Queues'
    BY QueuesSame DEF Sleep
  <1>3. Batches'
    BY DEF Sleep, Go, TypeOK, Batches, InBatch
  <1>4. Ends' /\ Copies'
    BY <1>0, ThreadsSame DEF Sleep, Go
  <1>6. Polls'
    <2> SUFFICES ASSUME NEW x \in CPUs PROVE "POLLING" \in word'[x] <=> pc'[x] \in {"poll", "unpoll", "quiet"}
      BY DEF Polls
    <2>1. CASE x = c
      BY <2>1 DEF Sleep, Go, TypeOK, Polls
    <2>2. CASE x # c
      BY <2>2 DEF Sleep, Go, TypeOK, Polls
    <2> QED
      BY <2>1, <2>2
  <1>7. Rung'
    <2>1. ASSUME NEW x \in CPUs, Alerted(x) PROVE Alerted(x)'
      <3>1. CASE x = c
        <4>1. word[c] # {"POLLING", "BELL"}
          BY DEF Sleep, Polls
        <4>2. \A e \in CPUs : pc[e] = "sgi" => pc'[e] = "sgi"
          BY <1>0 DEF Sleep, TypeOK
        <4> QED
          BY <2>1, <3>1, <4>1, <4>2 DEF Alerted, Sleep
      <3>2. CASE x # c
        <4>1. word'[x] = word[x]
          BY <3>2 DEF Sleep, TypeOK
        <4> QED
          BY <1>0, <2>1, <4>1, AlertedSame DEF Sleep
      <3> QED
        BY <3>1, <3>2
    <2> QED
      BY <1>0, <2>1, RungOutside DEF Sleep
  <1> QED
    BY <1>1, <1>2, <1>3, <1>4, <1>6, <1>7

\* The window ends with an interrupt or a bell.
LEMMA PollSeesStep ==
  ASSUME CommandsInductive, NEW c \in CPUs, PollSees(c)
  PROVE CommandsInductive'
  <1> USE HomeAssumption, BatchAssumption DEF CommandsInductive, thread, send, idle, drain
  <1>0. PICK l \in Labels \ {"serve"} : pc' = [pc EXCEPT ![c] = l]
    BY DEF PollSees, Go, TypeOK, Labels
  <1>1. TypeOK'
    <2>1. pc' \in [CPUs -> Labels]
      BY <1>0 DEF PollSees, Go, TypeOK
    <2> QED
      BY <2>1 DEF PollSees, TypeOK
  <1>2. Queues'
    BY QueuesSame DEF PollSees
  <1>3. Batches'
    BY DEF PollSees, Go, TypeOK, Batches, InBatch
  <1>4. Ends' /\ Copies'
    BY <1>0, ThreadsSame DEF PollSees, Go
  <1>6. Polls'
    BY DEF PollSees, Go, TypeOK, Polls
  <1>7. Rung'
    BY <1>0, RungSame DEF PollSees, Go
  <1> QED
    BY <1>1, <1>2, <1>3, <1>4, <1>6, <1>7

\* The window runs out.
LEMMA PollQuietStep ==
  ASSUME CommandsInductive, NEW c \in CPUs, PollQuiet(c)
  PROVE CommandsInductive'
  <1> USE HomeAssumption, BatchAssumption DEF CommandsInductive, thread, send, idle, drain
  <1>0. PICK l \in Labels \ {"serve"} : pc' = [pc EXCEPT ![c] = l]
    BY DEF PollQuiet, Go, TypeOK, Labels
  <1>1. TypeOK'
    <2>1. pc' \in [CPUs -> Labels]
      BY <1>0 DEF PollQuiet, Go, TypeOK
    <2> QED
      BY <2>1 DEF PollQuiet, TypeOK
  <1>2. Queues'
    BY QueuesSame DEF PollQuiet
  <1>3. Batches'
    BY DEF PollQuiet, Go, TypeOK, Batches, InBatch
  <1>4. Ends' /\ Copies'
    BY <1>0, ThreadsSame DEF PollQuiet, Go
  <1>6. Polls'
    BY DEF PollQuiet, Go, TypeOK, Polls
  <1>7. Rung'
    BY <1>0, RungSame DEF PollQuiet, Go
  <1> QED
    BY <1>1, <1>2, <1>3, <1>4, <1>6, <1>7

\* The end of poll: the bell that the word held leads into drain.
LEMMA UnpollStep ==
  ASSUME CommandsInductive, NEW c \in CPUs, Unpoll(c)
  PROVE CommandsInductive'
  <1> USE HomeAssumption, BatchAssumption DEF CommandsInductive, thread, send, idle, drain
  <1>0. PICK l \in Labels \ {"serve"} : pc' = [pc EXCEPT ![c] = l]
    BY DEF Unpoll, Go, TakeFrom, TypeOK, Labels
  <1>1. TypeOK'
    <2>1. word' \in [CPUs -> SUBSET {"POLLING", "BELL"}]
      BY <1>0 DEF Unpoll, Go, TakeFrom, TypeOK
    <2>2. sgi' \in SUBSET CPUs
      BY <1>0 DEF Unpoll, Go, TakeFrom, TypeOK
    <2>3. bell' \in SUBSET CPUs
      BY <1>0 DEF Unpoll, Go, TakeFrom, TypeOK
    <2>4. left' \in [CPUs -> SUBSET CPUs]
      <3>1. left' = left \/ left' = [left EXCEPT ![c] = CPUs \ {c}]
        BY DEF Unpoll, TakeFrom
      <3>2. left \in [CPUs -> SUBSET CPUs]
        BY DEF TypeOK
      <3>3. CASE left' = left
        BY <3>2, <3>3
      <3>4. CASE left' # left
        BY <3>1, <3>2, <3>4
      <3> QED
        BY <3>3, <3>4
    <2>5. pc' \in [CPUs -> Labels]
      BY <1>0 DEF Unpoll, Go, TakeFrom, TypeOK
    <2> QED
      BY <2>1, <2>2, <2>3, <2>4, <2>5 DEF Unpoll, TypeOK
  <1>2. Queues'
    BY QueuesSame DEF Unpoll
  <1>3. Batches'
    BY DEF Unpoll, Go, TakeFrom, TypeOK, Batches, InBatch
  <1>4. Ends' /\ Copies'
    BY <1>0, ThreadsSame DEF Unpoll, Go, TakeFrom
  <1>6. Polls'
    BY DEF Unpoll, Go, TakeFrom, TypeOK, Polls
  <1>7. Rung'
    <2>1. \A x \in CPUs : x # c => word'[x] = word[x]
      BY DEF Unpoll, TypeOK
    <2>2. \A e \in CPUs : pc[e] = "sgi" => pc'[e] = "sgi"
      BY <1>0 DEF Unpoll, TypeOK
    <2>3. (\A x \in CPUs : x # c => (x \in sgi => x \in sgi')) /\ bell \subseteq bell'
      BY DEF Unpoll
    <2>4. ASSUME NEW x \in CPUs, Alerted(x), x # c PROVE Alerted(x)'
      BY <2>1, <2>2, <2>3, <2>4 DEF Alerted, Unpoll
    <2>5. CASE TakeFrom(c)
      BY <2>4, <2>5, RungTaking DEF Unpoll
    <2>6. CASE ~TakeFrom(c)
      <3>1. "BELL" \notin word[c] /\ sgi' = sgi /\ bell' = bell /\ left' = left
        BY <2>6 DEF Unpoll, TypeOK
      <3>2. ASSUME NEW x \in CPUs, Alerted(x) PROVE Alerted(x)'
        <4>1. CASE x = c
          BY <2>2, <3>1, <3>2, <4>1 DEF Alerted, Unpoll
        <4> QED
          BY <2>4, <3>2, <4>1
      <3> QED
        BY <1>0, <3>1, <3>2, RungOutside DEF Unpoll
    <2> QED
      BY <2>5, <2>6
  <1> QED
    BY <1>1, <1>2, <1>3, <1>4, <1>6, <1>7

\* wfi returns and drain looks at every queue.
LEMMA WfiSgiStep ==
  ASSUME CommandsInductive, NEW c \in CPUs, WfiSgi(c)
  PROVE CommandsInductive'
  <1> USE HomeAssumption, BatchAssumption DEF CommandsInductive, thread, send, idle, drain
  <1>0. PICK l \in Labels \ {"serve"} : pc' = [pc EXCEPT ![c] = l]
    BY DEF WfiSgi, Go, TakeFrom, TypeOK, Labels
  <1>1. TypeOK'
    <2>1. sgi' \in SUBSET CPUs
      BY <1>0 DEF WfiSgi, Go, TakeFrom, TypeOK
    <2>2. left' \in [CPUs -> SUBSET CPUs]
      BY <1>0 DEF WfiSgi, Go, TakeFrom, TypeOK
    <2>3. pc' \in [CPUs -> Labels]
      BY <1>0 DEF WfiSgi, Go, TakeFrom, TypeOK
    <2> QED
      BY <2>1, <2>2, <2>3 DEF WfiSgi, TypeOK
  <1>2. Queues'
    BY QueuesSame DEF WfiSgi
  <1>3. Batches'
    BY DEF WfiSgi, Go, TakeFrom, TypeOK, Batches, InBatch
  <1>4. Ends' /\ Copies'
    BY <1>0, ThreadsSame DEF WfiSgi, Go, TakeFrom
  <1>6. Polls'
    BY DEF WfiSgi, Go, TakeFrom, TypeOK, Polls
  <1>7. Rung'
    <2>1. ASSUME NEW x \in CPUs, Alerted(x), x # c PROVE Alerted(x)'
      BY <1>0, <2>1, AlertedSame DEF WfiSgi
    <2> QED
      BY <2>1, RungTaking DEF WfiSgi
  <1> QED
    BY <1>1, <1>2, <1>3, <1>4, <1>6, <1>7

\* Another interrupt ends the sleep.
LEMMA WfiOtherStep ==
  ASSUME CommandsInductive, NEW c \in CPUs, WfiOther(c)
  PROVE CommandsInductive'
  <1> USE HomeAssumption, BatchAssumption DEF CommandsInductive, thread, send, idle, drain
  <1>0. PICK l \in Labels \ {"serve"} : pc' = [pc EXCEPT ![c] = l]
    BY DEF WfiOther, Go, TypeOK, Labels
  <1>1. TypeOK'
    <2>1. pc' \in [CPUs -> Labels]
      BY <1>0 DEF WfiOther, Go, TypeOK
    <2> QED
      BY <2>1 DEF WfiOther, TypeOK
  <1>2. Queues'
    BY QueuesSame DEF WfiOther
  <1>3. Batches'
    BY DEF WfiOther, Go, TypeOK, Batches, InBatch
  <1>4. Ends' /\ Copies'
    BY <1>0, ThreadsSame DEF WfiOther, Go
  <1>6. Polls'
    BY DEF WfiOther, Go, TypeOK, Polls
  <1>7. Rung'
    BY <1>0, RungSame DEF WfiOther, Go
  <1> QED
    BY <1>1, <1>2, <1>3, <1>4, <1>6, <1>7

\* take_batch: another pass.
LEMMA PassStep ==
  ASSUME CommandsInductive, NEW c \in CPUs, Pass(c)
  PROVE CommandsInductive'
  <1> USE HomeAssumption, BatchAssumption DEF CommandsInductive, thread, send, idle, drain
  <1>0. PICK l \in Labels \ {"serve"} : pc' = [pc EXCEPT ![c] = l]
    BY DEF Pass, Go, TakeFrom, TypeOK, Labels
  <1>1. TypeOK'
    BY <1>0 DEF Pass, Go, TakeFrom, TypeOK
  <1>2. Queues'
    BY QueuesSame DEF Pass
  <1>3. Batches'
    BY DEF Pass, Go, TakeFrom, TypeOK, Batches, InBatch
  <1>4. Ends' /\ Copies'
    BY <1>0, ThreadsSame DEF Pass, Go, TakeFrom
  <1>6. Polls'
    BY DEF Pass, Go, TakeFrom, TypeOK, Polls
  <1>7. Rung'
    <2>1. ASSUME NEW x \in CPUs, Alerted(x), x # c PROVE Alerted(x)'
      BY <1>0, <2>1, AlertedSame DEF Pass
    <2> QED
      BY <2>1, RungTaking DEF Pass
  <1> QED
    BY <1>1, <1>2, <1>3, <1>4, <1>6, <1>7

\* serve_batch: a pass that found nothing leaves nothing, a full batch is looked after again.
LEMMA WaitCopiesStep ==
  ASSUME CommandsInductive, NEW c \in CPUs, WaitCopies(c)
  PROVE CommandsInductive'
  <1> USE HomeAssumption, BatchAssumption DEF CommandsInductive, thread, send, idle, drain
  <1>0. PICK l \in Labels : pc' = [pc EXCEPT ![c] = l]
    BY DEF WaitCopies, Go, Taken, Wakes, TypeOK, Labels
  <1>1. TypeOK'
    <2>1. left' \in [CPUs -> SUBSET CPUs]
      BY <1>0 DEF WaitCopies, Go, Taken, Wakes, TypeOK
    <2>2. pc' \in [CPUs -> Labels]
      BY <1>0 DEF WaitCopies, Go, Taken, Wakes, TypeOK
    <2> QED
      BY <2>1, <2>2 DEF WaitCopies, TypeOK
  <1>2. Queues'
    BY QueuesSame DEF WaitCopies
  <1>3. Batches'
    BY DEF WaitCopies, Go, Taken, Wakes, TypeOK, Batches, InBatch
  <1>4. Ends'
    BY DEF WaitCopies, Go, Taken, Wakes, TypeOK, Ends, IsHeld, InBatch, HasFlag
  <1>5. Copies'
    <2>0. \A x \in CPUs, y \in Threads : HasFlag(x, y, "WAKE")' <=> HasFlag(x, y, "WAKE")
      BY DEF WaitCopies, HasFlag
    <2>1. Woken'
      BY <2>0 DEF WaitCopies, TypeOK, Copies, Woken
    <2>2. Copying'
      BY <1>0, <2>0 DEF WaitCopies, Go, Taken, Wakes, TypeOK, Copies, Copying
    <2>3. Waited'
      <3> SUFFICES ASSUME NEW x \in Threads, NEW d \in CPUs, NEW e \in CPUs, pc'[d] = "serve",
                          HasFlag(d, x, "WAKE")'
                   PROVE copier'[e] # x
        BY DEF Waited
      <3>1. CASE d = c
        <4>1. HasFlag(c, x, "WAKE")
          BY <2>0, <3>1
        <4>2. x \in Wakes(c)
          BY <4>1 DEF HasFlag, Elems, Wakes
        <4> QED
          BY <4>2 DEF WaitCopies
      <3>2. CASE d # c
        <4>1. pc[d] = "serve"
          BY <1>0, <3>2 DEF TypeOK
        <4> QED
          BY <2>0, <4>1 DEF WaitCopies, Copies, Waited
      <3> QED
        BY <3>1, <3>2
    <2> QED
      BY <2>1, <2>2, <2>3 DEF Copies
  <1>6. Polls'
    BY DEF WaitCopies, Go, Taken, Wakes, TypeOK, Polls
  <1>7. Rung'
    <2> SUFFICES ASSUME NEW x \in CPUs PROVE RungAt(x)'
      BY RungEach DEF Rung, RungAt
    <2>1. Alerted(x) => Alerted(x)'
      BY <1>0, AlertedSame DEF WaitCopies, Taken
    <2>2. CASE x # c
      <3>1. pc'[x] = pc[x] /\ left'[x] = left[x] /\ batch' = batch /\ rings' = rings /\ reaped' = reaped /\ kicks' = kicks
        BY <1>0, <2>2 DEF WaitCopies, TypeOK
      <3> QED
        BY <2>1, <3>1, RungEach, RungOther
    <2>3. CASE x = c
      <3>1. /\ pc'[c] = IF batch[c] = <<>> /\ reaped[c] = 0 THEN "flush" ELSE "serve"
            /\ rings' = rings /\ reaped' = reaped /\ batch' = batch /\ kicks' = kicks
        BY DEF WaitCopies, Go, TypeOK
      <3>2. CASE Len(batch[c]) = DRAIN_BATCH
        <4>1. pc'[c] = "serve"
          BY <3>1, <3>2
        <4>2. \A d \in CPUs : WillSee(c, d)'
          BY <3>1, <3>2, <4>1 DEF WillSee
        <4> QED
          BY <2>3, <4>1, <4>2 DEF RungAt
      <3>3. CASE Len(batch[c]) # DRAIN_BATCH
        <4>1. \A d \in CPUs : ~WillSee(c, d)
          BY <3>3 DEF WillSee, WaitCopies, Taken
        <4>2. RungAt(c) /\ reaped[c] \in Nat
          BY RungEach DEF TypeOK
        <4>3. reaped[c] > 0 => pc'[c] = "serve"
          BY <3>1, <4>2
        <4> QED
          BY <2>1, <2>3, <3>1, <4>1, <4>2, <4>3 DEF RungAt
      <3> QED
        BY <3>2, <3>3
    <2> QED
      BY <2>2, <2>3
  <1> QED
    BY <1>1, <1>2, <1>3, <1>4, <1>5, <1>6, <1>7

\* serve_batch: what is left is announced by an SGI of the CPU to itself.
LEMMA AfterStep ==
  ASSUME CommandsInductive, NEW c \in CPUs, After(c)
  PROVE CommandsInductive'
  <1> USE HomeAssumption, BatchAssumption DEF CommandsInductive, thread, send, idle, drain
  <1>0. PICK l \in Labels \ {"serve"} : pc' = [pc EXCEPT ![c] = l]
    BY DEF After, Go, TypeOK, Labels
  <1>1. TypeOK'
    BY <1>0 DEF After, Go, TypeOK
  <1>2. Queues'
    BY QueuesSame DEF After
  <1>3. Batches'
    BY DEF After, Go, TypeOK, Batches, InBatch
  <1>4. Ends' /\ Copies'
    BY <1>0, ThreadsSame DEF After, Go
  <1>6. Polls'
    BY DEF After, Go, TypeOK, Polls
  <1>7. Rung'
    <2> SUFFICES ASSUME NEW x \in CPUs PROVE RungAt(x)'
      BY RungEach DEF Rung, RungAt
    <2>1. Alerted(x) => Alerted(x)'
      BY <1>0, AlertedSame DEF After
    <2>2. CASE x # c
      <3>1. pc'[x] = pc[x] /\ left' = left /\ batch' = batch /\ rings' = rings /\ reaped' = reaped /\ kicks' = kicks
        BY <1>0, <2>2 DEF After, TypeOK
      <3> QED
        BY <2>1, <3>1, RungEach, RungOther
    <2>3. CASE x = c
      <3>1. rings[c][c] = <<>>
        BY OwnRing
      <3>2. c \in sgi' => Alerted(c)'
        BY DEF Alerted
      <3>3. CASE c \in sgi'
        BY <2>3, <3>2, <3>3 DEF RungAt
      <3>4. CASE c \notin sgi'
        <4>1. pc[c] = "after" /\ rings' = rings /\ reaped' = reaped /\ kicks' = kicks /\ \A d \in CPUs : rings[c][d] = <<>>
          BY <3>1, <3>4 DEF After
        <4>2. RungAt(c)
          BY RungEach
        <4> QED
          BY <2>1, <2>3, <4>1, <4>2 DEF RungAt
      <3> QED
        BY <3>3, <3>4
    <2> QED
      BY <2>2, <2>3
  <1> QED
    BY <1>1, <1>2, <1>3, <1>4, <1>6, <1>7

\* The running thread begins to wait.
LEMMA ReceiveStep ==
  ASSUME CommandsInductive, NEW c \in CPUs, NEW t \in Threads, Receive(c, t)
  PROVE CommandsInductive'
  <1> USE HomeAssumption, BatchAssumption DEF CommandsInductive, thread, send, idle, drain
  <1>0. PICK l \in Labels \ {"serve"} : pc' = [pc EXCEPT ![c] = l]
    BY DEF Receive, Go, TypeOK, Labels
  <1>1. TypeOK'
    BY <1>0 DEF Receive, Go, TypeOK
  <1>2. Queues'
    BY QueuesSame DEF Receive
  <1>3. Batches'
    BY DEF Receive, Go, TypeOK, Batches, InBatch
  <1>4. Ends'
    BY DEF Receive, Go, TypeOK, Ends, IsHeld, InBatch, HasFlag
  <1>5. Copies'
    <2>0. \A x \in CPUs, y \in Threads : HasFlag(x, y, "WAKE")' <=> HasFlag(x, y, "WAKE")
      BY DEF Receive, HasFlag
    <2>1. Woken'
      BY <2>0 DEF Receive, TypeOK, Copies, Woken
    <2>2. Copying'
      <3> SUFFICES ASSUME NEW x \in Threads, NEW d \in CPUs, copier'[d] = x
                   PROVE pc'[d] = "copy" /\ (Home[x] = d \/ life'[x] \in {"woken", "ended", "dead"})
        BY DEF Copying
      <3>1. pc[d] = "copy" /\ (Home[x] = d \/ life[x] \in {"woken", "ended", "dead"})
        BY DEF Receive, Copies, Copying
      <3>2. d # c /\ pc'[d] = "copy"
        BY <1>0, <3>1 DEF Receive, TypeOK
      <3>3. Home[x] # d => life'[x] = life[x]
        BY <3>1 DEF Receive, TypeOK
      <3> QED
        BY <3>1, <3>2, <3>3
    <2>3. Waited'
      BY <1>0, <2>0 DEF Receive, Go, TypeOK, Copies, Waited
    <2> QED
      BY <2>1, <2>2, <2>3 DEF Copies
  <1>6. Polls'
    BY DEF Receive, Go, TypeOK, Polls
  <1>7. Rung'
    BY <1>0, RungSame DEF Receive, Go
  <1> QED
    BY <1>1, <1>2, <1>3, <1>4, <1>5, <1>6, <1>7

\* post_reap: the first timer of a chain asks its CPU in.
LEMMA PostReapStep ==
  ASSUME CommandsInductive, NEW c \in CPUs, NEW d \in CPUs, PostReap(c, d)
  PROVE CommandsInductive'
  <1> USE HomeAssumption, BatchAssumption DEF CommandsInductive, thread, send, idle, drain
  <1>0. PICK l \in Labels \ {"serve"} : pc' = [pc EXCEPT ![c] = l]
    BY DEF PostReap, Go, InSection, TypeOK, Labels
  <1>1. TypeOK'
    <2>1. reaped' \in [CPUs -> Nat]
      BY <1>0 DEF PostReap, Go, InSection, TypeOK
    <2>2. kicks' \in [CPUs -> SUBSET CPUs]
      BY <1>0 DEF PostReap, Go, InSection, TypeOK
    <2>3. pc' \in [CPUs -> Labels]
      BY <1>0 DEF PostReap, Go, InSection, TypeOK
    <2> QED
      BY <2>1, <2>2, <2>3 DEF PostReap, TypeOK
  <1>2. Queues'
    BY QueuesSame DEF PostReap
  <1>3. Batches'
    BY DEF PostReap, Go, InSection, TypeOK, Batches, InBatch
  <1>4. Ends' /\ Copies'
    BY <1>0, ThreadsSame DEF PostReap, Go, InSection
  <1>6. Polls'
    BY DEF PostReap, Go, InSection, TypeOK, Polls
  <1>7. Rung'
    <2> SUFFICES ASSUME NEW x \in CPUs PROVE RungAt(x)'
      BY RungEach DEF Rung, RungAt
    <2>1. Alerted(x) => Alerted(x)'
      BY <1>0, AlertedSame DEF PostReap, InSection
    <2>2. \A e \in CPUs : kicks[e] \subseteq kicks'[e]
      BY DEF PostReap, TypeOK
    <2>3. CASE x # d
      <3>1. reaped'[x] = reaped[x] /\ rings' = rings
        BY <2>3 DEF PostReap, TypeOK
      <3>2. x = c => pc[x] \in {"el0", "decide"} /\ \A e \in CPUs : ~WillSee(x, e)
        BY DEF PostReap, InSection, WillSee
      <3>3. x # c => pc'[x] = pc[x] /\ left' = left /\ batch' = batch
        BY <1>0 DEF PostReap, TypeOK
      <3>4. RungAt(x)
        BY RungEach
      <3> QED
        BY <2>1, <2>2, <3>1, <3>2, <3>3, <3>4, RungOther DEF RungAt
    <2>4. CASE x = d
      <3>1. x # c /\ pc'[x] = pc[x] /\ left' = left /\ batch' = batch /\ rings' = rings
        BY <1>0, <2>4 DEF PostReap, TypeOK
      <3>2. (reaped[x] = 0 /\ x \in kicks'[c]) \/ reaped[x] > 0
        BY <2>4 DEF PostReap, TypeOK
      <3>3. RungAt(x) /\ \A e \in CPUs : WillSee(x, e) => WillSee(x, e)'
        BY <3>1, RungEach DEF WillSee
      <3> QED
        BY <2>1, <2>2, <3>1, <3>2, <3>3 DEF RungAt
    <2> QED
      BY <2>3, <2>4
  <1> QED
    BY <1>1, <1>2, <1>3, <1>4, <1>6, <1>7

\* sched::wake: a thread of this CPU runs, one of another gets WAKE.
LEMMA WakeStep ==
  ASSUME CommandsInductive, NEW c \in CPUs, NEW t \in Threads, NEW message \in {"yes", "no"}, Wake(c, t, message)
  PROVE CommandsInductive'
  <1> USE HomeAssumption DEF CommandsInductive, idle, drain
  <1>0. PICK l \in {"copy", "flush"} :
          /\ pc' = [pc EXCEPT ![c] = l]
          /\ l = "copy" => copier' = [copier EXCEPT ![c] = t]
          /\ l # "copy" => copier' = copier
    BY DEF Wake, Go, TypeOK
  <1>1. /\ pc[c] \in {"el0", "decide"} /\ life[t] = "waits"
        /\ UNCHANGED <<ref, kicks, mask, to, rings, sgi, reaped, word, bell, batch, left>>
    BY DEF Wake, InSection
  <1>2. /\ cmds' \in [Threads -> Flags] /\ outbox' \in [CPUs -> Seq(Threads)] /\ Queues'
        /\ \A x \in Threads : cmds'[x] = cmds[x] \/ (x = t /\ cmds'[x] = cmds[x] \union {"WAKE"} /\ life'[t] = "woken")
    <2>1. CASE Home[t] = c
      BY <1>1, <2>1, QueuesSame DEF Wake, TypeOK
    <2>2. CASE Home[t] # c
      <3>1. Post(c, t, "WAKE") /\ life'[t] = "woken"
        BY <2>2 DEF Wake, TypeOK
      <3>2. /\ Queues' /\ cmds' \in [Threads -> Flags] /\ outbox' \in [CPUs -> Seq(Threads)]
            /\ cmds' = [cmds EXCEPT ![t] = cmds[t] \union {"WAKE"}]
        BY <1>1, <2>2, <3>1, QueuesPost
      <3> QED
        BY <3>1, <3>2 DEF TypeOK
    <2> QED
      BY <2>1, <2>2
  <1>3. /\ life' \in [Threads -> {"runs", "waits", "woken", "ended", "dead"}]
        /\ \A x \in Threads : x # t => life'[x] = life[x]
        /\ life'[t] \in {"runs", "woken"} /\ (Home[t] # c => life'[t] = "woken")
    BY DEF Wake, TypeOK
  <1>4. TypeOK'
    <2>1. pc' \in [CPUs -> Labels]
      BY <1>0 DEF TypeOK, Labels
    <2>2. copier' \in [CPUs -> Threads \union {NoThread}]
      BY <1>0 DEF TypeOK
    <2> QED
      BY <1>1, <1>2, <1>3, <2>1, <2>2 DEF TypeOK
  <1>5. \A d \in CPUs, x \in Threads : /\ InBatch(d, x)' <=> InBatch(d, x)
                                       /\ \A f \in {"WAKE", "EXIT"} : HasFlag(d, x, f)' <=> HasFlag(d, x, f)
    BY <1>1 DEF InBatch, HasFlag
  <1>6. Batches'
    BY <1>0, <1>1, <1>5 DEF Batches, TypeOK
  <1>7. ref[t] # "gone" /\ "EXIT" \notin cmds[t] /\ \A d \in CPUs : ~HasFlag(d, t, "EXIT")
    BY <1>1 DEF Ends, IsHeld
  <1>8. Ends'
    <2> SUFFICES ASSUME NEW x \in Threads
                 PROVE /\ "EXIT" \in cmds'[x] => ~IsHeld(x)'
                       /\ \A d \in CPUs : HasFlag(d, x, "EXIT")' => ~IsHeld(x)' /\ cmds'[x] = {}
                       /\ ref'[x] = "gone" => ~IsHeld(x)' /\ cmds'[x] = {} /\ \A d \in CPUs : ~InBatch(d, x)'
      BY DEF Ends
    <2>1. CASE x = t
      BY <1>1, <1>2, <1>5, <1>7, <2>1
    <2>2. CASE x # t
      BY <1>1, <1>2, <1>3, <1>5, <2>2 DEF Ends, IsHeld
    <2> QED
      BY <2>1, <2>2
  <1>9. "WAKE" \notin cmds[t] /\ \A d \in CPUs : ~HasFlag(d, t, "WAKE")
    BY <1>1 DEF Copies, Woken
  <1>10. Woken'
    BY <1>1, <1>2, <1>3, <1>5, <1>9 DEF Copies, Woken
  <1>11. Copying'
    <2> SUFFICES ASSUME NEW x \in Threads, NEW d \in CPUs, copier'[d] = x
                 PROVE pc'[d] = "copy" /\ (Home[x] = d \/ life'[x] \in {"woken", "ended", "dead"})
      BY DEF Copying
    <2>1. CASE copier[d] = x
      <3>1. pc[d] = "copy" /\ d # c /\ (Home[x] = d \/ life[x] \in {"woken", "ended", "dead"})
        BY <1>1, <2>1 DEF Copies, Copying
      <3>2. pc'[d] = "copy"
        BY <1>0, <3>1 DEF TypeOK
      <3> QED
        BY <1>1, <1>3, <3>1, <3>2
    <2>2. CASE copier[d] # x
      <3>1. d = c /\ x = t /\ l = "copy"
        BY <1>0, <2>2 DEF TypeOK
      <3> QED
        BY <1>0, <1>3, <3>1 DEF TypeOK
    <2> QED
      BY <2>1, <2>2
  <1>12. Waited'
    <2> SUFFICES ASSUME NEW x \in Threads, NEW d \in CPUs, NEW e \in CPUs, pc'[d] = "serve",
                        HasFlag(d, x, "WAKE")'
                 PROVE copier'[e] # x
      BY DEF Waited
    <2>1. pc[d] = "serve" /\ HasFlag(d, x, "WAKE") /\ x # t
      BY <1>0, <1>5, <1>9 DEF TypeOK
    <2> QED
      BY <1>0, <2>1 DEF Copies, Waited, TypeOK
  <1>13. Polls'
    BY <1>0, <1>1 DEF Polls, TypeOK
  <1>14. Rung'
    BY <1>0, <1>1, RungSame DEF Labels
  <1> QED
    BY <1>2, <1>4, <1>6, <1>8, <1>10, <1>11, <1>12, <1>13, <1>14 DEF Copies

\* set_priority and boost: LEVEL joins the flags of a thread that is held.
LEMMA SetLevelStep ==
  ASSUME CommandsInductive, NEW c \in CPUs, NEW t \in Threads, SetLevel(c, t)
  PROVE CommandsInductive'
  <1> USE HomeAssumption DEF CommandsInductive, thread, idle, drain
  <1>0. pc' = [pc EXCEPT ![c] = "flush"] /\ "flush" \in Labels
    BY DEF SetLevel, Go, TypeOK, Labels
  <1>1. /\ pc[c] \in {"el0", "decide"} /\ IsHeld(t)
        /\ UNCHANGED <<life, ref, copier, kicks, mask, to, rings, sgi, reaped, word, bell, batch, left>>
    BY DEF SetLevel, InSection
  <1>2. /\ cmds' \in [Threads -> Flags] /\ outbox' \in [CPUs -> Seq(Threads)] /\ Queues'
        /\ \A x \in Threads : cmds'[x] = IF x = t THEN cmds[x] \union {"LEVEL"} ELSE cmds[x]
    <2>1. /\ Queues' /\ cmds' \in [Threads -> Flags] /\ outbox' \in [CPUs -> Seq(Threads)]
          /\ cmds' = [cmds EXCEPT ![t] = cmds[t] \union {"LEVEL"}]
      BY <1>1, QueuesPost DEF SetLevel
    <2> QED
      BY <2>1 DEF TypeOK
  <1>3. TypeOK'
    BY <1>0, <1>1, <1>2 DEF TypeOK
  <1>4. \A d \in CPUs, x \in Threads : /\ InBatch(d, x)' <=> InBatch(d, x)
                                       /\ \A f \in {"WAKE", "EXIT"} : HasFlag(d, x, f)' <=> HasFlag(d, x, f)
    BY <1>1 DEF InBatch, HasFlag
  <1>5. Batches'
    BY <1>0, <1>1, <1>4 DEF Batches, TypeOK
  <1>6. ref[t] # "gone" /\ \A d \in CPUs : ~HasFlag(d, t, "EXIT")
    BY <1>1 DEF Ends
  <1>7. \A x \in Threads : (IsHeld(x)' <=> IsHeld(x)) /\ ("EXIT" \in cmds'[x] <=> "EXIT" \in cmds[x])
    BY <1>1, <1>2 DEF IsHeld
  <1>8. Ends'
    BY <1>1, <1>2, <1>4, <1>6, <1>7 DEF Ends
  <1>9. Copies'
    <2>1. \A x \in Threads : "WAKE" \in cmds'[x] <=> "WAKE" \in cmds[x]
      BY <1>2
    <2>5. Woken'
      BY <1>1, <1>4, <2>1 DEF Copies, Woken
    <2>2. \A d \in CPUs : (pc[d] = "copy" => pc'[d] = "copy") /\ (pc'[d] = "serve" => pc[d] = "serve")
      BY <1>0, <1>1 DEF TypeOK
    <2>3. Copying'
      BY <1>1, <2>2 DEF Copies, Copying
    <2>4. Waited'
      BY <1>1, <1>4, <2>2 DEF Copies, Waited
    <2> QED
      BY <2>3, <2>4, <2>5 DEF Copies
  <1>10. Polls'
    BY <1>0, <1>1 DEF Polls, TypeOK
  <1>11. Rung'
    BY <1>0, <1>1, RungSame
  <1> QED
    BY <1>2, <1>3, <1>5, <1>8, <1>9, <1>10, <1>11

\* sched::exit: the end goes by EXIT, or the reference goes at once when no
\* command names the thread.
LEMMA ExitStep ==
  ASSUME CommandsInductive, NEW c \in CPUs, NEW t \in Threads, Exit(c, t)
  PROVE CommandsInductive'
  <1> USE HomeAssumption DEF CommandsInductive, idle, drain
  <1>0. pc' = [pc EXCEPT ![c] = "flush"] /\ "flush" \in Labels
    BY DEF Exit, Go, TypeOK, Labels
  <1>1. /\ pc[c] \in {"el0", "decide"} /\ IsHeld(t)
        /\ UNCHANGED <<copier, kicks, mask, to, rings, sgi, reaped, word, bell, batch, left>>
    BY DEF Exit, InSection
  <1>2. /\ life' \in [Threads -> {"runs", "waits", "woken", "ended", "dead"}]
        /\ \A x \in Threads : x # t => life'[x] = life[x]
        /\ life'[t] \in {"ended", "dead"}
    BY DEF Exit, TypeOK
  <1>3. /\ cmds' \in [Threads -> Flags] /\ outbox' \in [CPUs -> Seq(Threads)] /\ Queues'
        /\ ref' \in [Threads -> {"held", "gone"}]
        /\ \A x \in Threads : x # t => cmds'[x] = cmds[x] /\ ref'[x] = ref[x]
        /\ \/ cmds'[t] = cmds[t] \union {"EXIT"} /\ ref'[t] = ref[t]
           \/ cmds'[t] = {} /\ cmds[t] = {} /\ Home[t] = c
    <2>1. CASE Home[t] = c /\ cmds[t] = {}
      <3>1. ref' = [ref EXCEPT ![t] = "gone"] /\ UNCHANGED <<cmds, outbox>>
        BY <2>1 DEF Exit
      <3>2. Queues'
        BY <1>1, <3>1, QueuesSame
      <3> QED
        BY <2>1, <3>1, <3>2 DEF TypeOK
    <2>2. CASE ~(Home[t] = c /\ cmds[t] = {})
      <3>1. Post(c, t, "EXIT") /\ ref' = ref
        BY <2>2 DEF Exit
      <3>2. /\ Queues' /\ cmds' \in [Threads -> Flags] /\ outbox' \in [CPUs -> Seq(Threads)]
            /\ cmds' = [cmds EXCEPT ![t] = cmds[t] \union {"EXIT"}]
        BY <1>1, <2>2, <3>1, QueuesPost
      <3> QED
        BY <3>1, <3>2 DEF TypeOK
    <2> QED
      BY <2>1, <2>2
  <1>4. TypeOK'
    BY <1>0, <1>1, <1>2, <1>3 DEF TypeOK
  <1>5. \A d \in CPUs, x \in Threads : /\ InBatch(d, x)' <=> InBatch(d, x)
                                       /\ \A f \in {"WAKE", "EXIT"} : HasFlag(d, x, f)' <=> HasFlag(d, x, f)
    BY <1>1 DEF InBatch, HasFlag
  <1>6. Batches'
    BY <1>0, <1>1, <1>5 DEF Batches, TypeOK
  <1>7. /\ ref[t] # "gone" /\ \A d \in CPUs : ~HasFlag(d, t, "EXIT")
        /\ Home[t] = c => \A d \in CPUs : ~InBatch(d, t)
    <2>1. ref[t] # "gone" /\ \A d \in CPUs : ~HasFlag(d, t, "EXIT")
      BY <1>1 DEF Ends
    <2>2. batch[c] = <<>>
      BY <1>1 DEF Batches
    <2>3. ~InBatch(c, t)
      BY <2>2 DEF InBatch, Elems
    <2> QED
      BY <2>1, <2>3 DEF Batches
  <1>8. Ends'
    <2> SUFFICES ASSUME NEW x \in Threads
                 PROVE /\ "EXIT" \in cmds'[x] => ~IsHeld(x)'
                       /\ \A d \in CPUs : HasFlag(d, x, "EXIT")' => ~IsHeld(x)' /\ cmds'[x] = {}
                       /\ ref'[x] = "gone" => ~IsHeld(x)' /\ cmds'[x] = {} /\ \A d \in CPUs : ~InBatch(d, x)'
      BY DEF Ends
    <2>1. CASE x = t
      <3>1. ~IsHeld(t)'
        BY <1>2 DEF IsHeld
      <3> QED
        BY <1>3, <1>5, <1>7, <2>1, <3>1
    <2>2. CASE x # t
      BY <1>2, <1>3, <1>5, <2>2 DEF Ends, IsHeld
    <2> QED
      BY <2>1, <2>2
  <1>9. Copies'
    <2>1. Woken'
      <3> SUFFICES ASSUME NEW x \in Threads
                   PROVE /\ "WAKE" \in cmds'[x] => life'[x] \in {"woken", "ended", "dead"}
                         /\ \A d \in CPUs : HasFlag(d, x, "WAKE")' =>
                              life'[x] \in {"woken", "ended", "dead"} /\ "WAKE" \notin cmds'[x]
        BY DEF Woken
      <3>1. CASE x = t
        BY <1>2, <1>3, <1>5, <3>1 DEF Copies, Woken
      <3>2. CASE x # t
        BY <1>2, <1>3, <1>5, <3>2 DEF Copies, Woken
      <3> QED
        BY <3>1, <3>2
    <2>2. \A d \in CPUs : (pc[d] = "copy" => pc'[d] = "copy") /\ (pc'[d] = "serve" => pc[d] = "serve")
      BY <1>0, <1>1 DEF TypeOK
    <2>3. Copying'
      BY <1>1, <1>2, <2>2 DEF Copies, Copying
    <2>4. Waited'
      BY <1>1, <1>5, <2>2 DEF Copies, Waited
    <2> QED
      BY <2>1, <2>3, <2>4 DEF Copies
  <1>10. Polls'
    BY <1>0, <1>1 DEF Polls, TypeOK
  <1>11. Rung'
    BY <1>0, <1>1, RungSame
  <1> QED
    BY <1>3, <1>4, <1>6, <1>8, <1>9, <1>10, <1>11

\* flush: the thread is in the queue of a CPU that will be rung.
LEMMA PushStep ==
  ASSUME CommandsInductive, NEW c \in CPUs, Push(c)
  PROVE CommandsInductive'
  <1> USE HomeAssumption DEF CommandsInductive, thread, idle, drain
  <1> DEFINE h == Home[Head(outbox[c])]
  <1>0. /\ Queues' /\ outbox' \in [CPUs -> Seq(Threads)] /\ rings' \in [CPUs -> [CPUs -> Seq(Threads)]]
        /\ h \in CPUs /\ \A d, e \in CPUs : rings'[d][e] = rings[d][e] \/ d = h
    BY QueuesPush
  <1>1. /\ mask' = [mask EXCEPT ![c] = @ \union {h}]
        /\ UNCHANGED <<cmds, life, ref, copier, kicks, to, sgi, reaped, pc, word, bell, batch, left>>
    BY DEF Push
  <1> HIDE DEF h
  <1>2. TypeOK'
    BY <1>0, <1>1 DEF TypeOK
  <1>3. Batches' /\ Ends'
    BY <1>1 DEF Batches, Ends, IsHeld, InBatch, HasFlag
  <1>4. Copies'
    BY <1>1 DEF Copies, Woken, Copying, Waited, HasFlag
  <1>5. Polls'
    BY <1>1 DEF Polls
  <1>6. Rung'
    <2> SUFFICES ASSUME NEW x \in CPUs PROVE RungAt(x)'
      BY RungEach DEF Rung, RungAt
    <2>1. h \in mask'[c] /\ \A d \in CPUs : mask[d] \subseteq mask'[d]
      BY <1>0, <1>1 DEF TypeOK
    <2>2. CASE x = h
      BY <2>1, <2>2 DEF RungAt, Alerted
    <2>3. CASE x # h
      <3>1. Alerted(x) => Alerted(x)'
        BY <1>1, <2>1 DEF Alerted
      <3>2. \A d \in CPUs : rings'[x][d] = rings[x][d] /\ (WillSee(x, d)' <=> WillSee(x, d))
        BY <1>0, <1>1, <2>3 DEF WillSee
      <3> QED
        BY <1>1, <3>1, <3>2, RungEach DEF RungAt
    <2> QED
      BY <2>2, <2>3
  <1> QED
    BY <1>0, <1>2, <1>3, <1>4, <1>5, <1>6

\* take_batch: the thread and its flags move from the queue into the batch.
LEMMA LookStep ==
  ASSUME CommandsInductive, NEW c \in CPUs, NEW d \in CPUs, Look(c, d)
  PROVE CommandsInductive'
  <1> USE HomeAssumption, BatchAssumption DEF CommandsInductive, thread, send, idle
  <1>0. /\ pc[c] \in {"take", "took"} /\ Len(batch[c]) < DRAIN_BATCH
        /\ left' = [left EXCEPT ![c] = left[c] \ {d}] /\ left' \in [CPUs -> SUBSET CPUs]
        /\ UNCHANGED <<life, ref, copier, outbox, kicks, mask, to, word, sgi, reaped, bell>>
    BY DEF Look, TypeOK
  <1>1. CASE rings[c][d] = <<>>
    <2>1. UNCHANGED <<cmds, rings, batch, pc>>
      BY <1>1 DEF Look
    <2>2. TypeOK'
      BY <1>0, <2>1 DEF TypeOK
    <2>3. Queues'
      BY <1>0, <2>1, QueuesSame
    <2>4. Batches' /\ Ends'
      BY <1>0, <2>1 DEF Batches, Ends, IsHeld, InBatch, HasFlag
    <2>5. Copies'
      BY <1>0, <2>1 DEF Copies, Woken, Copying, Waited, HasFlag
    <2>6. Polls'
      BY <1>0, <2>1 DEF Polls
    <2>7. Rung'
      <3> SUFFICES ASSUME NEW x \in CPUs PROVE RungAt(x)'
        BY RungEach DEF Rung, RungAt
      <3>1. Alerted(x) => Alerted(x)'
        BY <1>0, <2>1 DEF Alerted
      <3>2. ASSUME NEW e \in CPUs, WillSee(x, e), x # c \/ e # d PROVE WillSee(x, e)'
        BY <1>0, <2>1, <3>2 DEF WillSee, TypeOK
      <3> QED
        BY <1>0, <1>1, <2>1, <3>1, <3>2, RungEach DEF RungAt
    <2> QED
      BY <2>2, <2>3, <2>4, <2>5, <2>6, <2>7
  <1>2. CASE rings[c][d] # <<>>
    <2> DEFINE t == Head(rings[c][d])
    <2>1. /\ Queues' /\ t \in Threads /\ Home[t] = c /\ cmds[t] # {}
          /\ cmds' = [cmds EXCEPT ![t] = {}] /\ cmds' \in [Threads -> Flags]
          /\ rings' \in [CPUs -> [CPUs -> Seq(Threads)]]
      BY <1>2, QueuesLook
    <2>2. /\ batch' = [batch EXCEPT ![c] = Append(batch[c], <<t, cmds[t]>>)]
          /\ pc' = [pc EXCEPT ![c] = "took"]
          /\ rings' = [rings EXCEPT ![c] = [rings[c] EXCEPT ![d] = Tail(rings[c][d])]]
      BY <1>2 DEF Look, Go, TypeOK
    <2> HIDE DEF t
    <2>3. /\ batch[c] \in Seq(Commanded) /\ <<t, cmds[t]>> \in Commanded
      BY <2>1 DEF TypeOK, Commanded
    <2>4. /\ Append(batch[c], <<t, cmds[t]>>) \in Seq(Commanded)
          /\ Elems(Append(batch[c], <<t, cmds[t]>>)) = Elems(batch[c]) \union {<<t, cmds[t]>>}
      BY <2>3, ElemsAppend
    <2>5. batch' \in [CPUs -> Seq(Commanded)] /\ pc' \in [CPUs -> Labels]
      BY <2>2, <2>4 DEF TypeOK, Labels
    <2>6. TypeOK'
      BY <1>0, <2>1, <2>5 DEF TypeOK
    <2>7. Elems(batch'[c]) = Elems(batch[c]) \union {<<t, cmds[t]>>} /\ \A e \in CPUs : e # c => batch'[e] = batch[e]
      BY <2>2, <2>4 DEF TypeOK
    <2>8. ASSUME NEW e \in CPUs, NEW x \in Threads
          PROVE /\ InBatch(e, x)' <=> InBatch(e, x) \/ (e = c /\ x = t)
                /\ \A f \in {"WAKE", "EXIT"} : HasFlag(e, x, f)' <=> HasFlag(e, x, f) \/ (e = c /\ x = t /\ f \in cmds[t])
      <3>1. CASE e = c
        <4>1. <<t, cmds[t]>>[1] = t /\ <<t, cmds[t]>>[2] = cmds[t]
          OBVIOUS
        <4>2. InBatch(c, x)' <=> InBatch(c, x) \/ x = t
          BY <2>7, <4>1 DEF InBatch
        <4>3. ASSUME NEW f PROVE HasFlag(c, x, f)' <=> HasFlag(c, x, f) \/ (x = t /\ f \in cmds[t])
          BY <2>7, <4>1 DEF HasFlag
        <4> QED
          BY <3>1, <4>2, <4>3
      <3>2. CASE e # c
        BY <2>7, <3>2 DEF InBatch, HasFlag
      <3> QED
        BY <3>1, <3>2
    <2>9. \A x \in Threads : cmds'[x] = IF x = t THEN {} ELSE cmds[x]
      BY <2>1 DEF TypeOK
    <2>10. \A e \in CPUs : pc'[e] = IF e = c THEN "took" ELSE pc[e]
      BY <2>2 DEF TypeOK
    <2>11. Batches'
      <3>1. ASSUME NEW e \in CPUs, pc'[e] \notin {"take", "took", "serve"} PROVE batch'[e] = <<>>
        BY <2>7, <2>10, <3>1 DEF Batches
      <3>2. ASSUME NEW e \in CPUs, NEW x \in Threads, InBatch(e, x)' PROVE Home[x] = e
        BY <2>1, <2>8, <3>2 DEF Batches
      <3> QED
        BY <3>1, <3>2 DEF Batches
    <2>12. Ends'
      <3> SUFFICES ASSUME NEW x \in Threads
                   PROVE /\ "EXIT" \in cmds'[x] => ~IsHeld(x)'
                         /\ \A e \in CPUs : HasFlag(e, x, "EXIT")' => ~IsHeld(x)' /\ cmds'[x] = {}
                         /\ ref'[x] = "gone" => ~IsHeld(x)' /\ cmds'[x] = {} /\ \A e \in CPUs : ~InBatch(e, x)'
        BY DEF Ends
      <3>0. IsHeld(x)' <=> IsHeld(x)
        BY <1>0 DEF IsHeld
      <3>1. CASE x = t
        BY <1>0, <2>1, <2>8, <2>9, <3>0, <3>1 DEF Ends
      <3>2. CASE x # t
        BY <1>0, <2>8, <2>9, <3>0, <3>2 DEF Ends
      <3> QED
        BY <3>1, <3>2
    <2>13. Copies'
      <3>1. Woken'
        BY <1>0, <2>8, <2>9 DEF Copies, Woken
      <3>2. Copying'
        BY <1>0, <2>10 DEF Copies, Copying
      <3>3. Waited'
        BY <1>0, <2>8, <2>10 DEF Copies, Waited
      <3> QED
        BY <3>1, <3>2, <3>3 DEF Copies
    <2>14. Polls'
      BY <1>0, <2>10 DEF Polls
    <2>15. Rung'
      <3> SUFFICES ASSUME NEW x \in CPUs PROVE RungAt(x)'
        BY RungEach DEF Rung, RungAt
      <3>1. Alerted(x) => Alerted(x)'
        BY <1>0, <2>10 DEF Alerted
      <3>2. CASE x = c
        BY <2>10, <3>2 DEF RungAt, WillSee
      <3>3. CASE x # c
        <4>1. rings'[x] = rings[x] /\ left'[x] = left[x]
          BY <1>0, <2>2, <3>3 DEF TypeOK
        <4> QED
          BY <1>0, <2>7, <2>10, <3>1, <3>3, <4>1, RungEach, RungOther
      <3> QED
        BY <3>2, <3>3
    <2> QED
      BY <2>1, <2>6, <2>11, <2>12, <2>13, <2>14, <2>15
  <1> QED
    BY <1>1, <1>2

\* serve_all: the batch is served in one section.
LEMMA ServeAllStep ==
  ASSUME CommandsInductive, NEW c \in CPUs, ServeAll(c)
  PROVE CommandsInductive'
  <1> USE HomeAssumption, BatchAssumption DEF CommandsInductive, send, idle
  <1> DEFINE places == DRAIN_BATCH - Len(batch[c])
             rest == IF reaped[c] > places THEN reaped[c] - places ELSE 0
             l == IF rest > 0 THEN "self" ELSE IF Len(batch[c]) = DRAIN_BATCH THEN "after" ELSE "flush"
  <1>0. /\ pc[c] = "serve" /\ reaped' = [reaped EXCEPT ![c] = rest] /\ pc' = [pc EXCEPT ![c] = l]
        /\ batch' = [batch EXCEPT ![c] = <<>>]
        /\ UNCHANGED <<cmds, copier, outbox, kicks, mask, to, rings, sgi, word, bell, left>>
    BY DEF ServeAll, Go
  <1>1. rest \in Nat /\ l \in {"self", "after", "flush"} /\ (rest > 0 => l = "self")
        /\ (Len(batch[c]) = DRAIN_BATCH => l \in {"self", "after"})
    <2>1. reaped[c] \in Nat /\ Len(batch[c]) \in Nat
      BY LenProperties DEF TypeOK
    <2> QED
      BY <2>1
  <1> HIDE DEF places, rest, l
  <1>2. ASSUME NEW t \in Threads
        PROVE /\ life'[t] = IF InBatch(c, t)
                            THEN IF HasFlag(c, t, "EXIT") THEN "dead"
                                 ELSE IF HasFlag(c, t, "WAKE") /\ IsHeld(t) THEN "runs" ELSE life[t]
                            ELSE life[t]
              /\ ref'[t] = IF HasFlag(c, t, "EXIT") THEN "gone" ELSE ref[t]
    <2>1. InBatch(c, t) <=> \E i \in 1..Len(batch[c]) : batch[c][i][1] = t
      BY DEF InBatch, Elems
    <2>2. ASSUME NEW f
          PROVE HasFlag(c, t, f) <=> f \in UNION {batch[c][i][2] : i \in {j \in 1..Len(batch[c]) : batch[c][j][1] = t}}
      BY DEF HasFlag, Elems
    <2>3. HasFlag(c, t, "EXIT") <=> \E i \in 1..Len(batch[c]) : batch[c][i][1] = t /\ "EXIT" \in batch[c][i][2]
      BY DEF HasFlag, Elems
    <2>4. ref'[t] = IF HasFlag(c, t, "EXIT") THEN "gone" ELSE ref[t]
      BY <2>3 DEF ServeAll
    <2> DEFINE fs == UNION {batch[c][i][2] : i \in {j \in 1..Len(batch[c]) : batch[c][j][1] = t}}
    <2>5. life'[t] = IF InBatch(c, t) THEN Served(t, fs) ELSE life[t]
      BY <2>1 DEF ServeAll
    <2>6. ("EXIT" \in fs <=> HasFlag(c, t, "EXIT")) /\ ("WAKE" \in fs <=> HasFlag(c, t, "WAKE"))
      BY <2>2
    <2> HIDE DEF fs
    <2> QED
      BY <2>4, <2>5, <2>6 DEF Served
  <1>3. /\ life' \in [Threads -> {"runs", "waits", "woken", "ended", "dead"}]
        /\ ref' \in [Threads -> {"held", "gone"}]
    <2>1. life' = [t \in Threads |-> life'[t]] /\ ref' = [t \in Threads |-> ref'[t]]
      BY DEF ServeAll
    <2>2. \A t \in Threads : life'[t] \in {"runs", "waits", "woken", "ended", "dead"} /\ ref'[t] \in {"held", "gone"}
      BY <1>2 DEF TypeOK
    <2> QED
      BY <2>1, <2>2
  <1>4. TypeOK'
    <2>1. pc' \in [CPUs -> Labels]
      BY <1>0, <1>1 DEF TypeOK, Labels
    <2>2. reaped' \in [CPUs -> Nat]
      BY <1>0, <1>1 DEF TypeOK
    <2>3. batch' \in [CPUs -> Seq(Commanded)]
      BY <1>0 DEF TypeOK
    <2> QED
      BY <1>0, <1>3, <2>1, <2>2, <2>3 DEF TypeOK
  <1>5. Queues'
    BY <1>0, QueuesSame
  <1>6. /\ \A d \in CPUs : batch'[d] = IF d = c THEN <<>> ELSE batch[d]
        /\ \A d \in CPUs : pc'[d] = IF d = c THEN l ELSE pc[d]
    BY <1>0 DEF TypeOK
  <1>7. ASSUME NEW d \in CPUs, NEW t \in Threads
        PROVE /\ InBatch(d, t)' <=> d # c /\ InBatch(d, t)
              /\ \A f \in {"WAKE", "EXIT"} : HasFlag(d, t, f)' <=> d # c /\ HasFlag(d, t, f)
    <2>1. CASE d = c
      BY <1>6, <2>1 DEF InBatch, HasFlag, Elems
    <2>2. CASE d # c
      BY <1>6, <2>2 DEF InBatch, HasFlag
    <2> QED
      BY <2>1, <2>2
  <1>8. Batches'
    BY <1>1, <1>6, <1>7 DEF Batches
  <1>9. \A d \in CPUs, t \in Threads : \A f \in {"WAKE", "EXIT"} : HasFlag(d, t, f) => InBatch(d, t)
    BY DEF HasFlag, InBatch
  <1>10. \A t \in Threads : ~IsHeld(t) => ~IsHeld(t)'
    BY <1>2 DEF IsHeld
  <1>11. Ends'
    <2> SUFFICES ASSUME NEW t \in Threads
                 PROVE /\ "EXIT" \in cmds'[t] => ~IsHeld(t)'
                       /\ \A d \in CPUs : HasFlag(d, t, "EXIT")' => ~IsHeld(t)' /\ cmds'[t] = {}
                       /\ ref'[t] = "gone" => ~IsHeld(t)' /\ cmds'[t] = {} /\ \A d \in CPUs : ~InBatch(d, t)'
      BY DEF Ends
    <2>1. "EXIT" \in cmds'[t] => ~IsHeld(t)'
      BY <1>0, <1>10 DEF Ends
    <2>2. \A d \in CPUs : HasFlag(d, t, "EXIT")' => ~IsHeld(t)' /\ cmds'[t] = {}
      BY <1>0, <1>7, <1>10 DEF Ends
    <2>3. ASSUME ref'[t] = "gone" PROVE ~IsHeld(t)' /\ cmds'[t] = {} /\ \A d \in CPUs : ~InBatch(d, t)'
      <3>1. CASE HasFlag(c, t, "EXIT")
        BY <1>0, <1>7, <1>9, <1>10, <3>1 DEF Ends, Batches
      <3>2. CASE ~HasFlag(c, t, "EXIT")
        BY <1>0, <1>2, <1>7, <1>10, <2>3, <3>2 DEF Ends
      <3> QED
        BY <3>1, <3>2
    <2> QED
      BY <2>1, <2>2, <2>3
  <1>12. ASSUME NEW t \in Threads, life[t] \in {"woken", "ended", "dead"}, ~HasFlag(c, t, "WAKE")
         PROVE life'[t] \in {"woken", "ended", "dead"}
    BY <1>2, <1>12
  <1>13. Woken'
    <2> SUFFICES ASSUME NEW t \in Threads
                 PROVE /\ "WAKE" \in cmds'[t] => life'[t] \in {"woken", "ended", "dead"}
                       /\ \A d \in CPUs : HasFlag(d, t, "WAKE")' =>
                            life'[t] \in {"woken", "ended", "dead"} /\ "WAKE" \notin cmds'[t]
      BY DEF Woken
    <2>1. "WAKE" \in cmds'[t] => life'[t] \in {"woken", "ended", "dead"}
      BY <1>0, <1>12 DEF Copies, Woken
    <2>2. ASSUME NEW d \in CPUs, HasFlag(d, t, "WAKE")'
          PROVE life'[t] \in {"woken", "ended", "dead"} /\ "WAKE" \notin cmds'[t]
      <3>1. d # c /\ HasFlag(d, t, "WAKE") /\ ~HasFlag(c, t, "WAKE")
        BY <1>7, <1>9, <2>2 DEF Batches
      <3> QED
        BY <1>0, <1>12, <3>1 DEF Copies, Woken
    <2> QED
      BY <2>1, <2>2
  <1>14. Copying'
    <2> SUFFICES ASSUME NEW t \in Threads, NEW d \in CPUs, copier'[d] = t
                 PROVE pc'[d] = "copy" /\ (Home[t] = d \/ life'[t] \in {"woken", "ended", "dead"})
      BY DEF Copying
    <2>1. pc[d] = "copy" /\ (Home[t] = d \/ life[t] \in {"woken", "ended", "dead"}) /\ ~HasFlag(c, t, "WAKE")
      BY <1>0 DEF Copies, Copying, Waited
    <2> QED
      BY <1>0, <1>6, <1>12, <2>1
  <1>15. Waited'
    BY <1>0, <1>1, <1>6, <1>7 DEF Copies, Waited
  <1>16. Polls'
    BY <1>0, <1>1, <1>6 DEF Polls
  <1>17. Rung'
    <2> SUFFICES ASSUME NEW x \in CPUs PROVE RungAt(x)'
      BY RungEach DEF Rung, RungAt
    <2>1. Alerted(x) => Alerted(x)'
      BY <1>0, <1>6 DEF Alerted
    <2>2. CASE x # c
      <3>1. reaped'[x] = reaped[x]
        BY <1>0, <2>2 DEF TypeOK
      <3> QED
        BY <1>0, <1>6, <2>1, <2>2, <3>1, RungEach, RungOther
    <2>3. CASE x = c
      <3>1. reaped'[c] = rest /\ pc'[c] = l
        BY <1>0 DEF TypeOK
      <3>2. \A d \in CPUs : WillSee(c, d) => WillSee(c, d)'
        BY <1>0, <1>1, <3>1 DEF WillSee
      <3> QED
        BY <1>0, <1>1, <2>1, <2>3, <3>1, <3>2, RungEach DEF RungAt
    <2> QED
      BY <2>2, <2>3
  <1> QED
    BY <1>4, <1>5, <1>8, <1>11, <1>13, <1>14, <1>15, <1>16, <1>17 DEF Copies

-----------------------------------------------------------------------------
(* The theorems.                                                           *)

\* Nothing is posted when the CPUs start.
LEMMA CommandsInit == Init => CommandsInductive
  <1> SUFFICES ASSUME Init PROVE CommandsInductive
    OBVIOUS
  <1> USE HomeAssumption DEF Init
  <1>1. TypeOK
    BY DEF TypeOK, Flags, Labels
  <1>2. \A c, d \in CPUs : Elems(outbox[c]) = {} /\ Elems(rings[c][d]) = {} /\ Elems(batch[c]) = {}
    BY DEF Elems
  <1>3. Queues
    BY <1>2 DEF Queues, Singly, Boxed, Ringed, Placed, InBox, InRing, Distinct
  <1>4. Batches
    BY <1>2 DEF Batches, InBatch
  <1>5. Ends
    BY <1>2 DEF Ends, HasFlag, InBatch
  <1>6. Copies
    BY <1>2 DEF Copies, Woken, Copying, Waited, HasFlag
  <1>7. Polls
    BY DEF Polls
  <1>8. Rung
    BY DEF Rung
  <1> QED
    BY <1>1, <1>3, <1>4, <1>5, <1>6, <1>7, <1>8 DEF CommandsInductive

\* Every step of a CPU keeps the invariant.
LEMMA CommandsNext ==
  ASSUME CommandsInductive, [Next]_vars
  PROVE CommandsInductive'
  <1>1. CASE Next
    <2>1. PICK c \in CPUs : Section(c) \/ Kernel(c) \/ WfiOther(c)
      BY <1>1 DEF Next
    <2>2. CASE Section(c)
      BY <2>2, WakeStep, SetLevelStep, ExitStep, ReceiveStep, PostReapStep DEF Section
    <2>3. CASE Kernel(c)
      BY <2>3, CopyStep, PushStep, PushedStep, SendSgiStep, FlushedStep, TurnStep, RunStep,
         InterruptedStep, SleepStep, PollSeesStep, PollQuietStep, UnpollStep, WfiSgiStep,
         PassStep, WaitCopiesStep, ServeAllStep, AfterStep, RingStep, LookStep DEF Kernel
    <2> QED
      BY <2>1, <2>2, <2>3, WfiOtherStep
  <1>2. CASE UNCHANGED vars
    <2> USE <1>2 DEF vars
    <2>1. TypeOK' /\ Polls'
      BY DEF CommandsInductive, TypeOK, Polls
    <2>2. Queues'
      BY QueuesSame DEF CommandsInductive
    <2>3. Batches' /\ Ends' /\ Copies'
      BY DEF CommandsInductive, Batches, Ends, Copies, Woken, Copying, Waited, IsHeld, InBatch, HasFlag
    <2>4. Rung'
      BY DEF CommandsInductive, Rung, Alerted, WillSee
    <2> QED
      BY <2>1, <2>2, <2>3, <2>4 DEF CommandsInductive
  <1> QED
    BY <1>1, <1>2

\* The invariant holds from the start of the CPUs on.
THEOREM CommandsInvariance == Spec => []CommandsInductive
  BY CommandsInit, CommandsNext, PTL DEF Spec

\* No command is lost: whatever stands in a queue or a chain of timers of a
\* CPU, that CPU is about to look at it or will be rung.
THEOREM CommandsRung == Spec => []Rung
  <1>1. CommandsInductive => Rung
    BY DEF CommandsInductive
  <1> QED
    BY <1>1, CommandsInvariance, PTL

\* A thread stands in the outboxes and queues once at most, on the way from
\* another CPU to its own, and exactly while it has commands: a queue with a
\* place for each thread is never full.
THEOREM CommandsOnce == Spec => []OnceInQueues
  <1>1. ASSUME CommandsInductive PROVE OnceInQueues
    <2> USE <1>1, HomeAssumption DEF CommandsInductive
    <2>1. ASSUME NEW t \in Threads, NEW c \in CPUs
          PROVE /\ Times(t, outbox[c]) = IF InBox(c, t) THEN 1 ELSE 0
                /\ \A d \in CPUs : Times(t, rings[c][d]) = IF InRing(c, d, t) THEN 1 ELSE 0
      <3>1. outbox[c] \in Seq(Threads) /\ Distinct(outbox[c])
        BY DEF TypeOK, Queues, Singly
      <3>2. ASSUME NEW d \in CPUs PROVE rings[c][d] \in Seq(Threads) /\ Distinct(rings[c][d])
        BY DEF TypeOK, Queues, Singly
      <3> QED
        BY <3>1, <3>2, TimesElems DEF InBox, InRing
    <2> SUFFICES ASSUME NEW t \in Threads
                 PROVE /\ cmds[t] # {} =>
                            \/ \E c \in CPUs \ {Home[t]} :
                                /\ Times(t, outbox[c]) = 1
                                /\ \A d \in CPUs : (d # c => Times(t, outbox[d]) = 0) /\ Times(t, rings[Home[t]][d]) = 0
                            \/ \E c \in CPUs \ {Home[t]} :
                                /\ Times(t, rings[Home[t]][c]) = 1
                                /\ \A d \in CPUs : (d # c => Times(t, rings[Home[t]][d]) = 0) /\ Times(t, outbox[d]) = 0
                       /\ cmds[t] = {} => \A c, d \in CPUs : Times(t, outbox[c]) = 0 /\ Times(t, rings[d][c]) = 0
      BY DEF OnceInQueues
    <2>2. ASSUME NEW c \in CPUs, InBox(c, t)
          PROVE /\ c # Home[t] /\ \A d \in CPUs : (d # c => ~InBox(d, t)) /\ ~InRing(Home[t], d, t)
      BY <2>2 DEF Queues, Boxed
    <2>3. ASSUME NEW c \in CPUs, InRing(Home[t], c, t)
          PROVE /\ c # Home[t] /\ \A d \in CPUs : (d # c => ~InRing(Home[t], d, t)) /\ ~InBox(d, t)
      BY <2>3 DEF Queues, Boxed, Ringed
    <2>4. CASE cmds[t] = {}
      <3>1. \A c, d \in CPUs : ~InBox(c, t) /\ ~InRing(d, c, t)
        BY <2>4 DEF Queues, Boxed, Ringed
      <3> QED
        BY <2>1, <2>4, <3>1
    <2>5. CASE \E c \in CPUs : InBox(c, t)
      <3>1. PICK c \in CPUs : InBox(c, t)
        BY <2>5
      <3>2. c \in CPUs \ {Home[t]} /\ Times(t, outbox[c]) = 1
        BY <2>1, <2>2, <3>1
      <3>3. \A d \in CPUs : (d # c => Times(t, outbox[d]) = 0) /\ Times(t, rings[Home[t]][d]) = 0
        BY <2>1, <2>2, <3>1
      <3>4. cmds[t] # {}
        BY <3>1 DEF Queues, Boxed
      <3> QED
        BY <3>2, <3>3, <3>4
    <2>6. CASE \E c \in CPUs : InRing(Home[t], c, t)
      <3>1. PICK c \in CPUs : InRing(Home[t], c, t)
        BY <2>6
      <3>2. c \in CPUs \ {Home[t]} /\ Times(t, rings[Home[t]][c]) = 1
        BY <2>1, <2>3, <3>1
      <3>3. \A d \in CPUs : (d # c => Times(t, rings[Home[t]][d]) = 0) /\ Times(t, outbox[d]) = 0
        BY <2>1, <2>3, <3>1
      <3>4. cmds[t] # {}
        BY <3>1 DEF Queues, Ringed
      <3> QED
        BY <3>2, <3>3, <3>4
    <2> QED
      BY <2>4, <2>5, <2>6 DEF Queues, Placed
  <1> QED
    BY <1>1, CommandsInvariance, PTL

\* "The kernel's reference keeps the thread until the owner serves the
\* commands": no outbox, queue or batch names a thread whose reference went.
THEOREM CommandsKept == Spec => []KeptByReference
  <1>1. ASSUME CommandsInductive PROVE KeptByReference
    <2> USE <1>1 DEF CommandsInductive
    <2> SUFFICES ASSUME NEW t \in Threads, ref[t] = "gone", NEW c \in CPUs, NEW d \in CPUs
                 PROVE /\ Times(t, outbox[c]) = 0 /\ Times(t, rings[c][d]) = 0
                       /\ \A i \in 1..Len(batch[c]) : batch[c][i][1] # t
      BY DEF KeptByReference
    <2>1. cmds[t] = {} /\ ~InBatch(c, t)
      BY DEF Ends
    <2>2. ~InBox(c, t) /\ ~InRing(c, d, t)
      BY <2>1 DEF Queues, Boxed, Ringed
    <2>3. /\ outbox[c] \in Seq(Threads) /\ Distinct(outbox[c])
          /\ rings[c][d] \in Seq(Threads) /\ Distinct(rings[c][d])
      BY DEF TypeOK, Queues, Singly
    <2>4. Times(t, outbox[c]) = 0 /\ Times(t, rings[c][d]) = 0
      BY <2>2, <2>3, TimesElems DEF InBox, InRing
    <2>5. \A i \in 1..Len(batch[c]) : batch[c][i][1] # t
      BY <2>1 DEF InBatch, Elems
    <2> QED
      BY <2>4, <2>5
  <1> QED
    BY <1>1, CommandsInvariance, PTL

\* A woken thread runs once the copy of its message is made.
THEOREM CommandsCopied == Spec => []WokenAfterCopy
  <1>1. ASSUME CommandsInductive PROVE WokenAfterCopy
    BY <1>1, HomeAssumption DEF CommandsInductive, Copies, Copying, WokenAfterCopy
  <1> QED
    BY <1>1, CommandsInvariance, PTL
=============================================================================
