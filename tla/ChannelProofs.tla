---------------------------- MODULE ChannelProofs ----------------------------
(***************************************************************************)
(* Proofs about Channel, for any threads, processes, handles and levels,   *)
(* and any size of the table of numbers: the references are exact, the     *)
(* queue holds receivers or else slots and requests, CLIENT_GONE comes     *)
(* last, a reply reaches the request of its token, no token is given out   *)
(* twice, no handle goes to a process that takes none, and nobody waits    *)
(* with an upcall asked for.                                               *)
(***************************************************************************)
EXTENDS Channel, FiniteSetTheorems, SequenceTheorems, TLAPS

-----------------------------------------------------------------------------
(* The inductive invariant, in parts.  Those about the object graph are    *)
(* predicates of a record `x`, since a step lets things go one by one.     *)

Elems(s) == {s[i] : i \in 1..Len(s)}
Distinct(s) == \A i, j \in 1..Len(s) : s[i] = s[j] => i = j

Fields == {"queue", "waiting", "closed", "receivers", "refs", "sources", "cleanup",
           "copies", "srefs", "session", "told", "bits", "waits", "transit",
           "handles", "accepted"}

\* A record with the fields of `k`.
IsState(x) == x = [f \in Fields |-> x[f]]

\* `y` is such a record and has the fields of `x` outside `F`.
Keeps(x, y, F) == IsState(y) /\ \A f \in Fields \ F : y[f] = x[f]

Bits == SUBSET {"bit", "gone"}

StateType(x) ==
    /\ IsState(x)
    /\ x.queue \in Seq(Threads \cup Slots)
    /\ x.receivers \in Nat /\ x.refs \in Nat /\ x.sources \in Nat
    /\ x.copies \in Nat /\ x.srefs \in Nat
    /\ x.cleanup \in {"none", "close", "shell", "freed"}
    /\ x.session \in {"none", "live", "shell"}
    /\ x.bits \in [Slots -> Bits]
    /\ x.waits \in [Threads -> Waits]
    /\ x.transit \in [Threads -> SUBSET Handles]
    /\ x.handles \in [Procs -> SUBSET Handles]
    /\ x.accepted \in [Procs -> SUBSET Threads]

\* The waits of a thread that stands in the queue.
Sends == {InSend(v) : v \in Vias}
Stands == {InReceive} \cup Sends

\* The queue holds those that wait in it and the slots that hold something,
\* once each; receivers, or else slots and requests.
QueueOK(x) ==
    /\ Distinct(x.queue)
    /\ \A t \in Threads : t \in Elems(x.queue) <=> x.waits[t] \in Stands
    /\ \A s \in Slots : s \in Elems(x.queue) <=> x.bits[s] # {}
    /\ x.waiting => \A i \in Elems(x.queue) : i \in Threads /\ x.waits[i] = InReceive
    /\ ~x.waiting => \A t \in Threads : x.waits[t] # InReceive

\* Every handle there is, and those that hold a reference to the channel.
All(x) == UNION ({x.handles[p] : p \in Procs} \cup {x.transit[t] : t \in Threads})
Counted == (Handles \ Labelled) \cup Receiving

\* How many handles of a kind there are, and how many threads wait so.
Number(x, H) == Cardinality(All(x) \cap H)
InWait(x, w) == Cardinality({t \in Threads : x.waits[t] = w})

\* The counts, with `r` receivers, `c` copies, `f` references to the channel
\* and `g` to the session that nothing holds and that are about to be let go
\* (or, below zero, that are about to be taken for what is there already).
Counts(x, r, c, f, g) ==
    /\ x.receivers = Number(x, Receiving) + r
    /\ x.copies = Number(x, Labelled) + InWait(x, InSend("session")) + c
    /\ x.srefs = x.copies + (IF "session" \in Elems(x.queue) THEN 1 ELSE 0) + g
    /\ x.refs = Number(x, Counted) + InWait(x, InSend("channel")) + InWait(x, InReceive)
                + (IF x.session # "none" THEN 1 ELSE 0)
                + (IF x.cleanup = "close" THEN 1 ELSE 0) + f

\* What the counts mean.
Status(x) ==
    /\ x.cleanup \in {"shell", "freed"} <=> x.refs = 0
    /\ x.cleanup = "close" => x.closed
    /\ x.closed <=> x.receivers = 0
    /\ x.session = "live" <=> x.srefs > 0
    /\ x.sources = IF x.session = "none" THEN 1 ELSE 2

Firm(x, r, c, f, g) == StateType(x) /\ QueueOK(x) /\ Counts(x, r, c, f, g) /\ Status(x)

\* CLIENT_GONE is told or in the slot once there is no copy, and only then.
Word(x) == x.told \/ "gone" \in x.bits["session"]
Gone(x) ==
    /\ Word(x) => x.copies = 0
    /\ x.session # "none" /\ x.copies = 0 /\ ~x.closed => Word(x)

Sound(x, r, c, f) == Firm(x, r, c, f, 0) /\ Gone(x)

\* A handle is in one place, and a message carries one at most.
Placed(x) ==
    /\ \A p, q \in Procs : p # q => x.handles[p] \cap x.handles[q] = {}
    /\ \A t, u \in Threads : t # u => x.transit[t] \cap x.transit[u] = {}
    /\ \A p \in Procs, t \in Threads : x.handles[p] \cap x.transit[t] = {}
    /\ \A t \in Threads : x.transit[t] = {} \/ \E h \in Handles : x.transit[t] = {h}

\* What a thread may wait for and carry.
Waiting ==
    /\ \A t \in Threads : k.waits[t] # NoWait => life[t] = "live"
    /\ \A t \in Threads : k.transit[t] # {} => life[t] = "ended" \/ k.waits[t] \in Sends
    /\ \A t \in Threads, p \in Procs : t \in k.accepted[p] => k.waits[t] = ForReply(p)

\* A process past its stage Threads has no thread that runs.
Stopped ==
    \A t \in Threads : stage[Of[t]] \in {"replies", "handles", "gone"} => life[t] # "live"

Numbers == 0 .. N - 1

IsTable(tb) ==
    /\ tb = [f \in {"count", "dead", "holder", "used", "free"} |-> tb[f]]
    /\ tb.count \in [Numbers -> 0 .. MAX_COUNT]
    /\ tb.dead \in SUBSET Numbers
    /\ tb.holder \in [Numbers -> Threads \cup {None}]
    /\ tb.used \in 0 .. N
    /\ tb.free \in Seq(Numbers)
TableType == IsTable(table)

ThreadType ==
    /\ life \in [Threads -> {"none", "live", "ended"}]
    /\ index \in [Threads -> Numbers \cup {NoNumber}]
    /\ stage \in [Procs -> {"whole", "threads", "replies", "handles", "gone"}]
    /\ pending \in SUBSET Threads
    /\ given \in SUBSET (Numbers \X (0 .. MAX_COUNT))
    /\ request \in [Threads -> (Numbers \X (0 .. MAX_COUNT)) \cup {NoToken}]

\* A number has one holder, which has that number; a free one has none.
Holders ==
    /\ \A t \in Threads, n \in Numbers : index[t] = n <=> table.holder[n] = t
    /\ \A t \in Threads : (life[t] = "live" => index[t] # NoNumber)
                       /\ (life[t] = "none" => index[t] = NoNumber)
    /\ Distinct(table.free)
    /\ \A n \in Elems(table.free) : n < table.used /\ table.holder[n] = None
    /\ \A n \in Numbers : n >= table.used => table.holder[n] = None

\* The token of a request is the last its number gave, and a request that is
\* not accepted yet has one left.
TokensOK ==
    /\ \A t \in Threads, p \in Procs : k.waits[t] = ForReply(p) => request[t] = <<index[t], table.count[index[t]]>>
    /\ \A t \in Threads : k.waits[t] \in Sends => table.count[index[t]] # MAX_COUNT
    /\ \A n \in Numbers, c \in 0 .. MAX_COUNT : <<n, c>> \in given => c <= table.count[n]

ChannelInductive ==
    /\ Sound(k, 0, 0, 0) /\ Placed(k)
    /\ TableType /\ ThreadType
    /\ Waiting /\ Stopped /\ Holders /\ TokensOK
    /\ NoSleepOnUpcall

-----------------------------------------------------------------------------
(* Sequences.                                                              *)

\* The elements of a sequence with one more, and where they stand.
LEMMA InsertAtFacts ==
  ASSUME NEW S, NEW q \in Seq(S), NEW n \in 1..Len(q)+1, NEW e \in S, NEW r, r = InsertAt(q, n, e)
  PROVE /\ r \in Seq(S) /\ Len(r) = Len(q) + 1
        /\ \A j \in 1..Len(q)+1 : r[j] = IF j < n THEN q[j] ELSE IF j = n THEN e ELSE q[j-1]
  <1> DEFINE a == SubSeq(q, 1, n-1)
             b == SubSeq(q, n, Len(q))
  <1>1. a \in Seq(S) /\ Len(a) = n-1 /\ \A j \in 1..n-1 : a[j] = q[j]
    OBVIOUS
  <1>2. b \in Seq(S) /\ Len(b) = Len(q) - n + 1 /\ \A j \in 1..Len(q)-n+1 : b[j] = q[n+j-1]
    OBVIOUS
  <1>3. r = a \o <<e>> \o b
    BY DEF InsertAt
  <1> HIDE DEF a, b
  <1>4. a \o <<e>> \in Seq(S) /\ Len(a \o <<e>>) = n
        /\ \A j \in 1..n : (a \o <<e>>)[j] = IF j < n THEN q[j] ELSE e
    BY <1>1
  <1> DEFINE d == a \o <<e>>
  <1>5. r = d \o b /\ d \in Seq(S) /\ Len(d) = n /\ \A j \in 1..n : d[j] = IF j < n THEN q[j] ELSE e
    BY <1>3, <1>4
  <1> HIDE DEF d
  <1>6. r \in Seq(S) /\ Len(r) = Len(q) + 1
    <2>1. r \in Seq(S) /\ Len(r) = Len(d) + Len(b)
      BY <1>2, <1>5, ConcatProperties
    <2> QED
      BY <1>2, <1>5, <2>1
  <1>7. ASSUME NEW j \in 1..Len(q)+1 PROVE r[j] = IF j <= n THEN d[j] ELSE b[j - n]
    BY <1>2, <1>5, <1>7
  <1>8. ASSUME NEW j \in 1..Len(q)+1, j > n PROVE b[j - n] = q[j - 1]
    BY <1>2, <1>8
  <1> QED
    BY <1>5, <1>6, <1>7, <1>8

\* A queue takes one more element, once.
LEMMA PushTailFacts ==
  ASSUME NEW S, NEW q \in Seq(S), NEW e \in S, NEW r, r = PushTail(q, e)
  PROVE /\ r \in Seq(S) /\ r # <<>> /\ Elems(r) = Elems(q) \cup {e}
        /\ Distinct(q) /\ e \notin Elems(q) => Distinct(r)
  <1> DEFINE ahead == {j \in DOMAIN q : Level[q[j]] >= Level[e]}
             n == Cardinality(ahead) + 1
  <1>1. n \in 1..Len(q)+1
    <2>1. IsFiniteSet(1..Len(q)) /\ Cardinality(1..Len(q)) = Len(q)
      <3>1. Len(q) \in Nat
        OBVIOUS
      <3> QED
        BY <3>1, FS_Interval
    <2>2. ahead \in SUBSET (1..Len(q))
      OBVIOUS
    <2>3. IsFiniteSet(ahead) /\ Cardinality(ahead) <= Len(q)
      BY <2>1, <2>2, FS_Subset
    <2> QED
      BY <2>3, FS_CardinalityType
  <1>2. r = InsertAt(q, n, e)
    BY DEF PushTail
  <1> HIDE DEF n, ahead
  <1>3. /\ r \in Seq(S) /\ Len(r) = Len(q) + 1
        /\ \A j \in 1..Len(q)+1 : r[j] = IF j < n THEN q[j] ELSE IF j = n THEN e ELSE q[j-1]
    <2>1. PICK m \in 1..Len(q)+1 : m = n
      BY <1>1
    <2>2. r = InsertAt(q, m, e)
      BY <1>2, <2>1
    <2>3. /\ r \in Seq(S) /\ Len(r) = Len(q) + 1
          /\ \A j \in 1..Len(q)+1 : r[j] = IF j < m THEN q[j] ELSE IF j = m THEN e ELSE q[j-1]
      BY <2>2, InsertAtFacts
    <2> QED
      BY <2>1, <2>3
  <1>4. Elems(r) = Elems(q) \cup {e}
    <2>1. ASSUME NEW j \in 1..Len(r) PROVE r[j] \in Elems(q) \cup {e}
      <3>1. CASE j < n
        BY <1>1, <1>3, <3>1 DEF Elems
      <3>2. CASE j > n
        <4>1. j - 1 \in 1..Len(q) /\ r[j] = q[j - 1]
          BY <1>1, <1>3, <3>2
        <4> QED
          BY <4>1 DEF Elems
      <3> QED
        BY <1>1, <1>3, <3>1, <3>2
    <2>2. ASSUME NEW j \in 1..Len(q) PROVE q[j] \in Elems(r)
      <3>1. CASE j < n
        BY <1>1, <1>3, <3>1 DEF Elems
      <3>2. CASE j >= n
        <4>1. j + 1 \in 1..Len(r) /\ r[j + 1] = q[j]
          BY <1>1, <1>3, <3>2
        <4> QED
          BY <4>1 DEF Elems
      <3> QED
        BY <1>1, <3>1, <3>2
    <2>3. e \in Elems(r)
      BY <1>1, <1>3 DEF Elems
    <2> QED
      BY <2>1, <2>2, <2>3 DEF Elems
  <1>5. ASSUME Distinct(q), e \notin Elems(q) PROVE Distinct(r)
    <2> SUFFICES ASSUME NEW i \in 1..Len(r), NEW j \in 1..Len(r), r[i] = r[j], i < j PROVE FALSE
      BY <1>3 DEF Distinct
    <2>1. \A l \in 1..Len(q) : q[l] # e
      BY <1>5 DEF Elems
    <2> DEFINE old(l) == IF l < n THEN l ELSE l - 1
    <2>2. \A l \in 1..Len(r) : l # n => old(l) \in 1..Len(q) /\ r[l] = q[old(l)]
      BY <1>1, <1>3
    <2>3. i # n /\ j # n => old(i) < old(j)
      BY <1>1, <1>3
    <2> HIDE DEF old
    <2>4. i # n /\ j # n => old(i) \in 1..Len(q) /\ old(j) \in 1..Len(q) /\ q[old(i)] = q[old(j)]
      BY <2>2
    <2>5. CASE i = n \/ j = n
      BY <1>1, <1>3, <2>1, <2>5
    <2> QED
      BY <1>5, <2>3, <2>4, <2>5 DEF Distinct
  <1> QED
    BY <1>3, <1>4, <1>5

\* A sequence without its element at a place.
LEMMA RemoveAtFacts ==
  ASSUME NEW S, NEW q \in Seq(S), Distinct(q), NEW n \in 1..Len(q), NEW r, r = RemoveAt(q, n)
  PROVE r \in Seq(S) /\ Distinct(r) /\ Elems(r) = Elems(q) \ {q[n]}
  <1> DEFINE a == SubSeq(q, 1, n-1)
             b == SubSeq(q, n+1, Len(q))
  <1>1. a \in Seq(S) /\ Len(a) = n-1 /\ \A j \in 1..n-1 : a[j] = q[j]
    OBVIOUS
  <1>2. b \in Seq(S) /\ Len(b) = Len(q) - n /\ \A j \in 1..Len(q)-n : b[j] = q[n+j]
    OBVIOUS
  <1>3. r = a \o b
    BY DEF RemoveAt
  <1> HIDE DEF a, b
  <1>4. /\ r \in Seq(S) /\ Len(r) = Len(q) - 1
        /\ \A j \in 1..Len(q)-1 : r[j] = IF j < n THEN q[j] ELSE q[j+1]
    <2>0. r \in Seq(S) /\ Len(r) = Len(a) + Len(b)
      BY <1>1, <1>2, <1>3, ConcatProperties
    <2>1. r \in Seq(S) /\ Len(r) = Len(q) - 1
      BY <1>1, <1>2, <2>0
    <2>2. ASSUME NEW j \in 1..Len(q)-1 PROVE r[j] = IF j < n THEN a[j] ELSE b[j - n + 1]
      BY <1>1, <1>2, <1>3, <2>2
    <2>3. ASSUME NEW j \in 1..Len(q)-1, j >= n PROVE b[j - n + 1] = q[j + 1]
      BY <1>2, <2>3
    <2> QED
      BY <1>1, <2>1, <2>2, <2>3
  <1>5. Distinct(r)
    BY <1>4 DEF Distinct
  <1>6. ASSUME NEW y \in Elems(r) PROVE y \in Elems(q) \ {q[n]}
    BY <1>4, <1>6 DEF Elems, Distinct
  <1>7. ASSUME NEW j \in 1..Len(q), j # n PROVE q[j] \in Elems(r)
    <2>1. CASE j < n
      BY <1>4, <2>1 DEF Elems
    <2>2. CASE j > n
      <3>1. j - 1 \in 1..Len(r) /\ r[j - 1] = q[j]
        BY <1>4, <2>2
      <3> QED
        BY <3>1 DEF Elems
    <2> QED
      BY <1>7, <2>1, <2>2
  <1> QED
    BY <1>4, <1>5, <1>6, <1>7 DEF Elems

\* A sequence without its head.
LEMMA TailFacts ==
  ASSUME NEW S, NEW q \in Seq(S), Distinct(q), q # <<>>, NEW r, r = Tail(q)
  PROVE /\ r \in Seq(S) /\ Distinct(r) /\ Elems(r) = Elems(q) \ {Head(q)}
        /\ Head(q) \in S /\ Head(q) \in Elems(q)
  <1>1. /\ r \in Seq(S) /\ Len(r) = Len(q) - 1 /\ Head(q) = q[1] /\ Len(q) >= 1
        /\ \A j \in 1..Len(q)-1 : r[j] = q[j+1]
    OBVIOUS
  <1>5. Distinct(r)
    BY <1>1 DEF Distinct
  <1>6. ASSUME NEW y \in Elems(r) PROVE y \in Elems(q) \ {q[1]}
    BY <1>1, <1>6 DEF Elems, Distinct
  <1>7. ASSUME NEW j \in 1..Len(q), j # 1 PROVE q[j] \in Elems(r)
    <2>1. j - 1 \in 1..Len(r) /\ r[j - 1] = q[j]
      BY <1>1, <1>7
    <2> QED
      BY <2>1 DEF Elems
  <1> QED
    BY <1>1, <1>5, <1>6, <1>7 DEF Elems

\* An element stands somewhere; an empty sequence has none.
LEMMA ElemsFacts ==
  ASSUME NEW S, NEW q \in Seq(S)
  PROVE /\ Elems(q) \subseteq S
        /\ q = <<>> <=> Elems(q) = {}
        /\ \A e : e \in Elems(q) <=> \E j \in DOMAIN q : q[j] = e
  <1>1. Len(q) \in Nat /\ DOMAIN q = 1..Len(q) /\ (q = <<>> <=> Len(q) = 0)
    OBVIOUS
  <1>2. Elems(q) \subseteq S
    BY <1>1 DEF Elems
  <1>3. q = <<>> <=> Elems(q) = {}
    BY <1>1 DEF Elems
  <1>4. \A e : e \in Elems(q) <=> \E j \in DOMAIN q : q[j] = e
    BY <1>1 DEF Elems
  <1> QED
    BY <1>2, <1>3, <1>4

-----------------------------------------------------------------------------
(* Waits and numbers.                                                      *)

\* The kinds of wait are told apart.
LEMMA WaitKinds ==
  /\ InReceive # NoWait
  /\ \A v, w : InSend(v) = InSend(w) <=> v = w
  /\ \A p, q : ForReply(p) = ForReply(q) <=> p = q
  /\ \A v : InSend(v) # NoWait /\ InSend(v) # InReceive /\ InSend(v)[2] = v
  /\ \A p : ForReply(p) # NoWait /\ ForReply(p) # InReceive
  /\ \A v, p : InSend(v) # ForReply(p)
  BY DEF NoWait, InReceive, InSend, ForReply

\* What stands in a queue, and what does not.
LEMMA StandKinds ==
  /\ Sends = {InSend("channel"), InSend("session")}
  /\ Stands = {InReceive, InSend("channel"), InSend("session")}
  /\ NoWait \notin Stands /\ \A p : ForReply(p) \notin Stands
  /\ NoWait \in Waits /\ Stands \subseteq Waits /\ \A p \in Procs : ForReply(p) \in Waits
  /\ InSend("channel") # InSend("session") /\ InReceive \notin Sends
  /\ \A w \in Sends : w[2] \in Vias /\ w = InSend(w[2])
  BY WaitKinds DEF Sends, Stands, Vias, Waits

\* The numbers are numbers.
LEMMA NumberTypes ==
  ASSUME NEW x, StateType(x)
  PROVE /\ \A H : IsFiniteSet(All(x) \cap H) /\ Number(x, H) \in Nat
        /\ \A w : IsFiniteSet({t \in Threads : x.waits[t] = w}) /\ InWait(x, w) \in Nat
  <1>1. All(x) \in SUBSET Handles
    BY DEF All, StateType
  <1>2. ASSUME NEW H PROVE IsFiniteSet(All(x) \cap H) /\ Number(x, H) \in Nat
    <2>1. IsFiniteSet(All(x) \cap H)
      <3>1. All(x) \cap H \in SUBSET Handles
        BY <1>1
      <3> QED
        BY <3>1, FS_Subset, ChannelAssumption
    <2> QED
      BY <2>1, FS_CardinalityType DEF Number
  <1>3. ASSUME NEW w PROVE IsFiniteSet({t \in Threads : x.waits[t] = w}) /\ InWait(x, w) \in Nat
    <2>1. {t \in Threads : x.waits[t] = w} \in SUBSET Threads
      OBVIOUS
    <2>2. IsFiniteSet({t \in Threads : x.waits[t] = w})
      BY <2>1, FS_Subset, ChannelAssumption
    <2> QED
      BY <2>2, FS_CardinalityType DEF InWait
  <1> QED
    BY <1>2, <1>3

\* A handle is there when a table has it or a message brings it.
LEMMA AllMembers ==
  ASSUME NEW x
  PROVE \A h : h \in All(x) <=> \/ \E p \in Procs : h \in x.handles[p]
                                \/ \E t \in Threads : h \in x.transit[t]
  BY DEF All

\* The numbers of handles follow the handles.
LEMMA SameHandles ==
  ASSUME NEW x, NEW y, y.handles = x.handles, y.transit = x.transit
  PROVE All(y) = All(x) /\ \A H : Number(y, H) = Number(x, H)
  BY DEF All, Number

\* The numbers of waits follow the waits.
LEMMA SameWaits ==
  ASSUME NEW x, NEW y, y.waits = x.waits
  PROVE \A w : InWait(y, w) = InWait(x, w)
  BY DEF InWait

\* One thread changes its wait.
LEMMA WaitChanges ==
  ASSUME NEW x, StateType(x), NEW t \in Threads, NEW w, NEW y, y.waits = [x.waits EXCEPT ![t] = w]
  PROVE \A v : InWait(y, v) = InWait(x, v) - (IF x.waits[t] = v THEN 1 ELSE 0)
                                           + (IF w = v THEN 1 ELSE 0)
  <1> SUFFICES ASSUME NEW v
               PROVE InWait(y, v) = InWait(x, v) - (IF x.waits[t] = v THEN 1 ELSE 0)
                                                 + (IF w = v THEN 1 ELSE 0)
    OBVIOUS
  <1> DEFINE X == {u \in Threads : x.waits[u] = v}
             Y == {u \in Threads : y.waits[u] = v}
  <1>1. IsFiniteSet(X) /\ InWait(x, v) = Cardinality(X) /\ InWait(y, v) = Cardinality(Y)
        /\ InWait(x, v) \in Nat
    BY NumberTypes DEF InWait
  <1>2. x.waits \in [Threads -> Waits]
    BY DEF StateType
  <1>3. \A u \in Threads : y.waits[u] = IF u = t THEN w ELSE x.waits[u]
    BY <1>2
  <1>4. Y = IF w = v THEN X \cup {t} ELSE X \ {t}
    BY <1>3
  <1>5. t \in X <=> x.waits[t] = v
    OBVIOUS
  <1> HIDE DEF X, Y
  <1>6. /\ Cardinality(X \cup {t}) = IF t \in X THEN Cardinality(X) ELSE Cardinality(X) + 1
        /\ Cardinality(X \ {t}) = IF t \in X THEN Cardinality(X) - 1 ELSE Cardinality(X)
    BY <1>1, FS_AddElement, FS_RemoveElement
  <1> QED
    BY <1>1, <1>4, <1>5, <1>6

\* A thread that waits counts.
LEMMA WaitsCount ==
  ASSUME NEW x, StateType(x), NEW t \in Threads
  PROVE InWait(x, x.waits[t]) > 0
  <1> DEFINE X == {u \in Threads : x.waits[u] = x.waits[t]}
  <1>1. IsFiniteSet(X) /\ InWait(x, x.waits[t]) = Cardinality(X) /\ Cardinality(X) \in Nat
    BY NumberTypes DEF InWait
  <1>2. X # {}
    OBVIOUS
  <1> QED
    BY <1>1, <1>2, FS_EmptySet

\* A handle goes.
LEMMA HandleGoes ==
  ASSUME NEW x, StateType(x), NEW y, NEW h, h \in All(x), All(y) = All(x) \ {h}
  PROVE \A H : Number(y, H) = Number(x, H) - (IF h \in H THEN 1 ELSE 0)
  <1> SUFFICES ASSUME NEW H PROVE Number(y, H) = Number(x, H) - (IF h \in H THEN 1 ELSE 0)
    OBVIOUS
  <1> DEFINE X == All(x) \cap H
  <1>1. IsFiniteSet(X) /\ Number(x, H) = Cardinality(X) /\ Cardinality(X) \in Nat
    BY NumberTypes DEF Number
  <1>2. All(y) \cap H = X \ {h} /\ (h \in X <=> h \in H)
    OBVIOUS
  <1> HIDE DEF X
  <1>3. Cardinality(X \ {h}) = IF h \in X THEN Cardinality(X) - 1 ELSE Cardinality(X)
    BY <1>1, FS_RemoveElement
  <1>4. Number(y, H) = Cardinality(X \ {h})
    BY <1>2 DEF Number
  <1> QED
    BY <1>1, <1>2, <1>3, <1>4

\* A handle comes.
LEMMA HandleComes ==
  ASSUME NEW x, StateType(x), NEW y, NEW h, h \notin All(x), All(y) = All(x) \cup {h}
  PROVE \A H : Number(y, H) = Number(x, H) + (IF h \in H THEN 1 ELSE 0)
  <1> SUFFICES ASSUME NEW H PROVE Number(y, H) = Number(x, H) + (IF h \in H THEN 1 ELSE 0)
    OBVIOUS
  <1> DEFINE X == All(x) \cap H
  <1>1. IsFiniteSet(X) /\ Number(x, H) = Cardinality(X) /\ Cardinality(X) \in Nat
    BY NumberTypes DEF Number
  <1>2. All(y) \cap H = (IF h \in H THEN X \cup {h} ELSE X) /\ h \notin X
    OBVIOUS
  <1> HIDE DEF X
  <1>3. Cardinality(X \cup {h}) = IF h \in X THEN Cardinality(X) ELSE Cardinality(X) + 1
    BY <1>1, FS_AddElement
  <1> QED
    BY <1>1, <1>2, <1>3 DEF Number

\* A handle that is there counts.
LEMMA HandlesCount ==
  ASSUME NEW x, StateType(x), NEW H, NEW h \in H, h \in All(x)
  PROVE Number(x, H) > 0
  <1>1. IsFiniteSet(All(x) \cap H) /\ Number(x, H) = Cardinality(All(x) \cap H) /\ Number(x, H) \in Nat
    BY NumberTypes DEF Number
  <1> QED
    BY <1>1, FS_EmptySet

-----------------------------------------------------------------------------
(* What the operators on the object graph change, field by field.          *)

\* A reference to the channel is let go.
LEMMA ReleaseRefEffect ==
  ASSUME NEW x, IsState(x), NEW y, y = ReleaseRef(x)
  PROVE /\ Keeps(x, y, {"refs", "cleanup"})
        /\ y.refs = x.refs - 1
        /\ y.cleanup = IF x.refs = 1 THEN "shell" ELSE x.cleanup
  BY DEF IsState, Fields, Keeps, ReleaseRef

\* The channel closes; with a queue to empty it holds itself for the stage Close.
LEMMA CloseEffect ==
  ASSUME NEW x, IsState(x), NEW y, y = Close(x)
  PROVE /\ Keeps(x, y, {"closed", "refs", "cleanup"})
        /\ y.closed
        /\ y.refs = IF x.queue = <<>> THEN x.refs ELSE x.refs + 1
        /\ y.cleanup = IF x.queue = <<>> THEN x.cleanup ELSE "close"
  BY DEF IsState, Fields, Keeps, Close

\* A reference to the channel is taken.
LEMMA RetainChannelEffect ==
  ASSUME NEW x, IsState(x), NEW rights, NEW y, y = RetainChannel(x, rights)
  PROVE /\ Keeps(x, y, {"refs", "receivers"})
        /\ y.refs = x.refs + 1
        /\ y.receivers = IF "RECEIVE" \in rights THEN x.receivers + 1 ELSE x.receivers
  BY DEF IsState, Fields, Keeps, RetainChannel

\* The fields that stay.
LEMMA Kept ==
  ASSUME NEW x, NEW y, NEW F, Keeps(x, y, F)
  PROVE /\ IsState(y)
        /\ "queue" \notin F => y.queue = x.queue
        /\ "waiting" \notin F => y.waiting = x.waiting
        /\ "closed" \notin F => y.closed = x.closed
        /\ "receivers" \notin F => y.receivers = x.receivers
        /\ "refs" \notin F => y.refs = x.refs
        /\ "sources" \notin F => y.sources = x.sources
        /\ "cleanup" \notin F => y.cleanup = x.cleanup
        /\ "copies" \notin F => y.copies = x.copies
        /\ "srefs" \notin F => y.srefs = x.srefs
        /\ "session" \notin F => y.session = x.session
        /\ "told" \notin F => y.told = x.told
        /\ "bits" \notin F => y.bits = x.bits
        /\ "waits" \notin F => y.waits = x.waits
        /\ "transit" \notin F => y.transit = x.transit
        /\ "handles" \notin F => y.handles = x.handles
        /\ "accepted" \notin F => y.accepted = x.accepted
  BY DEF Keeps, Fields

\* Keeps, one after another.
LEMMA KeepsBoth ==
  ASSUME NEW x, NEW y, NEW z, NEW F, NEW G, Keeps(x, y, F), Keeps(y, z, G)
  PROVE Keeps(x, z, F \cup G)
  BY DEF Keeps

\* A handle without RECEIVE goes.
LEMMA ReleaseSendEffect ==
  ASSUME NEW x, IsState(x), NEW rights, "RECEIVE" \notin rights, NEW y, y = ReleaseChannel(x, rights)
  PROVE /\ Keeps(x, y, {"refs", "cleanup"})
        /\ y.refs = x.refs - 1
        /\ y.cleanup = IF x.refs = 1 THEN "shell" ELSE x.cleanup
  <1>1. y = ReleaseRef(x)
    BY DEF ReleaseChannel
  <1> QED
    BY <1>1, ReleaseRefEffect

\* A handle with RECEIVE goes: the last one closes the channel.
LEMMA ReleaseReceiveEffect ==
  ASSUME NEW x, IsState(x), x.receivers \in Nat \ {0}, x.refs \in Nat,
         NEW rights, "RECEIVE" \in rights, NEW y, y = ReleaseChannel(x, rights)
  PROVE /\ Keeps(x, y, {"refs", "cleanup", "receivers", "closed"})
        /\ y.receivers = x.receivers - 1
        /\ y.closed <=> (x.closed \/ x.receivers = 1)
        /\ y.refs = IF x.receivers = 1 /\ x.queue # <<>> THEN x.refs ELSE x.refs - 1
        /\ y.cleanup = IF x.receivers = 1 /\ x.queue # <<>>
                       THEN IF x.refs = 0 THEN "shell" ELSE "close"
                       ELSE IF x.refs = 1 THEN "shell" ELSE x.cleanup
  <1> DEFINE less == [x EXCEPT !.receivers = @ - 1]
  <1>1. Keeps(x, less, {"receivers"}) /\ less.receivers = x.receivers - 1
    BY DEF IsState, Fields, Keeps
  <1>2. CASE x.receivers > 1
    <2>1. y = ReleaseRef(less)
      BY <1>1, <1>2 DEF ReleaseChannel
    <2> HIDE DEF less
    <2>2. /\ Keeps(less, y, {"refs", "cleanup"}) /\ y.refs = less.refs - 1
          /\ y.cleanup = IF less.refs = 1 THEN "shell" ELSE less.cleanup
      BY <1>1, <2>1, ReleaseRefEffect DEF Keeps
    <2>3. x.receivers # 1
      BY <1>2
    <2> QED
      BY <1>1, <2>2, <2>3 DEF Keeps, Fields
  <1>3. CASE x.receivers = 1
    <2> DEFINE z == Close(less)
    <2>1. y = ReleaseRef(z)
      BY <1>1, <1>3 DEF ReleaseChannel
    <2> HIDE DEF less
    <2>2. /\ Keeps(less, z, {"closed", "refs", "cleanup"}) /\ z.closed
          /\ z.refs = IF less.queue = <<>> THEN less.refs ELSE less.refs + 1
          /\ z.cleanup = IF less.queue = <<>> THEN less.cleanup ELSE "close"
      BY <1>1, CloseEffect DEF Keeps
    <2> HIDE DEF z
    <2>7. IsState(z)
      BY <2>2 DEF Keeps
    <2>3. /\ Keeps(z, y, {"refs", "cleanup"}) /\ y.refs = z.refs - 1
          /\ y.cleanup = IF z.refs = 1 THEN "shell" ELSE z.cleanup
      BY <2>1, <2>7, ReleaseRefEffect
    <2>8. less.queue = x.queue /\ less.refs = x.refs /\ less.cleanup = x.cleanup /\ z.receivers = less.receivers
          /\ y.receivers = z.receivers /\ (y.closed <=> z.closed)
      BY <1>1, <2>2, <2>3, Kept
    <2>9. Keeps(x, y, {"refs", "cleanup", "receivers", "closed"})
      BY <1>1, <2>2, <2>3 DEF Keeps
    <2>4. /\ z.refs = IF x.queue = <<>> THEN x.refs ELSE x.refs + 1
          /\ z.cleanup = IF x.queue = <<>> THEN x.cleanup ELSE "close"
          /\ y.receivers = 0 /\ y.closed
      BY <1>1, <1>3, <2>2, <2>8
    <2>5. CASE x.queue = <<>>
      BY <1>3, <2>3, <2>4, <2>5, <2>9
    <2>6. CASE x.queue # <<>>
      BY <1>3, <2>3, <2>4, <2>6, <2>9
    <2> QED
      BY <2>5, <2>6
  <1> QED
    BY <1>2, <1>3


\* A reference to the session is let go.
LEMMA UnrefSessionEffect ==
  ASSUME NEW x, IsState(x), NEW y, y = UnrefSession(x)
  PROVE /\ Keeps(x, y, {"srefs", "session"})
        /\ y.srefs = x.srefs - 1
        /\ y.session = IF x.srefs = 1 THEN "shell" ELSE x.session
  BY DEF IsState, Fields, Keeps, UnrefSession

\* A post to a slot that stands in the queue is merged.
LEMMA PostMerged ==
  ASSUME NEW x, IsState(x), NEW s, NEW bit, ~x.closed, IsQueued(x, s), NEW y, y = Post(x, s, bit)
  PROVE /\ Keeps(x, y, {"bits"})
        /\ y.bits = [x.bits EXCEPT ![s] = @ \cup {bit}]
  <1>1. y = [x EXCEPT !.bits = [x.bits EXCEPT ![s] = @ \cup {bit}]]
    BY DEF Post
  <1> QED
    BY <1>1 DEF IsState, Fields, Keeps

\* A post meets a receiver, which leaves with what the slot held.
LEMMA PostHanded ==
  ASSUME NEW x, IsState(x), NEW s, NEW bit, ~x.closed, ~IsQueued(x, s), HasReceivers(x),
         x.bits \in [Slots -> SUBSET {"bit", "gone"}], s \in Slots, NEW y, y = Post(x, s, bit)
  PROVE /\ Keeps(x, y, {"bits", "told", "queue", "waits", "refs", "cleanup"})
        /\ y.bits = [x.bits EXCEPT ![s] = {}]
        /\ y.told <=> x.told \/ (s = "session" /\ "gone" \in x.bits[s] \cup {bit})
        /\ y.queue = Tail(x.queue)
        /\ y.waits = [x.waits EXCEPT ![Head(x.queue)] = NoWait]
        /\ y.refs = x.refs - 1
        /\ y.cleanup = IF x.refs = 1 THEN "shell" ELSE x.cleanup
  <1> DEFINE u == [x EXCEPT !.bits = [x.bits EXCEPT ![s] = @ \cup {bit}]]
             v == [u EXCEPT !.queue = Tail(@)]
             w == Notice(v, s)
             z == [w EXCEPT !.waits = [w.waits EXCEPT ![Head(x.queue)] = NoWait]]
  <1>1. y = ReleaseRef(z)
    BY DEF Post, TakeHead
  <1>2. Keeps(x, u, {"bits"}) /\ u.bits = [x.bits EXCEPT ![s] = @ \cup {bit}]
    BY DEF IsState, Fields, Keeps
  <1> HIDE DEF u
  <1>3. Keeps(u, v, {"queue"}) /\ v.queue = Tail(u.queue)
    BY <1>2 DEF IsState, Fields, Keeps
  <1> HIDE DEF v
  <1>4. /\ Keeps(v, w, {"told", "bits"}) /\ w.bits = [v.bits EXCEPT ![s] = {}]
        /\ w.told <=> v.told \/ (s = "session" /\ "gone" \in v.bits[s])
    BY <1>3 DEF IsState, Fields, Keeps, Notice
  <1> HIDE DEF w
  <1>5. Keeps(w, z, {"waits"}) /\ z.waits = [w.waits EXCEPT ![Head(x.queue)] = NoWait]
    BY <1>4 DEF IsState, Fields, Keeps
  <1> HIDE DEF z
  <1>6. IsState(z)
    BY <1>5 DEF Keeps
  <1>7. /\ Keeps(z, y, {"refs", "cleanup"}) /\ y.refs = z.refs - 1
        /\ y.cleanup = IF z.refs = 1 THEN "shell" ELSE z.cleanup
    BY <1>1, <1>6, ReleaseRefEffect
  <1>8. Keeps(x, y, {"bits", "told", "queue", "waits", "refs", "cleanup"})
    BY <1>2, <1>3, <1>4, <1>5, <1>7 DEF Keeps
  <1>9. /\ u.queue = x.queue /\ u.told = x.told /\ u.waits = x.waits /\ u.refs = x.refs /\ u.cleanup = x.cleanup
    BY <1>2, Kept
  <1>10. /\ v.told = u.told /\ v.bits = u.bits /\ v.waits = u.waits /\ v.refs = u.refs /\ v.cleanup = u.cleanup
    BY <1>3, Kept
  <1>11. w.queue = v.queue /\ w.waits = v.waits /\ w.refs = v.refs /\ w.cleanup = v.cleanup
    BY <1>4, Kept
  <1>12. z.queue = w.queue /\ z.bits = w.bits /\ z.told = w.told /\ z.refs = w.refs /\ z.cleanup = w.cleanup
    BY <1>5, Kept
  <1>13. y.queue = z.queue /\ y.bits = z.bits /\ y.told = z.told /\ y.waits = z.waits
    BY <1>7, Kept
  <1>14. y.bits = [x.bits EXCEPT ![s] = {}]
    BY <1>2, <1>4, <1>10, <1>12, <1>13
  <1>15. y.told <=> x.told \/ (s = "session" /\ "gone" \in x.bits[s] \cup {bit})
    BY <1>2, <1>4, <1>9, <1>10, <1>12, <1>13
  <1> QED
    BY <1>3, <1>5, <1>7, <1>8, <1>9, <1>10, <1>11, <1>12, <1>13, <1>14, <1>15

\* A post with no receiver: the slot goes into the queue and holds its owner.
LEMMA PostQueued ==
  ASSUME NEW x, IsState(x), NEW s, NEW bit, ~x.closed, ~IsQueued(x, s), ~HasReceivers(x),
         NEW y, y = Post(x, s, bit)
  PROVE /\ Keeps(x, y, {"bits", "queue", "waiting", "srefs"})
        /\ y.bits = [x.bits EXCEPT ![s] = @ \cup {bit}]
        /\ y.queue = PushTail(x.queue, s)
        /\ ~y.waiting
        /\ y.srefs = IF s = "session" THEN x.srefs + 1 ELSE x.srefs
  <1> DEFINE u == [x EXCEPT !.bits = [x.bits EXCEPT ![s] = @ \cup {bit}]]
             v == [u EXCEPT !.queue = PushTail(@, s), !.waiting = FALSE]
  <1>1. y = OwnerHold(v, s)
    BY DEF Post, Enqueue
  <1>2. Keeps(x, u, {"bits"}) /\ u.bits = [x.bits EXCEPT ![s] = @ \cup {bit}]
    BY DEF IsState, Fields, Keeps
  <1> HIDE DEF u
  <1>3. Keeps(u, v, {"queue", "waiting"}) /\ v.queue = PushTail(u.queue, s) /\ ~v.waiting
    BY <1>2 DEF IsState, Fields, Keeps
  <1> HIDE DEF v
  <1>4. Keeps(v, y, {"srefs"}) /\ y.srefs = IF s = "session" THEN v.srefs + 1 ELSE v.srefs
    BY <1>1, <1>3 DEF IsState, Fields, Keeps, OwnerHold
  <1>5. Keeps(x, y, {"bits", "queue", "waiting", "srefs"})
    BY <1>2, <1>3, <1>4 DEF Keeps
  <1>6. u.queue = x.queue /\ u.srefs = x.srefs
    BY <1>2, Kept
  <1>7. v.bits = u.bits /\ v.srefs = u.srefs
    BY <1>3, Kept
  <1>8. y.bits = v.bits /\ y.queue = v.queue /\ y.waiting = v.waiting
    BY <1>4, Kept
  <1> QED
    BY <1>2, <1>3, <1>4, <1>5, <1>6, <1>7, <1>8

-----------------------------------------------------------------------------
(* What each operation on the object graph does to the counts.             *)

\* A channel whose stage Close runs stays in it.
StaysClosed(x, y) == x.cleanup = "close" => y.cleanup = "close"

\* What the queue says follows its fields.
LEMMA SameQueue ==
  ASSUME NEW x, QueueOK(x), NEW y, y.queue = x.queue, y.waiting = x.waiting,
         y.waits = x.waits, y.bits = x.bits
  PROVE QueueOK(y)
  BY DEF QueueOK

\* A reference that nothing holds goes.
LEMMA FirmReleaseRef ==
  ASSUME NEW x, NEW r \in Int, NEW c \in Int, NEW f \in Int, NEW g \in Int,
         Firm(x, r, c, f, g), f >= 1, NEW y, y = ReleaseRef(x)
  PROVE Firm(y, r, c, f - 1, g) /\ Keeps(x, y, {"refs", "cleanup"}) /\ StaysClosed(x, y)
  <1>1. /\ Keeps(x, y, {"refs", "cleanup"}) /\ y.refs = x.refs - 1
        /\ y.cleanup = IF x.refs = 1 THEN "shell" ELSE x.cleanup
    BY ReleaseRefEffect DEF Firm, StateType
  <1>2. /\ IsState(y) /\ y.queue = x.queue /\ y.waiting = x.waiting /\ y.closed = x.closed
        /\ y.receivers = x.receivers /\ y.sources = x.sources /\ y.copies = x.copies
        /\ y.srefs = x.srefs /\ y.session = x.session /\ y.told = x.told /\ y.bits = x.bits
        /\ y.waits = x.waits /\ y.transit = x.transit /\ y.handles = x.handles
        /\ y.accepted = x.accepted
    BY <1>1, Kept
  <1>3. /\ \A H : Number(y, H) = Number(x, H) /\ Number(x, H) \in Nat
        /\ \A w : InWait(y, w) = InWait(x, w) /\ InWait(x, w) \in Nat
    BY <1>2, SameHandles, SameWaits, NumberTypes DEF Firm
  <1>4. x.refs >= 1 /\ (x.cleanup = "close" => x.refs >= 2)
    BY <1>3 DEF Firm, Counts
  <1>5. StateType(y)
    BY <1>1, <1>2, <1>4 DEF Firm, StateType
  <1>6. QueueOK(y)
    BY <1>2, SameQueue DEF Firm
  <1>7. x.refs \in Nat /\ x.cleanup \in {"none", "close", "shell", "freed"}
    BY DEF Firm, StateType
  <1>8. y.cleanup = "close" <=> x.cleanup = "close"
    BY <1>1, <1>4, <1>7
  <1>9. Counts(y, r, c, f - 1, g)
    BY <1>1, <1>2, <1>3, <1>7, <1>8 DEF Firm, Counts
  <1>10. Status(y)
    BY <1>1, <1>2, <1>4, <1>7, <1>8 DEF Firm, Status
  <1> QED
    BY <1>1, <1>5, <1>6, <1>8, <1>9, <1>10 DEF Firm, StaysClosed

\* A handle with RECEIVE that nothing holds goes.
LEMMA FirmReleaseReceive ==
  ASSUME NEW x, NEW r \in Int, NEW c \in Int, NEW f \in Int, NEW g \in Int,
         Firm(x, r, c, f, g), r >= 1, f >= 1, NEW rights, "RECEIVE" \in rights,
         NEW y, y = ReleaseChannel(x, rights)
  PROVE /\ Firm(y, r - 1, c, f - 1, g)
        /\ Keeps(x, y, {"refs", "cleanup", "receivers", "closed"}) /\ (x.closed => y.closed)
        /\ StaysClosed(x, y)
  <1>0. /\ \A H : Number(x, H) \in Nat
        /\ \A w : InWait(x, w) \in Nat
    BY NumberTypes DEF Firm
  <1>b. x.refs \in Nat /\ x.receivers \in Nat
    BY DEF Firm, StateType
  <1>c. x.refs >= 1 /\ x.receivers >= 1
    BY <1>0, <1>b DEF Firm, Counts
  <1>d. ~x.closed /\ x.cleanup # "close"
    BY <1>c DEF Firm, Status
  <1>4. x.refs \in Nat /\ x.receivers \in Nat \ {0} /\ x.refs >= 1 /\ ~x.closed /\ x.cleanup # "close"
    BY <1>b, <1>c, <1>d
  <1>1. /\ Keeps(x, y, {"refs", "cleanup", "receivers", "closed"})
        /\ y.receivers = x.receivers - 1
        /\ y.closed <=> (x.closed \/ x.receivers = 1)
        /\ y.refs = IF x.receivers = 1 /\ x.queue # <<>> THEN x.refs ELSE x.refs - 1
        /\ y.cleanup = IF x.receivers = 1 /\ x.queue # <<>>
                       THEN IF x.refs = 0 THEN "shell" ELSE "close"
                       ELSE IF x.refs = 1 THEN "shell" ELSE x.cleanup
    BY <1>4, ReleaseReceiveEffect DEF Firm, StateType
  <1>2. /\ IsState(y) /\ y.queue = x.queue /\ y.waiting = x.waiting
        /\ y.sources = x.sources /\ y.copies = x.copies
        /\ y.srefs = x.srefs /\ y.session = x.session /\ y.told = x.told /\ y.bits = x.bits
        /\ y.waits = x.waits /\ y.transit = x.transit /\ y.handles = x.handles
        /\ y.accepted = x.accepted
    <2>1. Keeps(x, y, {"refs", "cleanup", "receivers", "closed"})
      BY <1>1
    <2> QED
      BY <2>1, Kept
  <1>3. /\ \A H : Number(y, H) = Number(x, H)
        /\ \A w : InWait(y, w) = InWait(x, w)
    BY <1>2, SameHandles, SameWaits
  <1>e. /\ Number(y, Receiving) = Number(x, Receiving) /\ Number(y, Labelled) = Number(x, Labelled)
        /\ Number(y, Counted) = Number(x, Counted) /\ InWait(y, InReceive) = InWait(x, InReceive)
        /\ InWait(y, InSend("channel")) = InWait(x, InSend("channel"))
        /\ InWait(y, InSend("session")) = InWait(x, InSend("session"))
        /\ Number(x, Receiving) \in Nat /\ Number(x, Counted) \in Nat /\ InWait(x, InReceive) \in Nat
        /\ InWait(x, InSend("channel")) \in Nat
    BY <1>0, <1>3
  <1>5. StateType(y)
    BY <1>1, <1>2, <1>4 DEF Firm, StateType
  <1>6. QueueOK(y)
    BY <1>2, SameQueue DEF Firm
  <1>7. x.cleanup \in {"none", "close", "shell", "freed"}
    BY DEF Firm, StateType
  <1>f. y.receivers = x.receivers - 1
    BY <1>1
  <1>8. CASE x.receivers = 1 /\ x.queue # <<>>
    <2>1. y.refs = x.refs /\ y.cleanup = "close" /\ y.closed /\ y.receivers = 0
      BY <1>1, <1>4, <1>8
    <2>9. Counts(y, r - 1, c, f - 1, g)
      BY <1>2, <1>4, <1>e, <1>f, <2>1 DEF Firm, Counts
    <2>10. Status(y)
      BY <1>2, <1>4, <2>1 DEF Firm, Status
    <2> QED
      BY <1>1, <1>4, <1>5, <1>6, <2>9, <2>10 DEF Firm, StaysClosed
  <1>9. CASE ~(x.receivers = 1 /\ x.queue # <<>>)
    <2>1. y.refs = x.refs - 1 /\ y.cleanup # "close" /\ (y.cleanup = IF x.refs = 1 THEN "shell" ELSE x.cleanup)
      BY <1>1, <1>4, <1>9
    <2>9. Counts(y, r - 1, c, f - 1, g)
      BY <1>2, <1>4, <1>e, <1>f, <2>1 DEF Firm, Counts
    <2>10. Status(y)
      BY <1>1, <1>2, <1>4, <1>7, <2>1 DEF Firm, Status
    <2> QED
      BY <1>1, <1>4, <1>5, <1>6, <2>9, <2>10 DEF Firm, StaysClosed
  <1> QED
    BY <1>8, <1>9

\* A reference to the session that nothing holds goes.
LEMMA FirmUnrefSession ==
  ASSUME NEW x, NEW r \in Int, NEW c \in Int, NEW f \in Int, NEW g \in Int,
         Firm(x, r, c, f, g), g >= 1, c >= 0, NEW y, y = UnrefSession(x)
  PROVE /\ Firm(y, r, c, f, g - 1) /\ Keeps(x, y, {"srefs", "session"})
        /\ x.session # "none" /\ y.session # "none"
  <1>1. /\ Keeps(x, y, {"srefs", "session"}) /\ y.srefs = x.srefs - 1
        /\ y.session = IF x.srefs = 1 THEN "shell" ELSE x.session
    BY UnrefSessionEffect DEF Firm, StateType
  <1>2. /\ IsState(y) /\ y.queue = x.queue /\ y.waiting = x.waiting /\ y.closed = x.closed
        /\ y.receivers = x.receivers /\ y.sources = x.sources /\ y.copies = x.copies
        /\ y.refs = x.refs /\ y.cleanup = x.cleanup /\ y.told = x.told /\ y.bits = x.bits
        /\ y.waits = x.waits /\ y.transit = x.transit /\ y.handles = x.handles
        /\ y.accepted = x.accepted
    BY <1>1, Kept
  <1>3. /\ \A H : Number(y, H) = Number(x, H) /\ Number(x, H) \in Nat
        /\ \A w : InWait(y, w) = InWait(x, w) /\ InWait(x, w) \in Nat
    BY <1>2, SameHandles, SameWaits, NumberTypes DEF Firm
  <1>a. x.srefs \in Nat /\ x.copies \in Nat
    BY DEF Firm, StateType
  <1>4. x.srefs \in Nat /\ x.srefs >= 1 /\ x.copies \in Nat
    BY <1>a DEF Firm, Counts
  <1>8. x.session = "live" /\ y.session \in {"live", "shell"} /\ (y.session = "live" <=> y.srefs > 0)
    BY <1>1, <1>4 DEF Firm, Status
  <1>5. StateType(y)
    BY <1>1, <1>2, <1>4, <1>8 DEF Firm, StateType
  <1>6. QueueOK(y)
    BY <1>2, SameQueue DEF Firm
  <1>9. Counts(y, r, c, f, g - 1)
    BY <1>1, <1>2, <1>3, <1>4, <1>8 DEF Firm, Counts
  <1>10. Status(y)
    BY <1>2, <1>8 DEF Firm, Status
  <1> QED
    BY <1>1, <1>5, <1>6, <1>8, <1>9, <1>10 DEF Firm

\* A reference to the channel, and a receiver, are taken.
LEMMA FirmRetainChannel ==
  ASSUME NEW x, NEW r \in Int, NEW c \in Int, NEW f \in Int, NEW g \in Int,
         Firm(x, r, c, f, g), x.refs > 0, NEW rights, "RECEIVE" \in rights => ~x.closed,
         NEW y, y = RetainChannel(x, rights)
  PROVE /\ Firm(y, IF "RECEIVE" \in rights THEN r + 1 ELSE r, c, f + 1, g)
        /\ Keeps(x, y, {"refs", "receivers"}) /\ y.refs > 0
  <1>1. /\ Keeps(x, y, {"refs", "receivers"}) /\ y.refs = x.refs + 1
        /\ y.receivers = IF "RECEIVE" \in rights THEN x.receivers + 1 ELSE x.receivers
    BY RetainChannelEffect DEF Firm, StateType
  <1>2. /\ IsState(y) /\ y.queue = x.queue /\ y.waiting = x.waiting /\ y.closed = x.closed
        /\ y.sources = x.sources /\ y.copies = x.copies /\ y.srefs = x.srefs
        /\ y.session = x.session /\ y.cleanup = x.cleanup /\ y.told = x.told /\ y.bits = x.bits
        /\ y.waits = x.waits /\ y.transit = x.transit /\ y.handles = x.handles
        /\ y.accepted = x.accepted
    BY <1>1, Kept
  <1>3. /\ \A H : Number(y, H) = Number(x, H) /\ Number(x, H) \in Nat
        /\ \A w : InWait(y, w) = InWait(x, w) /\ InWait(x, w) \in Nat
    BY <1>2, SameHandles, SameWaits, NumberTypes DEF Firm
  <1>4. x.refs \in Nat /\ x.receivers \in Nat
    BY DEF Firm, StateType
  <1>5. StateType(y)
    BY <1>1, <1>2, <1>4 DEF Firm, StateType
  <1>6. QueueOK(y)
    BY <1>2, SameQueue DEF Firm
  <1>9. Counts(y, IF "RECEIVE" \in rights THEN r + 1 ELSE r, c, f + 1, g)
    BY <1>1, <1>2, <1>3, <1>4 DEF Firm, Counts
  <1>10. Status(y)
    BY <1>1, <1>2, <1>4 DEF Firm, Status
  <1> QED
    BY <1>1, <1>4, <1>5, <1>6, <1>9, <1>10 DEF Firm


\* A thread leaves the queue with its wait.
LEMMA QueueLeaves ==
  ASSUME NEW x, StateType(x), QueueOK(x), NEW t \in Threads, NEW w, w \notin Stands,
         NEW y, y.waits = [x.waits EXCEPT ![t] = w], y.bits = x.bits, y.waiting = x.waiting,
         Distinct(y.queue), Elems(y.queue) = Elems(x.queue) \ {t}
  PROVE QueueOK(y)
  <1>1. \A u \in Threads : y.waits[u] = IF u = t THEN w ELSE x.waits[u]
    BY DEF StateType
  <1>2. InReceive \in Stands
    BY DEF Stands
  <1>3. \A s \in Slots : s # t
    BY ChannelAssumption DEF Slots
  <1>4. \A u \in Threads : u \in Elems(y.queue) <=> y.waits[u] \in Stands
    BY <1>1 DEF QueueOK
  <1>5. \A s \in Slots : s \in Elems(y.queue) <=> y.bits[s] # {}
    BY <1>3 DEF QueueOK
  <1>6. y.waiting => \A i \in Elems(y.queue) : i \in Threads /\ y.waits[i] = InReceive
    BY <1>1 DEF QueueOK
  <1>7. ~y.waiting => \A u \in Threads : y.waits[u] # InReceive
    BY <1>1, <1>2 DEF QueueOK
  <1> QED
    BY <1>4, <1>5, <1>6, <1>7 DEF QueueOK

\* A thread joins the queue, as a receiver of one that holds receivers or
\* nothing, or as a request of one that holds no receivers.
LEMMA QueueJoins ==
  ASSUME NEW x, StateType(x), QueueOK(x), NEW t \in Threads, NEW w \in Stands,
         NEW y, y.waits = [x.waits EXCEPT ![t] = w], y.bits = x.bits,
         y.waiting <=> w = InReceive,
         w = InReceive => x.waiting \/ x.queue = <<>>,
         w # InReceive => ~x.waiting \/ x.queue = <<>>,
         Distinct(y.queue), Elems(y.queue) = Elems(x.queue) \cup {t}
  PROVE QueueOK(y)
  <1>1. \A u \in Threads : y.waits[u] = IF u = t THEN w ELSE x.waits[u]
    BY DEF StateType
  <1>2. InReceive \in Stands
    BY DEF Stands
  <1>3. \A s \in Slots : s # t
    BY ChannelAssumption DEF Slots
  <1>8. x.queue = <<>> => Elems(x.queue) = {}
    BY ElemsFacts DEF StateType
  <1>4. \A u \in Threads : u \in Elems(y.queue) <=> y.waits[u] \in Stands
    BY <1>1 DEF QueueOK
  <1>5. \A s \in Slots : s \in Elems(y.queue) <=> y.bits[s] # {}
    BY <1>3 DEF QueueOK
  <1>6. y.waiting => \A i \in Elems(y.queue) : i \in Threads /\ y.waits[i] = InReceive
    BY <1>1, <1>8 DEF QueueOK
  <1>7. ~y.waiting => \A u \in Threads : y.waits[u] # InReceive
    BY <1>1, <1>2, <1>8 DEF QueueOK
  <1> QED
    BY <1>4, <1>5, <1>6, <1>7 DEF QueueOK

\* A slot leaves the queue, empty.
LEMMA QueueSlotLeaves ==
  ASSUME NEW x, StateType(x), QueueOK(x), NEW s \in Slots, ~x.waiting,
         NEW y, y.waits = x.waits, y.bits = [x.bits EXCEPT ![s] = {}], y.waiting = x.waiting,
         Distinct(y.queue), Elems(y.queue) = Elems(x.queue) \ {s}
  PROVE QueueOK(y)
  <1>1. \A i \in Slots : y.bits[i] = IF i = s THEN {} ELSE x.bits[i]
    BY DEF StateType
  <1>2. s \notin Threads
    BY ChannelAssumption DEF Slots
  <1>4. \A u \in Threads : u \in Elems(y.queue) <=> y.waits[u] \in Stands
    BY <1>2 DEF QueueOK
  <1>5. \A i \in Slots : i \in Elems(y.queue) <=> y.bits[i] # {}
    BY <1>1 DEF QueueOK
  <1> QED
    BY <1>4, <1>5 DEF QueueOK

\* A slot that holds something joins a queue that holds no receivers.
LEMMA QueueSlotJoins ==
  ASSUME NEW x, StateType(x), QueueOK(x), NEW s \in Slots, NEW bit, ~x.waiting \/ x.queue = <<>>,
         NEW y, y.waits = x.waits, y.bits = [x.bits EXCEPT ![s] = @ \cup {bit}], ~y.waiting,
         Distinct(y.queue), Elems(y.queue) = Elems(x.queue) \cup {s}
  PROVE QueueOK(y)
  <1>1. /\ \A i \in Slots : i # s => y.bits[i] = x.bits[i]
        /\ y.bits[s] = x.bits[s] \cup {bit}
    BY DEF StateType
  <1>2. s \notin Threads
    BY ChannelAssumption DEF Slots
  <1>3. InReceive \in Stands
    BY DEF Stands
  <1>8. x.queue = <<>> => Elems(x.queue) = {}
    BY ElemsFacts DEF StateType
  <1>4. \A u \in Threads : u \in Elems(y.queue) <=> y.waits[u] \in Stands
    BY <1>2 DEF QueueOK
  <1>5. \A i \in Slots : i \in Elems(y.queue) <=> y.bits[i] # {}
    BY <1>1 DEF QueueOK
  <1>7. \A u \in Threads : y.waits[u] # InReceive
    BY <1>3, <1>8 DEF QueueOK
  <1> QED
    BY <1>4, <1>5, <1>7 DEF QueueOK

\* A slot that stands in the queue takes one bit more.
LEMMA QueueSlotStays ==
  ASSUME NEW x, StateType(x), QueueOK(x), NEW s \in Elems(x.queue), s \in Slots, NEW bit,
         NEW y, y.waits = x.waits, y.bits = [x.bits EXCEPT ![s] = @ \cup {bit}],
         y.waiting = x.waiting, y.queue = x.queue
  PROVE QueueOK(y)
  <1>1. /\ \A i \in Slots : i # s => y.bits[i] = x.bits[i]
        /\ y.bits[s] = x.bits[s] \cup {bit}
    BY DEF StateType
  <1>5. \A i \in Slots : i \in Elems(y.queue) <=> y.bits[i] # {}
    BY <1>1 DEF QueueOK
  <1> QED
    BY <1>5 DEF QueueOK


\* Waits end between `x` and `y` of receivers only.
Ended(x, y) == \A t \in Threads : y.waits[t] = x.waits[t] \/ (x.waits[t] = InReceive /\ y.waits[t] = NoWait)

\* A post is merged, received or queued; the counts stay exact, and
\* CLIENT_GONE is told or in the slot unless the channel is closed.
LEMMA FirmPost ==
  ASSUME NEW x, NEW r \in Int, NEW c \in Int, NEW f \in Nat, NEW g \in Int,
         Firm(x, r, c, f, g), NEW s \in Slots, NEW bit \in {"bit", "gone"},
         s = "session" => x.srefs > 0, NEW y, y = Post(x, s, bit)
  PROVE /\ Firm(y, r, c, f, g)
        /\ Keeps(x, y, {"bits", "told", "queue", "waits", "refs", "cleanup", "waiting", "srefs"})
        /\ Ended(x, y) /\ StaysClosed(x, y)
        /\ Word(y) <=> Word(x) \/ (s = "session" /\ bit = "gone" /\ ~x.closed)
        /\ y.srefs >= x.srefs
  <1>0. /\ \A H : Number(x, H) \in Nat
        /\ \A w : InWait(x, w) \in Nat
        /\ StateType(x) /\ QueueOK(x) /\ IsState(x)
    BY NumberTypes DEF Firm, StateType
  <1>q. IsQueued(x, s) <=> s \in Elems(x.queue)
    BY <1>0, ElemsFacts DEF IsQueued, StateType
  <1>t. x.refs \in Nat /\ x.srefs \in Nat /\ x.copies \in Nat
        /\ x.cleanup \in {"none", "close", "shell", "freed"}
    BY <1>0 DEF StateType
  <1>1. CASE x.closed
    <2>1. y = x
      BY <1>1 DEF Post
    <2> QED
      BY <1>1, <1>0, <1>t, <2>1 DEF Keeps, Ended, StaysClosed
  <1>2. CASE ~x.closed /\ IsQueued(x, s)
    <2>1. Keeps(x, y, {"bits"}) /\ y.bits = [x.bits EXCEPT ![s] = @ \cup {bit}]
      BY <1>0, <1>2, PostMerged
    <2>2. /\ IsState(y) /\ y.queue = x.queue /\ y.waiting = x.waiting /\ y.closed = x.closed
          /\ y.receivers = x.receivers /\ y.refs = x.refs /\ y.sources = x.sources
          /\ y.cleanup = x.cleanup /\ y.copies = x.copies /\ y.srefs = x.srefs
          /\ y.session = x.session /\ y.told = x.told /\ y.waits = x.waits
          /\ y.transit = x.transit /\ y.handles = x.handles /\ y.accepted = x.accepted
      BY <2>1, Kept
    <2>3. StateType(y)
      BY <1>0, <2>1, <2>2 DEF StateType, Bits
    <2>4. QueueOK(y)
      BY <1>0, <1>2, <1>q, <2>1, <2>2, QueueSlotStays
    <2>5. /\ \A H : Number(y, H) = Number(x, H)
          /\ \A w : InWait(y, w) = InWait(x, w)
      BY <2>2, SameHandles, SameWaits
    <2>6. Counts(y, r, c, f, g) /\ Status(y)
      BY <2>2, <2>5 DEF Firm, Counts, Status
    <2>7. "gone" \in y.bits["session"] <=> "gone" \in x.bits["session"] \/ (s = "session" /\ bit = "gone")
      BY <1>0, <2>1 DEF StateType, Slots
    <2>8. Keeps(x, y, {"bits", "told", "queue", "waits", "refs", "cleanup", "waiting", "srefs"})
      BY <2>1 DEF Keeps
    <2> QED
      BY <1>2, <1>t, <2>2, <2>3, <2>4, <2>6, <2>7, <2>8 DEF Firm, Word, Ended, StaysClosed
  <1>3. CASE ~x.closed /\ ~IsQueued(x, s) /\ HasReceivers(x)
    <2> DEFINE t == Head(x.queue)
    <2>1. /\ Keeps(x, y, {"bits", "told", "queue", "waits", "refs", "cleanup"})
          /\ y.bits = [x.bits EXCEPT ![s] = {}]
          /\ y.told <=> x.told \/ (s = "session" /\ "gone" \in x.bits[s] \cup {bit})
          /\ y.queue = Tail(x.queue)
          /\ y.waits = [x.waits EXCEPT ![t] = NoWait]
          /\ y.refs = x.refs - 1
          /\ y.cleanup = IF x.refs = 1 THEN "shell" ELSE x.cleanup
      <3>1. x.bits \in [Slots -> SUBSET {"bit", "gone"}]
        BY <1>0 DEF StateType, Bits
      <3> QED
        BY <1>0, <1>3, <3>1, PostHanded
    <2>2. /\ IsState(y) /\ y.waiting = x.waiting /\ y.closed = x.closed
          /\ y.receivers = x.receivers /\ y.sources = x.sources
          /\ y.copies = x.copies /\ y.srefs = x.srefs /\ y.session = x.session
          /\ y.transit = x.transit /\ y.handles = x.handles /\ y.accepted = x.accepted
      <3>1. Keeps(x, y, {"bits", "told", "queue", "waits", "refs", "cleanup"})
        BY <2>1
      <3> QED
        BY <3>1, Kept
    <2>3. /\ Tail(x.queue) \in Seq(Threads \cup Slots) /\ Distinct(Tail(x.queue))
          /\ Elems(Tail(x.queue)) = Elems(x.queue) \ {t} /\ t \in Elems(x.queue)
      BY <1>0, <1>3, TailFacts DEF StateType, HasReceivers, QueueOK
    <2>4. t \in Threads /\ x.waits[t] = InReceive
      BY <1>0, <1>3, <2>3 DEF QueueOK, HasReceivers
    <2> HIDE DEF t
    <2>5. x.bits[s] = {} /\ y.bits = x.bits
      <3>1. x.bits[s] = {}
        BY <1>0, <1>3, <1>q DEF QueueOK
      <3>2. x.bits \in [Slots -> Bits]
        BY <1>0 DEF StateType
      <3>3. y.bits = [x.bits EXCEPT ![s] = {}]
        BY <2>1
      <3> QED
        BY <3>1, <3>2, <3>3
    <2>6. QueueOK(y)
      <3>1. /\ y.queue = Tail(x.queue) /\ y.waits = [x.waits EXCEPT ![t] = NoWait]
            /\ y.waiting = x.waiting /\ y.bits = x.bits
        BY <2>1, <2>2, <2>5
      <3>2. Distinct(y.queue) /\ Elems(y.queue) = Elems(x.queue) \ {t}
        BY <2>3, <3>1
      <3>3. NoWait \notin Stands
        BY StandKinds
      <3> QED
        BY <1>0, <2>4, <3>1, <3>2, <3>3, QueueLeaves
    <2>7. /\ \A H : Number(y, H) = Number(x, H)
          /\ InWait(y, InReceive) = InWait(x, InReceive) - 1
          /\ InWait(y, InSend("channel")) = InWait(x, InSend("channel"))
          /\ InWait(y, InSend("session")) = InWait(x, InSend("session"))
          /\ InWait(x, InReceive) > 0
      <3>1. \A v : InWait(y, v) = InWait(x, v) - (IF x.waits[t] = v THEN 1 ELSE 0)
                                               + (IF NoWait = v THEN 1 ELSE 0)
        BY <1>0, <2>1, <2>4, WaitChanges
      <3>2. InWait(x, InReceive) > 0
        BY <1>0, <2>4, WaitsCount
      <3>3. \A H : Number(y, H) = Number(x, H)
        BY <2>2, SameHandles
      <3> QED
        BY <1>0, <2>4, <3>1, <3>2, <3>3, WaitKinds
    <2>8. x.refs >= 1 /\ x.cleanup # "close"
      <3>1. x.cleanup # "close"
        BY <1>3 DEF Firm, Status
      <3>2. Number(x, Counted) \in Nat /\ InWait(x, InSend("channel")) \in Nat /\ InWait(x, InReceive) \in Nat
        BY <1>0
      <3> QED
        BY <2>7, <3>1, <3>2 DEF Firm, Counts
    <2>9. StateType(y)
      <3>1. y.waits \in [Threads -> Waits]
        BY <1>0, <2>1, StandKinds DEF StateType
      <3>2. y.queue = Tail(x.queue) /\ y.refs \in Nat /\ y.cleanup \in {"none", "close", "shell", "freed"}
        BY <1>t, <2>1, <2>8
      <3> QED
        BY <1>0, <2>2, <2>3, <2>5, <3>1, <3>2 DEF StateType
    <2>10. "session" \in Elems(y.queue) <=> "session" \in Elems(x.queue)
      BY <2>1, <2>3, <2>4, ChannelAssumption DEF Slots
    <2>11. y.cleanup # "close" /\ y.refs = x.refs - 1
      BY <2>1, <2>8
    <2>12. Counts(y, r, c, f, g)
      <3>1. /\ Number(y, Receiving) = Number(x, Receiving) /\ Number(y, Labelled) = Number(x, Labelled)
            /\ Number(y, Counted) = Number(x, Counted)
            /\ Number(x, Counted) \in Nat /\ InWait(x, InSend("channel")) \in Nat /\ InWait(x, InReceive) \in Nat
        BY <1>0, <2>7
      <3> QED
        BY <1>t, <2>2, <2>7, <2>8, <2>10, <2>11, <3>1 DEF Firm, Counts
    <2>13. Status(y)
      BY <1>t, <2>1, <2>2, <2>8 DEF Firm, Status
    <2>14. Word(y) <=> Word(x) \/ (s = "session" /\ bit = "gone")
      BY <2>1, <2>5 DEF Word
    <2>15. Keeps(x, y, {"bits", "told", "queue", "waits", "refs", "cleanup", "waiting", "srefs"})
      BY <2>1 DEF Keeps
    <2>16. Ended(x, y)
      BY <1>0, <2>1, <2>4 DEF StateType, Ended
    <2> QED
      BY <1>3, <1>t, <2>2, <2>6, <2>8, <2>9, <2>12, <2>13, <2>14, <2>15, <2>16 DEF Firm, StaysClosed
  <1>4. CASE ~x.closed /\ ~IsQueued(x, s) /\ ~HasReceivers(x)
    <2>1. /\ Keeps(x, y, {"bits", "queue", "waiting", "srefs"})
          /\ y.bits = [x.bits EXCEPT ![s] = @ \cup {bit}]
          /\ y.queue = PushTail(x.queue, s)
          /\ ~y.waiting
          /\ y.srefs = IF s = "session" THEN x.srefs + 1 ELSE x.srefs
      <3>1. IsState(x) /\ ~x.closed /\ ~IsQueued(x, s) /\ ~HasReceivers(x)
        BY <1>0, <1>4
      <3> QED
        BY <3>1, PostQueued
    <2>2. /\ IsState(y) /\ y.closed = x.closed /\ y.told = x.told
          /\ y.receivers = x.receivers /\ y.refs = x.refs /\ y.sources = x.sources
          /\ y.cleanup = x.cleanup /\ y.copies = x.copies /\ y.session = x.session
          /\ y.waits = x.waits
          /\ y.transit = x.transit /\ y.handles = x.handles /\ y.accepted = x.accepted
      <3>1. Keeps(x, y, {"bits", "queue", "waiting", "srefs"})
        BY <2>1
      <3> QED
        BY <3>1, Kept
    <2>3. /\ PushTail(x.queue, s) \in Seq(Threads \cup Slots) /\ Distinct(PushTail(x.queue, s))
          /\ Elems(PushTail(x.queue, s)) = Elems(x.queue) \cup {s}
      BY <1>0, <1>4, <1>q, PushTailFacts DEF StateType, QueueOK
    <2>4. StateType(y)
      <3>1. y.bits \in [Slots -> Bits]
        BY <1>0, <2>1 DEF StateType, Bits
      <3> QED
        BY <1>0, <1>t, <2>1, <2>2, <2>3, <3>1 DEF StateType
    <2>5. QueueOK(y)
      <3>1. /\ y.queue = PushTail(x.queue, s) /\ y.waits = x.waits /\ ~y.waiting
            /\ y.bits = [x.bits EXCEPT ![s] = @ \cup {bit}]
        BY <2>1, <2>2
      <3>2. Distinct(y.queue) /\ Elems(y.queue) = Elems(x.queue) \cup {s}
        BY <2>3, <3>1
      <3>3. ~x.waiting \/ x.queue = <<>>
        BY <1>4 DEF HasReceivers
      <3> QED
        BY <1>0, <3>1, <3>2, <3>3, QueueSlotJoins
    <2>6. /\ \A H : Number(y, H) = Number(x, H)
          /\ \A w : InWait(y, w) = InWait(x, w)
      BY <2>2, SameHandles, SameWaits
    <2>7. "session" \in Elems(y.queue) <=> "session" \in Elems(x.queue) \/ s = "session"
      BY <2>1, <2>3
    <2>8. s = "session" => "session" \notin Elems(x.queue)
      BY <1>4, <1>q
    <2>9. Counts(y, r, c, f, g)
      BY <1>t, <2>1, <2>2, <2>6, <2>7, <2>8 DEF Firm, Counts
    <2>10. Status(y)
      BY <1>t, <2>1, <2>2 DEF Firm, Status
    <2>11. "gone" \in y.bits["session"] <=> "gone" \in x.bits["session"] \/ (s = "session" /\ bit = "gone")
      BY <1>0, <2>1 DEF StateType, Slots
    <2>15. Keeps(x, y, {"bits", "told", "queue", "waits", "refs", "cleanup", "waiting", "srefs"})
      BY <2>1 DEF Keeps
    <2>16. Ended(x, y)
      BY <2>2 DEF Ended
    <2>17. y.srefs >= x.srefs
      BY <1>t, <2>1
    <2>18. Word(y) <=> Word(x) \/ (s = "session" /\ bit = "gone" /\ ~x.closed)
      BY <1>4, <2>2, <2>11 DEF Word
    <2> QED
      BY <2>2, <2>4, <2>5, <2>9, <2>10, <2>15, <2>16, <2>17, <2>18 DEF Firm, StaysClosed
  <1> QED
    BY <1>1, <1>2, <1>3, <1>4


-----------------------------------------------------------------------------
(* What is let go: each release uses up what nothing holds any more, moves *)
(* no handle, and ends the waits of receivers only.                        *)

Frame(x, y) ==
    /\ y.handles = x.handles /\ y.transit = x.transit /\ y.accepted = x.accepted
    /\ Ended(x, y) /\ StaysClosed(x, y)

One(h, H) == IF h \in H THEN 1 ELSE 0

\* One release after another.
LEMMA FrameBoth ==
  ASSUME NEW x, NEW y, NEW z, Frame(x, y), Frame(y, z)
  PROVE Frame(x, z)
  BY WaitKinds DEF Frame, Ended, StaysClosed

\* A state that keeps handles, transit, accepted requests and waits.
LEMMA FrameKept ==
  ASSUME NEW x, NEW y, NEW F, Keeps(x, y, F),
         "handles" \notin F, "transit" \notin F, "accepted" \notin F, "waits" \notin F,
         StaysClosed(x, y)
  PROVE Frame(x, y)
  BY Kept DEF Frame, Ended

\* A reference without RECEIVE.
LEMMA SoundReleaseRef ==
  ASSUME NEW x, NEW r \in Int, NEW c \in Int, NEW f \in Int, Sound(x, r, c, f), f >= 1,
         NEW y, y = ReleaseRef(x)
  PROVE Sound(y, r, c, f - 1) /\ Frame(x, y)
  <1>1. Firm(y, r, c, f - 1, 0) /\ Keeps(x, y, {"refs", "cleanup"}) /\ StaysClosed(x, y)
    BY FirmReleaseRef DEF Sound
  <1>2. /\ y.told = x.told /\ y.bits = x.bits /\ y.copies = x.copies /\ y.session = x.session
        /\ y.closed = x.closed
    BY <1>1, Kept
  <1>3. Gone(y)
    BY <1>2 DEF Sound, Gone, Word
  <1> QED
    BY <1>1, <1>3, FrameKept DEF Sound

\* A handle to the channel, or what a wait held.
LEMMA SoundReleaseChannel ==
  ASSUME NEW x, NEW r \in Int, NEW c \in Int, NEW f \in Int, Sound(x, r, c, f), f >= 1,
         NEW rights, "RECEIVE" \in rights => r >= 1, NEW y, y = ReleaseChannel(x, rights)
  PROVE /\ Sound(y, IF "RECEIVE" \in rights THEN r - 1 ELSE r, c, f - 1)
        /\ Frame(x, y)
  <1>1. CASE "RECEIVE" \notin rights
    <2>1. y = ReleaseRef(x)
      BY <1>1 DEF ReleaseChannel
    <2> QED
      BY <1>1, <2>1, SoundReleaseRef
  <1>2. CASE "RECEIVE" \in rights
    <2>1. /\ Firm(y, r - 1, c, f - 1, 0)
          /\ Keeps(x, y, {"refs", "cleanup", "receivers", "closed"}) /\ (x.closed => y.closed)
          /\ StaysClosed(x, y)
      BY <1>2, FirmReleaseReceive DEF Sound
    <2>2. Keeps(x, y, {"refs", "cleanup", "receivers", "closed"})
      BY <2>1
    <2>3. y.told = x.told /\ y.bits = x.bits /\ y.copies = x.copies /\ y.session = x.session
      BY <2>2, Kept
    <2>4. Gone(y)
      BY <2>1, <2>3 DEF Sound, Gone, Word
    <2> QED
      BY <1>2, <2>1, <2>4, FrameKept DEF Sound
  <1> QED
    BY <1>1, <1>2

\* A copy of the session goes; with the last one CLIENT_GONE is posted.
LEMMA SoundReleaseCopy ==
  ASSUME NEW x, NEW r \in Int, NEW c \in Int, NEW f \in Nat, Sound(x, r, c, f), c >= 1,
         NEW less, Keeps(x, less, {"copies"}), less.copies = x.copies - 1,
         NEW z, less.copies = 0 => z = Post(less, "session", "gone"), less.copies # 0 => z = less,
         NEW y, y = UnrefSession(z)
  PROVE Sound(y, r, c - 1, f) /\ Frame(x, y)
  <1> DEFINE d == c - 1
  <1>0. StateType(x) /\ IsState(x) /\ x.copies \in Nat /\ x.srefs \in Nat
    BY DEF Sound, Firm, StateType
  <1>n. /\ Number(x, Labelled) \in Nat /\ InWait(x, InSend("session")) \in Nat
    BY <1>0, NumberTypes
  <1>c. x.copies >= 1 /\ x.srefs >= 1 /\ ~Word(x)
    <2>1. x.copies >= 1
      BY <1>0, <1>n DEF Sound, Firm, Counts
    <2>2. x.srefs >= 1
      BY <1>0, <2>1 DEF Sound, Firm, Counts
    <2> QED
      BY <2>1, <2>2 DEF Sound, Gone
  <1>1. Keeps(x, less, {"copies"}) /\ less.copies = x.copies - 1
    OBVIOUS
  <1>2. /\ IsState(less) /\ less.queue = x.queue /\ less.waiting = x.waiting /\ less.closed = x.closed
        /\ less.receivers = x.receivers /\ less.refs = x.refs /\ less.sources = x.sources
        /\ less.cleanup = x.cleanup /\ less.srefs = x.srefs
        /\ less.session = x.session /\ less.told = x.told /\ less.bits = x.bits
        /\ less.waits = x.waits /\ less.transit = x.transit /\ less.handles = x.handles
        /\ less.accepted = x.accepted
    BY <1>1, Kept
  <1>3. /\ \A H : Number(less, H) = Number(x, H)
        /\ \A w : InWait(less, w) = InWait(x, w)
    BY <1>2, SameHandles, SameWaits
  <1>4. Firm(less, r, c - 1, f, 1)
    <2>1. StateType(less)
      BY <1>0, <1>1, <1>2, <1>c DEF StateType
    <2>2. QueueOK(less)
      BY <1>2, SameQueue DEF Sound, Firm
    <2>3. Counts(less, r, c - 1, f, 1)
      BY <1>0, <1>1, <1>2, <1>3, <1>n DEF Sound, Firm, Counts
    <2>4. Status(less)
      BY <1>2 DEF Sound, Firm, Status
    <2> QED
      BY <2>1, <2>2, <2>3, <2>4 DEF Firm
  <1>d. d \in Nat /\ Firm(less, r, d, f, 1)
    BY <1>4
  <1> HIDE DEF d
  <1>f. Frame(x, less)
    BY <1>1, <1>2, FrameKept DEF StaysClosed
  <1>w. ~Word(less)
    BY <1>2, <1>c DEF Word
  <1>5. CASE less.copies = 0
    <2>1. z = Post(less, "session", "gone")
      BY <1>5
    <2>2. /\ Firm(z, r, d, f, 1)
          /\ Keeps(less, z, {"bits", "told", "queue", "waits", "refs", "cleanup", "waiting", "srefs"})
          /\ Ended(less, z) /\ StaysClosed(less, z)
          /\ Word(z) <=> ~less.closed
      <3>1. "session" \in Slots /\ less.srefs > 0
        BY <1>0, <1>2, <1>c DEF Slots
      <3>2. /\ Firm(z, r, d, f, 1)
            /\ Keeps(less, z, {"bits", "told", "queue", "waits", "refs", "cleanup", "waiting", "srefs"})
            /\ Ended(less, z) /\ StaysClosed(less, z)
            /\ Word(z) <=> Word(less) \/ ("session" = "session" /\ "gone" = "gone" /\ ~less.closed)
        BY <1>4, <1>d, <2>1, <3>1, FirmPost
      <3> QED
        BY <1>w, <3>2
    <2>3. Keeps(less, z, {"bits", "told", "queue", "waits", "refs", "cleanup", "waiting", "srefs"})
      BY <2>2
    <2>4. z.copies = less.copies /\ z.closed = less.closed /\ z.handles = less.handles
          /\ z.transit = less.transit /\ z.accepted = less.accepted
      BY <2>3, Kept
    <2>5. Frame(less, z)
      BY <2>2, <2>4 DEF Frame
    <2>6. Firm(y, r, d, f, 0) /\ Keeps(z, y, {"srefs", "session"})
      <3>1. Firm(y, r, d, f, 1 - 1) /\ Keeps(z, y, {"srefs", "session"})
        BY <1>d, <2>2, FirmUnrefSession
      <3> QED
        BY <3>1
    <2>7. y.told = z.told /\ y.bits = z.bits /\ y.copies = z.copies /\ y.closed = z.closed
          /\ y.cleanup = z.cleanup
      BY <2>6, Kept
    <2>8. Gone(y)
      BY <1>5, <2>2, <2>4, <2>7 DEF Gone, Word
    <2>9. Frame(z, y)
      BY <2>6, <2>7, FrameKept DEF StaysClosed
    <2> QED
      BY <1>f, <2>5, <2>6, <2>8, <2>9, FrameBoth DEF Sound, d
  <1>6. CASE less.copies # 0
    <2>1. y = UnrefSession(less)
      BY <1>6
    <2>6. Firm(y, r, d, f, 0) /\ Keeps(less, y, {"srefs", "session"})
      <3>1. Firm(y, r, d, f, 1 - 1) /\ Keeps(less, y, {"srefs", "session"})
        BY <1>d, <2>1, FirmUnrefSession
      <3> QED
        BY <3>1
    <2>7. y.told = less.told /\ y.bits = less.bits /\ y.copies = less.copies /\ y.cleanup = less.cleanup
      BY <2>6, Kept
    <2>8. Gone(y)
      BY <1>6, <1>w, <2>7 DEF Gone, Word
    <2>9. Frame(less, y)
      BY <2>6, <2>7, FrameKept DEF StaysClosed
    <2> QED
      BY <1>f, <2>6, <2>8, <2>9, FrameBoth DEF Sound, d
  <1> QED
    BY <1>5, <1>6

\* A handle to the session, or what a request held.
LEMMA SoundReleaseSession ==
  ASSUME NEW x, NEW r \in Nat, NEW c \in Nat, NEW f \in Nat, NEW rights,
         Sound(x, IF "RECEIVE" \in rights THEN r + 1 ELSE r, c + 1,
                  IF "RECEIVE" \in rights THEN f + 1 ELSE f),
         NEW y, y = ReleaseSession(x, rights)
  PROVE Sound(y, r, c, f) /\ Frame(x, y)
  <1> DEFINE left == IF "RECEIVE" \in rights THEN ReleaseChannel(x, rights) ELSE x
             less == [left EXCEPT !.copies = @ - 1]
  <1>1. y = UnrefSession(IF less.copies = 0 THEN Post(less, "session", "gone") ELSE less)
    BY DEF ReleaseSession
  <1>2. Sound(left, r, c + 1, f) /\ Frame(x, left)
    <2>1. CASE "RECEIVE" \in rights
      <3>1. left = ReleaseChannel(x, rights) /\ Sound(x, r + 1, c + 1, f + 1)
        BY <2>1
      <3> HIDE DEF left
      <3>2. Sound(left, r + 1 - 1, c + 1, f + 1 - 1) /\ Frame(x, left)
        BY <2>1, <3>1, SoundReleaseChannel
      <3> QED
        BY <3>2
    <2>2. CASE "RECEIVE" \notin rights
      <3>1. left = x /\ Sound(x, r, c + 1, f)
        BY <2>2
      <3> QED
        BY <3>1 DEF Frame, Ended, StaysClosed
    <2> QED
      BY <2>1, <2>2
  <1> HIDE DEF left
  <1>3. Keeps(left, less, {"copies"}) /\ less.copies = left.copies - 1
    <2>1. IsState(left)
      BY <1>2 DEF Sound, Firm, StateType
    <2> QED
      BY <2>1 DEF IsState, Fields, Keeps
  <1> HIDE DEF less
  <1>4. PICK z : /\ less.copies = 0 => z = Post(less, "session", "gone")
                 /\ less.copies # 0 => z = less
                 /\ y = UnrefSession(z)
    <2>1. CASE less.copies = 0
      BY <1>1, <2>1
    <2>2. CASE less.copies # 0
      BY <1>1, <2>2
    <2> QED
      BY <2>1, <2>2
  <1>5. Sound(y, r, c + 1 - 1, f) /\ Frame(left, y)
    <2>1. PICK e \in Int : e = c + 1
      OBVIOUS
    <2>2. Sound(left, r, e, f) /\ e >= 1 /\ r \in Int
      BY <1>2, <2>1
    <2>3. Sound(y, r, e - 1, f) /\ Frame(left, y)
      BY ONLY <1>3, <1>4, <2>2, f \in Nat, SoundReleaseCopy
    <2> QED
      BY <2>1, <2>3
  <1>6. c + 1 - 1 = c
    OBVIOUS
  <1> QED
    BY <1>2, <1>5, <1>6, FrameBoth

\* object::release: a handle goes.
LEMMA SoundRelease ==
  ASSUME NEW x, NEW r \in Nat, NEW c \in Nat, NEW f \in Nat, NEW h \in Handles,
         Sound(x, r + One(h, Receiving), c + One(h, Labelled), f + One(h, Counted)),
         NEW y, y = Release(x, h)
  PROVE Sound(y, r, c, f) /\ Frame(x, y)
  <1>1. "RECEIVE" \in Rights(h) <=> h \in Receiving
    BY DEF Rights
  <1>2. CASE h \in Labelled
    <2>1. /\ One(h, Labelled) = 1
          /\ r + One(h, Receiving) = IF "RECEIVE" \in Rights(h) THEN r + 1 ELSE r
          /\ f + One(h, Counted) = IF "RECEIVE" \in Rights(h) THEN f + 1 ELSE f
      BY <1>1, <1>2 DEF One, Counted
    <2>2. y = ReleaseSession(x, Rights(h))
      BY <1>2 DEF Release
    <2> QED
      BY <2>1, <2>2, SoundReleaseSession
  <1>3. CASE h \notin Labelled
    <2>1. /\ c + One(h, Labelled) = c
          /\ r + One(h, Receiving) = IF "RECEIVE" \in Rights(h) THEN r + 1 ELSE r
          /\ f + One(h, Counted) = f + 1
      BY <1>1, <1>3 DEF One, Counted
    <2>2. y = ReleaseChannel(x, Rights(h))
      BY <1>3 DEF Release
    <2> DEFINE q == r + One(h, Receiving)
    <2>3. q \in Int /\ (IF "RECEIVE" \in Rights(h) THEN q - 1 ELSE q) = r /\ ("RECEIVE" \in Rights(h) => q >= 1)
      BY <2>1
    <2> HIDE DEF q
    <2>4. Sound(x, q, c, f + 1)
      BY <2>1 DEF q
    <2>5. Sound(y, IF "RECEIVE" \in Rights(h) THEN q - 1 ELSE q, c, f + 1 - 1) /\ Frame(x, y)
      BY <2>2, <2>3, <2>4, SoundReleaseChannel
    <2>6. f + 1 - 1 = f
      OBVIOUS
    <2> QED
      BY <2>3, <2>5, <2>6
  <1> QED
    BY <1>2, <1>3

\* What a wait in the queue held.
LEMMA SoundLetGo ==
  ASSUME NEW x, NEW r \in Nat, NEW c \in Nat, NEW f \in Nat, NEW via \in Vias,
         Sound(x, r, IF via = "session" THEN c + 1 ELSE c, IF via = "channel" THEN f + 1 ELSE f),
         NEW y, y = LetGo(x, via)
  PROVE Sound(y, r, c, f) /\ Frame(x, y)
  <1>1. CASE via = "session"
    <2>1. y = ReleaseSession(x, {}) /\ Sound(x, r, c + 1, f)
      BY <1>1 DEF LetGo
    <2> QED
      BY <2>1, SoundReleaseSession
  <1>2. CASE via = "channel"
    <2>1. y = ReleaseChannel(x, {}) /\ Sound(x, r, c, f + 1)
      BY <1>2 DEF LetGo
    <2>2. Sound(y, r, c, f + 1 - 1) /\ Frame(x, y)
      BY <2>1, SoundReleaseChannel
    <2>3. f + 1 - 1 = f
      OBVIOUS
    <2> QED
      BY <2>2, <2>3
  <1> QED
    BY <1>1, <1>2 DEF Vias


-----------------------------------------------------------------------------
(* What moves: handles between tables and messages, threads and slots in   *)
(* and out of the queue.                                                   *)

\* Handles and accepted requests change places.
LEMMA SoundPlaces ==
  ASSUME NEW x, NEW r \in Int, NEW c \in Int, NEW f \in Int, Sound(x, r, c, f),
         NEW y, Keeps(x, y, {"handles", "transit", "accepted"}),
         y.handles \in [Procs -> SUBSET Handles], y.transit \in [Threads -> SUBSET Handles],
         y.accepted \in [Procs -> SUBSET Threads],
         NEW d \in Int, NEW e \in Int, NEW i \in Int,
         Number(y, Receiving) = Number(x, Receiving) - d,
         Number(y, Labelled) = Number(x, Labelled) - e,
         Number(y, Counted) = Number(x, Counted) - i
  PROVE Sound(y, r + d, c + e, f + i)
  <1>1. /\ IsState(y) /\ y.queue = x.queue /\ y.waiting = x.waiting /\ y.closed = x.closed
        /\ y.receivers = x.receivers /\ y.refs = x.refs /\ y.sources = x.sources
        /\ y.cleanup = x.cleanup /\ y.copies = x.copies /\ y.srefs = x.srefs
        /\ y.session = x.session /\ y.told = x.told /\ y.bits = x.bits /\ y.waits = x.waits
    BY Kept
  <1>2. StateType(y)
    BY <1>1 DEF Sound, Firm, StateType
  <1>3. QueueOK(y)
    BY <1>1, SameQueue DEF Sound, Firm
  <1>4. \A w : InWait(y, w) = InWait(x, w) /\ InWait(x, w) \in Nat
    BY <1>1, SameWaits, NumberTypes DEF Sound, Firm
  <1>5. Number(x, Receiving) \in Nat /\ Number(x, Labelled) \in Nat /\ Number(x, Counted) \in Nat
    BY NumberTypes DEF Sound, Firm
  <1>6. Counts(y, r + d, c + e, f + i, 0)
    BY <1>1, <1>4, <1>5 DEF Sound, Firm, Counts
  <1>7. Status(y) /\ Gone(y)
    BY <1>1 DEF Sound, Firm, Status, Gone, Word
  <1> QED
    BY <1>2, <1>3, <1>6, <1>7 DEF Sound, Firm

\* A handle goes, and nothing holds any more what it held.
LEMMA SoundHandleGoes ==
  ASSUME NEW x, NEW r \in Int, NEW c \in Int, NEW f \in Int, Sound(x, r, c, f),
         NEW y, Keeps(x, y, {"handles", "transit", "accepted"}),
         y.handles \in [Procs -> SUBSET Handles], y.transit \in [Threads -> SUBSET Handles],
         y.accepted \in [Procs -> SUBSET Threads],
         NEW h, h \in All(x), All(y) = All(x) \ {h}
  PROVE Sound(y, r + One(h, Receiving), c + One(h, Labelled), f + One(h, Counted))
  <1>1. \A H : Number(y, H) = Number(x, H) - One(h, H) /\ One(h, H) \in Int
    BY HandleGoes DEF Sound, Firm, One
  <1> QED
    BY <1>1, SoundPlaces

\* A handle comes, and holds what is taken next.
LEMMA SoundHandleComes ==
  ASSUME NEW x, NEW r \in Int, NEW c \in Int, NEW f \in Int, Sound(x, r, c, f),
         NEW y, Keeps(x, y, {"handles", "transit", "accepted"}),
         y.handles \in [Procs -> SUBSET Handles], y.transit \in [Threads -> SUBSET Handles],
         y.accepted \in [Procs -> SUBSET Threads],
         NEW h, h \notin All(x), All(y) = All(x) \cup {h}
  PROVE Sound(y, r - One(h, Receiving), c - One(h, Labelled), f - One(h, Counted))
  <1>1. \A H : Number(y, H) = Number(x, H) + One(h, H) /\ One(h, H) \in Int
    BY HandleComes DEF Sound, Firm, One
  <1>2. \A H : Number(x, H) \in Nat
    BY NumberTypes DEF Sound, Firm
  <1>3. \A H : Number(y, H) = Number(x, H) - (0 - One(h, H)) /\ 0 - One(h, H) \in Int
    BY <1>1, <1>2
  <1>4. Sound(y, r + (0 - One(h, Receiving)), c + (0 - One(h, Labelled)), f + (0 - One(h, Counted)))
    BY <1>3, SoundPlaces
  <1>5. /\ r + (0 - One(h, Receiving)) = r - One(h, Receiving)
        /\ c + (0 - One(h, Labelled)) = c - One(h, Labelled)
        /\ f + (0 - One(h, Counted)) = f - One(h, Counted)
    BY <1>1
  <1> QED
    BY <1>4, <1>5

\* Handles only move.
LEMMA SoundHandlesMove ==
  ASSUME NEW x, NEW r \in Int, NEW c \in Int, NEW f \in Int, Sound(x, r, c, f),
         NEW y, Keeps(x, y, {"handles", "transit", "accepted"}),
         y.handles \in [Procs -> SUBSET Handles], y.transit \in [Threads -> SUBSET Handles],
         y.accepted \in [Procs -> SUBSET Threads], All(y) = All(x)
  PROVE Sound(y, r, c, f)
  <1>0. \A H : Number(x, H) \in Nat
    BY NumberTypes DEF Sound, Firm
  <1>1. \A H : Number(y, H) = Number(x, H)
    BY DEF Number
  <1>2. \A H : Number(y, H) = Number(x, H) - 0
    BY <1>0, <1>1
  <1>3. Sound(y, r + 0, c + 0, f + 0)
    BY <1>2, SoundPlaces
  <1>4. r + 0 = r /\ c + 0 = c /\ f + 0 = f
    OBVIOUS
  <1> QED
    BY <1>3, <1>4

\* What a wait in the queue holds of the session and of the channel.
HeldSession(w) == IF w = InSend("session") THEN 1 ELSE 0
HeldChannel(w) == IF w = InSend("channel") \/ w = InReceive THEN 1 ELSE 0

\* A thread leaves the queue.
LEMMA SoundLeaves ==
  ASSUME NEW x, NEW r \in Int, NEW c \in Int, NEW f \in Int, Sound(x, r, c, f),
         NEW t \in Threads, NEW w \in Waits, w \notin Stands,
         NEW y, Keeps(x, y, {"queue", "waits"}), y.waits = [x.waits EXCEPT ![t] = w],
         y.queue \in Seq(Threads \cup Slots), Distinct(y.queue), Elems(y.queue) = Elems(x.queue) \ {t}
  PROVE Sound(y, r, c + HeldSession(x.waits[t]), f + HeldChannel(x.waits[t]))
  <1>1. /\ IsState(y) /\ y.waiting = x.waiting /\ y.closed = x.closed
        /\ y.receivers = x.receivers /\ y.refs = x.refs /\ y.sources = x.sources
        /\ y.cleanup = x.cleanup /\ y.copies = x.copies /\ y.srefs = x.srefs
        /\ y.session = x.session /\ y.told = x.told /\ y.bits = x.bits
        /\ y.transit = x.transit /\ y.handles = x.handles /\ y.accepted = x.accepted
    BY Kept
  <1>0. StateType(x) /\ QueueOK(x)
    BY DEF Sound, Firm
  <1>2. StateType(y)
    <2>1. y.waits \in [Threads -> Waits]
      BY <1>0 DEF StateType
    <2> QED
      BY <1>0, <1>1, <2>1 DEF StateType
  <1>3. QueueOK(y)
    BY <1>0, <1>1, QueueLeaves
  <1>4. \A H : Number(y, H) = Number(x, H)
    BY <1>1, SameHandles
  <1>n. \A v : InWait(x, v) \in Nat
    BY <1>0, NumberTypes
  <1>5. \A v : InWait(y, v) = InWait(x, v) - (IF x.waits[t] = v THEN 1 ELSE 0)
                                          + (IF w = v THEN 1 ELSE 0)
    <2>1. y.waits = [x.waits EXCEPT ![t] = w]
      OBVIOUS
    <2> QED
      BY ONLY <1>0, t \in Threads, <2>1, WaitChanges
  <1>6. /\ InWait(y, InSend("session")) = InWait(x, InSend("session")) - HeldSession(x.waits[t])
        /\ InWait(y, InSend("channel")) + InWait(y, InReceive)
              = InWait(x, InSend("channel")) + InWait(x, InReceive) - HeldChannel(x.waits[t])
    BY <1>5, <1>n, StandKinds DEF HeldSession, HeldChannel
  <1>7. "session" \in Elems(y.queue) <=> "session" \in Elems(x.queue)
    BY ChannelAssumption DEF Slots
  <1>8. Counts(y, r, c + HeldSession(x.waits[t]), f + HeldChannel(x.waits[t]), 0)
    <2>1. /\ Number(y, Receiving) = Number(x, Receiving) /\ Number(y, Labelled) = Number(x, Labelled)
          /\ Number(y, Counted) = Number(x, Counted)
      BY <1>4
    <2>2. Number(x, Counted) \in Nat /\ Number(x, Labelled) \in Nat
      BY <1>0, NumberTypes
    <2>3. /\ InWait(x, InSend("session")) \in Nat /\ InWait(x, InSend("channel")) \in Nat
          /\ InWait(x, InReceive) \in Nat /\ InWait(y, InSend("channel")) \in Nat
          /\ InWait(y, InReceive) \in Nat
      BY <1>0, <1>2, NumberTypes
    <2>4. HeldSession(x.waits[t]) \in Int /\ HeldChannel(x.waits[t]) \in Int
      BY DEF HeldSession, HeldChannel
    <2>5. PICK a \in Int, b \in Int : a = (IF x.session # "none" THEN 1 ELSE 0)
                                     /\ b = (IF x.cleanup = "close" THEN 1 ELSE 0)
      OBVIOUS
    <2>a. x.refs = Number(x, Counted) + InWait(x, InSend("channel")) + InWait(x, InReceive) + a + b + f
      BY <2>5 DEF Sound, Firm, Counts
    <2>b. y.refs = x.refs
      BY <1>1
    <2>6. y.refs = Number(y, Counted) + InWait(y, InSend("channel")) + InWait(y, InReceive) + a + b
                   + (f + HeldChannel(x.waits[t]))
      BY ONLY <1>6, <2>1, <2>2, <2>3, <2>4, <2>a, <2>b, f \in Int, a \in Int, b \in Int
    <2>7. y.copies = Number(y, Labelled) + InWait(y, InSend("session")) + (c + HeldSession(x.waits[t]))
      BY <1>1, <1>6, <2>1, <2>2, <2>3, <2>4 DEF Sound, Firm, Counts
    <2>8. y.receivers = Number(y, Receiving) + r
      BY <1>1, <2>1 DEF Sound, Firm, Counts
    <2>9. y.srefs = y.copies + (IF "session" \in Elems(y.queue) THEN 1 ELSE 0) + 0
      BY <1>1, <1>7 DEF Sound, Firm, Counts
    <2> QED
      BY <1>1, <2>5, <2>6, <2>7, <2>8, <2>9 DEF Counts
  <1>9. Status(y) /\ Gone(y)
    BY <1>1 DEF Sound, Firm, Status, Gone, Word
  <1> QED
    BY <1>2, <1>3, <1>8, <1>9 DEF Sound, Firm

\* A thread joins the queue; what its wait holds is taken next.
LEMMA SoundJoins ==
  ASSUME NEW x, NEW r \in Int, NEW c \in Int, NEW f \in Int, Sound(x, r, c, f),
         NEW t \in Threads, x.waits[t] = NoWait, NEW w \in Stands,
         NEW y, Keeps(x, y, {"queue", "waiting", "waits"}), y.waits = [x.waits EXCEPT ![t] = w],
         y.queue = PushTail(x.queue, t), y.waiting <=> w = InReceive,
         w = InReceive => x.waiting \/ x.queue = <<>>,
         w # InReceive => ~x.waiting \/ x.queue = <<>>
  PROVE Sound(y, r, c - HeldSession(w), f - HeldChannel(w))
  <1>1. /\ IsState(y) /\ y.closed = x.closed
        /\ y.receivers = x.receivers /\ y.refs = x.refs /\ y.sources = x.sources
        /\ y.cleanup = x.cleanup /\ y.copies = x.copies /\ y.srefs = x.srefs
        /\ y.session = x.session /\ y.told = x.told /\ y.bits = x.bits
        /\ y.transit = x.transit /\ y.handles = x.handles /\ y.accepted = x.accepted
    <2>1. Keeps(x, y, {"queue", "waiting", "waits"})
      OBVIOUS
    <2> QED
      BY ONLY <2>1, Kept
  <1>0. StateType(x) /\ QueueOK(x)
    BY DEF Sound, Firm
  <1>q. /\ y.queue \in Seq(Threads \cup Slots) /\ Distinct(y.queue)
        /\ Elems(y.queue) = Elems(x.queue) \cup {t}
    <2>1. t \notin Elems(x.queue)
      BY <1>0, StandKinds DEF QueueOK
    <2>2. Distinct(x.queue) /\ x.queue \in Seq(Threads \cup Slots)
      BY <1>0 DEF QueueOK, StateType
    <2>3. t \in Threads \cup Slots
      OBVIOUS
    <2>4. /\ PushTail(x.queue, t) \in Seq(Threads \cup Slots) /\ Distinct(PushTail(x.queue, t))
          /\ Elems(PushTail(x.queue, t)) = Elems(x.queue) \cup {t}
      BY ONLY <2>1, <2>2, <2>3, PushTailFacts
    <2> QED
      BY <2>4
  <1>2. StateType(y)
    <2>1. y.waits \in [Threads -> Waits]
      BY <1>0, StandKinds DEF StateType
    <2> QED
      BY <1>0, <1>1, <1>q, <2>1 DEF StateType
  <1>3. QueueOK(y)
    BY <1>0, <1>1, <1>q, QueueJoins
  <1>4. \A H : Number(y, H) = Number(x, H)
    BY <1>1, SameHandles
  <1>n. \A v : InWait(x, v) \in Nat
    BY <1>0, NumberTypes
  <1>5. \A v : InWait(y, v) = InWait(x, v) - (IF x.waits[t] = v THEN 1 ELSE 0)
                                          + (IF w = v THEN 1 ELSE 0)
    <2>1. y.waits = [x.waits EXCEPT ![t] = w]
      OBVIOUS
    <2> QED
      BY ONLY <1>0, t \in Threads, <2>1, WaitChanges
  <1>6. /\ InWait(y, InSend("session")) = InWait(x, InSend("session")) + HeldSession(w)
        /\ InWait(y, InSend("channel")) + InWait(y, InReceive)
              = InWait(x, InSend("channel")) + InWait(x, InReceive) + HeldChannel(w)
    BY <1>5, <1>n, StandKinds DEF HeldSession, HeldChannel
  <1>7. "session" \in Elems(y.queue) <=> "session" \in Elems(x.queue)
    BY <1>q, ChannelAssumption DEF Slots
  <1>8. Counts(y, r, c - HeldSession(w), f - HeldChannel(w), 0)
    <2>1. /\ Number(y, Receiving) = Number(x, Receiving) /\ Number(y, Labelled) = Number(x, Labelled)
          /\ Number(y, Counted) = Number(x, Counted)
      BY <1>4
    <2>2. Number(x, Counted) \in Nat /\ Number(x, Labelled) \in Nat
      BY <1>0, NumberTypes
    <2>3. /\ InWait(x, InSend("session")) \in Nat /\ InWait(x, InSend("channel")) \in Nat
          /\ InWait(x, InReceive) \in Nat /\ InWait(y, InSend("channel")) \in Nat
          /\ InWait(y, InReceive) \in Nat
      BY <1>0, <1>2, NumberTypes
    <2>4. HeldSession(w) \in Int /\ HeldChannel(w) \in Int
      BY DEF HeldSession, HeldChannel
    <2>5. PICK a \in Int, b \in Int : a = (IF x.session # "none" THEN 1 ELSE 0)
                                     /\ b = (IF x.cleanup = "close" THEN 1 ELSE 0)
      OBVIOUS
    <2>a. x.refs = Number(x, Counted) + InWait(x, InSend("channel")) + InWait(x, InReceive) + a + b + f
      BY <2>5 DEF Sound, Firm, Counts
    <2>b. y.refs = x.refs
      BY <1>1
    <2>6. y.refs = Number(y, Counted) + InWait(y, InSend("channel")) + InWait(y, InReceive) + a + b
                   + (f - HeldChannel(w))
      BY ONLY <1>6, <2>1, <2>2, <2>3, <2>4, <2>a, <2>b, f \in Int, a \in Int, b \in Int
    <2>7. y.copies = Number(y, Labelled) + InWait(y, InSend("session")) + (c - HeldSession(w))
      BY <1>1, <1>6, <2>1, <2>2, <2>3, <2>4 DEF Sound, Firm, Counts
    <2>8. y.receivers = Number(y, Receiving) + r
      BY <1>1, <2>1 DEF Sound, Firm, Counts
    <2>9. y.srefs = y.copies + (IF "session" \in Elems(y.queue) THEN 1 ELSE 0) + 0
      BY <1>1, <1>7 DEF Sound, Firm, Counts
    <2> QED
      BY <1>1, <2>5, <2>6, <2>7, <2>8, <2>9 DEF Counts
  <1>9. Status(y) /\ Gone(y)
    BY <1>1 DEF Sound, Firm, Status, Gone, Word
  <1> QED
    BY <1>2, <1>3, <1>8, <1>9 DEF Sound, Firm

\* The wait of a thread that left is let go.
LEMMA SoundWaitGoes ==
  ASSUME NEW x, NEW w \in Stands, NEW via, via = (IF w = InReceive THEN "channel" ELSE w[2]),
         Sound(x, 0, HeldSession(w), HeldChannel(w)), NEW y, y = LetGo(x, via)
  PROVE Sound(y, 0, 0, 0) /\ Frame(x, y)
  <1>1. via \in Vias /\ (via = "session" <=> w = InSend("session"))
        /\ (via = "channel" <=> w = InSend("channel") \/ w = InReceive)
    BY StandKinds, WaitKinds DEF Vias
  <1>2. Sound(x, 0, IF via = "session" THEN 0 + 1 ELSE 0, IF via = "channel" THEN 0 + 1 ELSE 0)
    BY <1>1 DEF HeldSession, HeldChannel
  <1> QED
    BY <1>1, <1>2, SoundLetGo


\* A handle of a message goes: from the table of a process.
LEMMA SoundDropHandles ==
  ASSUME NEW x, Sound(x, 0, 0, 0), Placed(x), NEW p \in Procs, NEW moving,
         moving = {} \/ \E h \in x.handles[p] : moving = {h},
         NEW y, y = DropHandles(x, p, moving)
  PROVE /\ Sound(y, 0, 0, 0) /\ Placed(y)
        /\ \A q \in Procs : y.handles[q] \subseteq x.handles[q]
        /\ y.transit = x.transit /\ y.accepted = x.accepted /\ Ended(x, y) /\ StaysClosed(x, y)
  <1> DEFINE z == [x EXCEPT !.handles = [x.handles EXCEPT ![p] = @ \ moving]]
  <1>0. IsState(x) /\ x.handles \in [Procs -> SUBSET Handles]
        /\ x.transit \in [Threads -> SUBSET Handles] /\ x.accepted \in [Procs -> SUBSET Threads]
    BY DEF Sound, Firm, StateType
  <1>1. y = ReleaseMoving(z, moving)
    BY DEF DropHandles
  <1>2. Keeps(x, z, {"handles"}) /\ z.handles = [x.handles EXCEPT ![p] = @ \ moving]
    BY <1>0 DEF IsState, Fields, Keeps
  <1> HIDE DEF z
  <1>3. z.transit = x.transit /\ z.accepted = x.accepted /\ z.waits = x.waits /\ z.cleanup = x.cleanup
    BY <1>2, Kept
  <1>4. Keeps(x, z, {"handles", "transit", "accepted"})
    BY <1>2 DEF Keeps
  <1>5. z.handles \in [Procs -> SUBSET Handles]
    BY <1>0, <1>2
  <1>6. \A q \in Procs : z.handles[q] = IF q = p THEN x.handles[p] \ moving ELSE x.handles[q]
    BY <1>0, <1>2
  <1>7. Placed(z)
    BY <1>3, <1>6 DEF Placed
  <1>8. CASE moving = {}
    <2>1. y = z
      BY <1>1, <1>8 DEF ReleaseMoving
    <2>2. All(z) = All(x)
      <3>1. \A q \in Procs : z.handles[q] = x.handles[q]
        BY <1>6, <1>8
      <3>2. \A m : m \in All(z) <=> m \in All(x)
        BY <1>3, <3>1, AllMembers
      <3> QED
        BY <3>2
    <2>3. Sound(z, 0, 0, 0)
      BY <1>0, <1>3, <1>4, <1>5, <2>2, SoundHandlesMove
    <2> QED
      BY <1>3, <1>6, <1>7, <2>1, <2>3 DEF Ended, StaysClosed
  <1>9. ASSUME NEW h \in x.handles[p], moving = {h} PROVE Sound(y, 0, 0, 0) /\ Frame(z, y)
    <2>0. h \in Handles
      BY <1>0
    <2>1. y = Release(z, h)
      <3>1. (CHOOSE m \in moving : TRUE) = h
        BY <1>9
      <3> QED
        BY <1>1, <1>9, <3>1 DEF ReleaseMoving
    <2>2. h \in All(x) /\ All(z) = All(x) \ {h}
      <3>1. h \in All(x)
        BY AllMembers
      <3>2. \A q \in Procs : h \in x.handles[q] => q = p
        BY DEF Placed
      <3>3. \A t \in Threads : h \notin x.transit[t]
        BY DEF Placed
      <3>4. \A m : m \in All(z) <=> m \in All(x) /\ m # h
        BY <1>3, <1>6, <1>9, <3>2, <3>3, AllMembers
      <3> QED
        BY <3>1, <3>4
    <2>3. Sound(z, 0 + One(h, Receiving), 0 + One(h, Labelled), 0 + One(h, Counted))
      BY <1>0, <1>3, <1>4, <1>5, <2>2, SoundHandleGoes
    <2> QED
      BY <2>0, <2>1, <2>3, SoundRelease
  <1>10. CASE moving # {}
    <2>1. Sound(y, 0, 0, 0) /\ Frame(z, y)
      BY <1>9, <1>10
    <2>2. Placed(y)
      BY <1>7, <2>1 DEF Frame, Placed
    <2> QED
      BY <1>3, <1>6, <2>1, <2>2 DEF Frame, Ended, StaysClosed
  <1> QED
    BY <1>8, <1>10

\* And out of the message of a thread, where its wait may go too.
LEMMA SoundDropTransit ==
  ASSUME NEW x, NEW c \in Nat, NEW f \in Nat, Sound(x, 0, c, f), Placed(x), NEW t \in Threads,
         NEW y, y = DropTransit(x, t)
  PROVE /\ Sound(y, 0, c, f) /\ Placed(y)
        /\ y.transit = [x.transit EXCEPT ![t] = {}]
        /\ y.handles = x.handles /\ y.accepted = x.accepted /\ Ended(x, y) /\ StaysClosed(x, y)
  <1> DEFINE z == [x EXCEPT !.transit = [x.transit EXCEPT ![t] = {}]]
  <1>0. IsState(x) /\ x.handles \in [Procs -> SUBSET Handles]
        /\ x.transit \in [Threads -> SUBSET Handles] /\ x.accepted \in [Procs -> SUBSET Threads]
    BY DEF Sound, Firm, StateType
  <1>1. y = ReleaseMoving(z, x.transit[t])
    BY DEF DropTransit
  <1>2. Keeps(x, z, {"transit"}) /\ z.transit = [x.transit EXCEPT ![t] = {}]
    BY <1>0 DEF IsState, Fields, Keeps
  <1> HIDE DEF z
  <1>3. z.handles = x.handles /\ z.accepted = x.accepted /\ z.waits = x.waits /\ z.cleanup = x.cleanup
    BY <1>2, Kept
  <1>4. Keeps(x, z, {"handles", "transit", "accepted"})
    BY <1>2 DEF Keeps
  <1>5. z.transit \in [Threads -> SUBSET Handles]
    BY <1>0, <1>2
  <1>6. \A u \in Threads : z.transit[u] = IF u = t THEN {} ELSE x.transit[u]
    BY <1>0, <1>2
  <1>7. Placed(z)
    BY <1>3, <1>6 DEF Placed
  <1>8. CASE x.transit[t] = {}
    <2>1. y = z
      BY <1>1, <1>8 DEF ReleaseMoving
    <2>2. All(z) = All(x)
      BY <1>3, <1>6, <1>8, AllMembers
    <2>3. Sound(z, 0, c, f)
      BY <1>0, <1>3, <1>4, <1>5, <2>2, SoundHandlesMove
    <2> QED
      BY <1>2, <1>3, <1>7, <2>1, <2>3 DEF Ended, StaysClosed
  <1>9. ASSUME NEW h \in Handles, x.transit[t] = {h} PROVE Sound(y, 0, c, f) /\ Frame(z, y)
    <2>1. y = Release(z, h)
      <3>1. (CHOOSE m \in x.transit[t] : TRUE) = h
        BY <1>9
      <3> QED
        BY <1>1, <1>9, <3>1 DEF ReleaseMoving
    <2>2. h \in All(x) /\ All(z) = All(x) \ {h}
      <3>1. h \in All(x)
        BY <1>9, AllMembers
      <3>2. \A q \in Procs : h \notin x.handles[q]
        BY <1>9 DEF Placed
      <3>3. \A u \in Threads : h \in x.transit[u] => u = t
        BY <1>9 DEF Placed
      <3>4. \A m : m \in All(z) <=> m \in All(x) /\ m # h
        BY <1>3, <1>6, <1>9, <3>2, <3>3, AllMembers
      <3> QED
        BY <3>1, <3>4
    <2>3. Sound(z, 0 + One(h, Receiving), c + One(h, Labelled), f + One(h, Counted))
      <3>1. /\ z.handles \in [Procs -> SUBSET Handles] /\ z.accepted \in [Procs -> SUBSET Threads]
            /\ 0 \in Int /\ c \in Int /\ f \in Int /\ Sound(x, 0, c, f)
        BY <1>0, <1>3
      <3> QED
        BY ONLY <1>4, <1>5, <2>2, <3>1, SoundHandleGoes
    <2> QED
      BY <2>1, <2>3, SoundRelease
  <1>10. CASE x.transit[t] # {}
    <2>1. \E h \in Handles : x.transit[t] = {h}
      BY <1>10 DEF Placed
    <2>2. Sound(y, 0, c, f) /\ Frame(z, y)
      BY <1>9, <2>1
    <2> QED
      BY <1>2, <1>3, <1>7, <2>2 DEF Frame, Ended, StaysClosed, Placed
  <1> QED
    BY <1>8, <1>10

-----------------------------------------------------------------------------
(* What is taken.                                                          *)

\* A reference to the channel.
LEMMA SoundRetainChannel ==
  ASSUME NEW x, NEW r \in Int, NEW c \in Int, NEW f \in Int, Sound(x, r, c, f), x.refs > 0,
         NEW rights, "RECEIVE" \in rights => ~x.closed, NEW y, y = RetainChannel(x, rights)
  PROVE /\ Sound(y, IF "RECEIVE" \in rights THEN r + 1 ELSE r, c, f + 1)
        /\ Keeps(x, y, {"refs", "receivers"}) /\ y.refs > 0
  <1>1. /\ Firm(y, IF "RECEIVE" \in rights THEN r + 1 ELSE r, c, f + 1, 0)
        /\ Keeps(x, y, {"refs", "receivers"}) /\ y.refs > 0
    BY FirmRetainChannel DEF Sound
  <1>2. Keeps(x, y, {"refs", "receivers"})
    BY <1>1
  <1>3. /\ y.told = x.told /\ y.bits = x.bits /\ y.copies = x.copies /\ y.session = x.session
        /\ y.closed = x.closed
    BY ONLY <1>2, Kept
  <1>4. Gone(y)
    BY <1>3 DEF Sound, Gone, Word
  <1> QED
    BY <1>1, <1>4 DEF Sound

\* One copy more of a session that has copies.
LEMMA SoundRetainSession ==
  ASSUME NEW x, NEW r \in Int, NEW c \in Int, NEW f \in Int, Sound(x, r, c, f),
         x.copies > 0, x.session = "live", x.refs > 0,
         NEW rights, "RECEIVE" \in rights => ~x.closed, NEW y, y = RetainSession(x, rights)
  PROVE /\ Sound(y, IF "RECEIVE" \in rights THEN r + 1 ELSE r, c + 1,
                    IF "RECEIVE" \in rights THEN f + 1 ELSE f)
        /\ Keeps(x, y, {"srefs", "copies", "refs", "receivers"})
  <1> DEFINE one == [x EXCEPT !.srefs = @ + 1, !.copies = @ + 1]
  <1>0. IsState(x) /\ StateType(x) /\ x.srefs \in Nat /\ x.copies \in Nat
    BY DEF Sound, Firm, StateType
  <1>1. y = IF "RECEIVE" \in rights THEN RetainChannel(one, rights) ELSE one
    BY DEF RetainSession
  <1>2. Keeps(x, one, {"srefs", "copies"}) /\ one.srefs = x.srefs + 1 /\ one.copies = x.copies + 1
    BY <1>0 DEF IsState, Fields, Keeps
  <1> HIDE DEF one
  <1>3. /\ IsState(one) /\ one.queue = x.queue /\ one.waiting = x.waiting /\ one.closed = x.closed
        /\ one.receivers = x.receivers /\ one.refs = x.refs /\ one.sources = x.sources
        /\ one.cleanup = x.cleanup /\ one.session = x.session /\ one.told = x.told
        /\ one.bits = x.bits /\ one.waits = x.waits /\ one.transit = x.transit
        /\ one.handles = x.handles /\ one.accepted = x.accepted
    BY ONLY <1>2, Kept
  <1>4. Sound(one, r, c + 1, f)
    <2>1. StateType(one)
      BY <1>0, <1>2, <1>3 DEF StateType
    <2>2. QueueOK(one)
      BY <1>3, SameQueue DEF Sound, Firm
    <2>3. /\ \A H : Number(one, H) = Number(x, H)
          /\ \A w : InWait(one, w) = InWait(x, w)
      BY <1>3, SameHandles, SameWaits
    <2>4. Number(x, Labelled) \in Nat /\ InWait(x, InSend("session")) \in Nat
      BY <1>0, NumberTypes
    <2>5. Counts(one, r, c + 1, f, 0)
      BY <1>0, <1>2, <1>3, <2>3, <2>4 DEF Sound, Firm, Counts
    <2>6. Status(one)
      BY <1>0, <1>2, <1>3 DEF Sound, Firm, Status
    <2>7. Gone(one)
      BY <1>0, <1>2, <1>3 DEF Sound, Gone, Word
    <2> QED
      BY <2>1, <2>2, <2>5, <2>6, <2>7 DEF Sound, Firm
  <1>5. CASE "RECEIVE" \notin rights
    BY <1>1, <1>2, <1>4, <1>5 DEF Keeps
  <1>6. CASE "RECEIVE" \in rights
    <2>1. y = RetainChannel(one, rights)
      BY <1>1, <1>6
    <2>2. Sound(y, r + 1, c + 1, f + 1) /\ Keeps(one, y, {"refs", "receivers"})
      BY <1>3, <1>4, <1>6, <2>1, SoundRetainChannel
    <2> QED
      BY <1>2, <1>6, <2>2 DEF Keeps
  <1> QED
    BY <1>5, <1>6

-----------------------------------------------------------------------------
(* A slot leaves the queue.                                                *)

\* What held its owner is let go.
LEMMA FirmSlotLeaves ==
  ASSUME NEW x, Sound(x, 0, 0, 0), NEW s \in Slots, ~x.waiting, x.queue # <<>>, Head(x.queue) = s,
         NEW z, Keeps(x, z, {"queue", "bits", "told"}), z.queue = Tail(x.queue),
         z.bits = [x.bits EXCEPT ![s] = {}], NEW y, y = OwnerLetGo(z, s)
  PROVE /\ Firm(y, 0, 0, 0, 0) /\ Keeps(z, y, {"srefs", "session"})
        /\ y.session = "none" <=> x.session = "none"
  <1>0. StateType(x) /\ QueueOK(x)
    BY DEF Sound, Firm
  <1>1. /\ IsState(z) /\ z.waiting = x.waiting /\ z.closed = x.closed
        /\ z.receivers = x.receivers /\ z.refs = x.refs /\ z.sources = x.sources
        /\ z.cleanup = x.cleanup /\ z.copies = x.copies /\ z.srefs = x.srefs
        /\ z.session = x.session /\ z.waits = x.waits
        /\ z.transit = x.transit /\ z.handles = x.handles /\ z.accepted = x.accepted
    <2>1. Keeps(x, z, {"queue", "bits", "told"})
      OBVIOUS
    <2> QED
      BY ONLY <2>1, Kept
  <1>2. /\ z.queue \in Seq(Threads \cup Slots) /\ Distinct(z.queue)
        /\ Elems(z.queue) = Elems(x.queue) \ {s} /\ s \in Elems(x.queue)
    <2>1. x.queue \in Seq(Threads \cup Slots) /\ Distinct(x.queue)
      BY <1>0 DEF StateType, QueueOK
    <2> QED
      BY <2>1, TailFacts
  <1>3. StateType(z)
    <2>1. z.bits \in [Slots -> Bits]
      BY <1>0 DEF StateType, Bits
    <2> QED
      BY <1>0, <1>1, <1>2, <2>1 DEF StateType
  <1>4. QueueOK(z)
    BY <1>0, <1>1, <1>2, QueueSlotLeaves
  <1>5. /\ \A H : Number(z, H) = Number(x, H)
        /\ \A w : InWait(z, w) = InWait(x, w)
    BY <1>1, SameHandles, SameWaits
  <1>6. Status(z)
    BY <1>1 DEF Sound, Firm, Status
  <1>t. z.copies \in Nat /\ z.srefs \in Nat /\ x.copies \in Nat /\ x.srefs \in Nat
    BY <1>0, <1>3 DEF StateType
  <1>7. CASE s = "session"
    <2>1. y = UnrefSession(z)
      BY <1>7 DEF OwnerLetGo
    <2>2. "session" \notin Elems(z.queue) /\ "session" \in Elems(x.queue)
      BY <1>2, <1>7
    <2>3. Counts(z, 0, 0, 0, 1)
      BY <1>1, <1>5, <1>t, <2>2 DEF Sound, Firm, Counts
    <2>4. Firm(z, 0, 0, 0, 1)
      BY <1>3, <1>4, <1>6, <2>3 DEF Firm
    <2>5. /\ Firm(y, 0, 0, 0, 1 - 1) /\ Keeps(z, y, {"srefs", "session"})
          /\ z.session # "none" /\ y.session # "none"
      BY <2>1, <2>4, FirmUnrefSession
    <2> QED
      BY <1>1, <2>5
  <1>8. CASE s # "session"
    <2>1. y = z
      BY <1>8 DEF OwnerLetGo
    <2>2. "session" \in Elems(z.queue) <=> "session" \in Elems(x.queue)
      BY <1>2, <1>8
    <2>3. Counts(z, 0, 0, 0, 0)
      BY <1>1, <1>5, <2>2 DEF Sound, Firm, Counts
    <2> QED
      BY <1>1, <1>3, <1>4, <1>6, <2>1, <2>3 DEF Firm, Keeps
  <1> QED
    BY <1>7, <1>8


-----------------------------------------------------------------------------
(* Steps of the queue, in the records the actions build.                   *)

\* A wait outside the queue begins or ends.
LEMMA SoundOther ==
  ASSUME NEW x, NEW r \in Int, NEW c \in Int, NEW f \in Int, Sound(x, r, c, f),
         NEW t \in Threads, x.waits[t] \notin Stands, NEW w \in Waits, w \notin Stands,
         NEW y, Keeps(x, y, {"waits"}), y.waits = [x.waits EXCEPT ![t] = w]
  PROVE Sound(y, r, c, f)
  <1>0. StateType(x) /\ QueueOK(x)
    BY DEF Sound, Firm
  <1>1. t \notin Elems(x.queue)
    BY <1>0 DEF QueueOK
  <1>2. y.queue = x.queue
    BY Kept
  <1>3. y.queue \in Seq(Threads \cup Slots) /\ Distinct(y.queue) /\ Elems(y.queue) = Elems(x.queue) \ {t}
    BY <1>0, <1>1, <1>2 DEF StateType, QueueOK
  <1>4. Keeps(x, y, {"queue", "waits"})
    BY DEF Keeps
  <1>5. Sound(y, r, c + HeldSession(x.waits[t]), f + HeldChannel(x.waits[t]))
    BY <1>3, <1>4, SoundLeaves
  <1>6. HeldSession(x.waits[t]) = 0 /\ HeldChannel(x.waits[t]) = 0
    BY StandKinds DEF HeldSession, HeldChannel
  <1>7. c + 0 = c /\ f + 0 = f
    OBVIOUS
  <1> QED
    BY <1>5, <1>6, <1>7

\* A thread is withdrawn from wherever it stands.
LEMMA SoundWithdraw ==
  ASSUME NEW x, Sound(x, 0, 0, 0), NEW t \in Threads, x.waits[t] \in Stands, NEW y, y = Withdraw(x, t)
  PROVE /\ Sound(y, 0, HeldSession(x.waits[t]), HeldChannel(x.waits[t]))
        /\ Keeps(x, y, {"queue", "waits"}) /\ y.waits = [x.waits EXCEPT ![t] = NoWait]
  <1>0. StateType(x) /\ QueueOK(x) /\ IsState(x) /\ x.queue \in Seq(Threads \cup Slots) /\ Distinct(x.queue)
    BY DEF Sound, Firm, StateType, QueueOK
  <1> DEFINE n == CHOOSE j \in DOMAIN x.queue : x.queue[j] = t
             u == [x EXCEPT !.waits = [x.waits EXCEPT ![t] = NoWait]]
  <1>1. t \in Elems(x.queue)
    BY <1>0 DEF QueueOK
  <1>2. n \in 1..Len(x.queue) /\ x.queue[n] = t
    <2>1. \E j \in DOMAIN x.queue : x.queue[j] = t
      BY <1>0, <1>1, ElemsFacts
    <2>2. n \in DOMAIN x.queue /\ x.queue[n] = t
      BY <2>1
    <2>3. DOMAIN x.queue = 1..Len(x.queue)
      BY <1>0
    <2> QED
      BY <2>2, <2>3
  <1>3. Keeps(x, u, {"waits"}) /\ u.waits = [x.waits EXCEPT ![t] = NoWait]
    BY <1>0 DEF IsState, Fields, Keeps
  <1>4. y = [u EXCEPT !.queue = RemoveAt(@, CHOOSE j \in DOMAIN @ : @[j] = t)]
    BY DEF Withdraw, CancelIn
  <1> HIDE DEF u
  <1>5. u.queue = x.queue /\ IsState(u)
    BY <1>3, Kept
  <1>6. y = [u EXCEPT !.queue = RemoveAt(x.queue, n)]
    BY <1>4, <1>5
  <1> HIDE DEF n
  <1>7. Keeps(u, y, {"queue"}) /\ y.queue = RemoveAt(x.queue, n)
    BY <1>5, <1>6 DEF IsState, Fields, Keeps
  <1>8. Keeps(x, y, {"queue", "waits"})
    BY <1>3, <1>7 DEF Keeps
  <1>9. y.waits = u.waits
    BY <1>7, Kept
  <1>10. y.queue \in Seq(Threads \cup Slots) /\ Distinct(y.queue) /\ Elems(y.queue) = Elems(x.queue) \ {t}
    <2>1. PICK m \in 1..Len(x.queue) : m = n
      BY <1>2
    <2>2. /\ RemoveAt(x.queue, m) \in Seq(Threads \cup Slots) /\ Distinct(RemoveAt(x.queue, m))
          /\ Elems(RemoveAt(x.queue, m)) = Elems(x.queue) \ {x.queue[m]}
      BY <1>0, RemoveAtFacts
    <2> QED
      BY <1>2, <1>7, <2>1, <2>2
  <1>11. NoWait \in Waits /\ NoWait \notin Stands
    BY StandKinds
  <1>12. y.waits = [x.waits EXCEPT ![t] = NoWait]
    BY <1>3, <1>9
  <1>13. Sound(y, 0, 0 + HeldSession(x.waits[t]), 0 + HeldChannel(x.waits[t]))
    BY ONLY <1>8, <1>10, <1>11, <1>12, Sound(x, 0, 0, 0), t \in Threads, 0 \in Int, SoundLeaves
  <1>14. 0 + HeldSession(x.waits[t]) = HeldSession(x.waits[t]) /\ 0 + HeldChannel(x.waits[t]) = HeldChannel(x.waits[t])
    BY DEF HeldSession, HeldChannel
  <1> QED
    BY <1>8, <1>12, <1>13, <1>14

\* The head of the queue, a thread, leaves with its wait.
LEMMA SoundTakeThread ==
  ASSUME NEW x, Sound(x, 0, 0, 0), NEW t \in Threads, x.queue # <<>>, Head(x.queue) = t,
         NEW w \in Waits, w \notin Stands, NEW y, Keeps(x, y, {"queue", "waits"}),
         y.queue = Tail(x.queue), y.waits = [x.waits EXCEPT ![t] = w]
  PROVE /\ Sound(y, 0, HeldSession(x.waits[t]), HeldChannel(x.waits[t]))
        /\ x.waits[t] \in Stands
  <1>0. StateType(x) /\ QueueOK(x) /\ x.queue \in Seq(Threads \cup Slots) /\ Distinct(x.queue)
    BY DEF Sound, Firm, StateType, QueueOK
  <1>1. /\ y.queue \in Seq(Threads \cup Slots) /\ Distinct(y.queue)
        /\ Elems(y.queue) = Elems(x.queue) \ {t} /\ t \in Elems(x.queue)
    BY <1>0, TailFacts
  <1>2. x.waits[t] \in Stands
    BY <1>0, <1>1 DEF QueueOK
  <1>13. Sound(y, 0, 0 + HeldSession(x.waits[t]), 0 + HeldChannel(x.waits[t]))
    <2>1. Sound(x, 0, 0, 0) /\ w \notin Stands /\ Keeps(x, y, {"queue", "waits"}) /\ y.waits = [x.waits EXCEPT ![t] = w]
      OBVIOUS
    <2> QED
      BY ONLY <1>1, <2>1, t \in Threads, w \in Waits, 0 \in Int, SoundLeaves
  <1>14. 0 + HeldSession(x.waits[t]) = HeldSession(x.waits[t]) /\ 0 + HeldChannel(x.waits[t]) = HeldChannel(x.waits[t])
    BY DEF HeldSession, HeldChannel
  <1> QED
    BY <1>2, <1>13, <1>14

\* Places follow the handles.
LEMMA SamePlaces ==
  ASSUME NEW x, Placed(x), NEW y, y.handles = x.handles, y.transit = x.transit
  PROVE Placed(y)
  BY DEF Placed

\* Where the wait of `t` ends, other waits end of receivers only.
EndedBut(x, y, t) ==
    /\ y.waits[t] = NoWait
    /\ \A u \in Threads \ {t} : y.waits[u] = x.waits[u] \/ (x.waits[u] = InReceive /\ y.waits[u] = NoWait)

\* A request or a receiver fails: what it carried and what it held go.
LEMMA SoundWaitDropped ==
  ASSUME NEW x, Sound(x, 0, 0, 0), Placed(x), NEW t \in Threads, NEW w \in Stands, x.waits[t] = w,
         NEW u, Sound(u, 0, HeldSession(w), HeldChannel(w)), Keeps(x, u, {"queue", "waits"}),
         u.waits = [x.waits EXCEPT ![t] = NoWait],
         NEW via, via = (IF w = InReceive THEN "channel" ELSE w[2]),
         NEW y, y = LetGo(DropTransit(u, t), via)
  PROVE /\ Sound(y, 0, 0, 0) /\ Placed(y) /\ EndedBut(x, y, t)
        /\ y.transit = [x.transit EXCEPT ![t] = {}]
        /\ y.handles = x.handles /\ y.accepted = x.accepted /\ StaysClosed(x, y)
  <1> DEFINE z == DropTransit(u, t)
  <1>1. u.transit = x.transit /\ u.handles = x.handles /\ u.accepted = x.accepted /\ u.cleanup = x.cleanup
    BY Kept
  <1>2. Placed(u)
    BY <1>1 DEF Placed
  <1>3. HeldSession(w) \in Nat /\ HeldChannel(w) \in Nat
    BY DEF HeldSession, HeldChannel
  <1>4. /\ Sound(z, 0, HeldSession(w), HeldChannel(w)) /\ Placed(z)
        /\ z.transit = [u.transit EXCEPT ![t] = {}]
        /\ z.handles = u.handles /\ z.accepted = u.accepted /\ Ended(u, z) /\ StaysClosed(u, z)
    BY <1>2, <1>3, SoundDropTransit
  <1>5. y = LetGo(z, via)
    OBVIOUS
  <1> HIDE DEF z
  <1>6. Sound(y, 0, 0, 0) /\ Frame(z, y)
    BY <1>4, <1>5, SoundWaitGoes
  <1>7. Placed(y)
    BY <1>4, <1>6, SamePlaces DEF Frame
  <1>8. u.waits[t] = NoWait /\ \A v \in Threads \ {t} : u.waits[v] = x.waits[v]
    BY DEF Sound, Firm, StateType
  <1>9. EndedBut(x, y, t)
    BY <1>4, <1>6, <1>8, WaitKinds DEF EndedBut, Frame, Ended
  <1> QED
    BY <1>1, <1>4, <1>6, <1>7, <1>9 DEF Frame, StaysClosed


-----------------------------------------------------------------------------
(* Steps that end waits and let things go, and change nothing else.        *)

\* The rest of the invariant stays with such a step.
LEMMA QuietButUpcalls ==
  ASSUME ChannelInductive, Sound(k', 0, 0, 0), Placed(k'),
         UNCHANGED <<table, life, index, stage, given, request>>,
         pending' \in SUBSET Threads, \A t \in pending' : k'.waits[t] \notin Stands,
         k'.accepted = k.accepted,
         \A t \in Threads : \/ k'.waits[t] = k.waits[t]
                            \/ k.waits[t] \in Stands /\ k'.waits[t] = NoWait,
         \A t \in Threads : \/ k'.transit[t] = {}
                            \/ /\ k'.transit[t] = k.transit[t]
                               /\ k.waits[t] = InReceive \/ k'.waits[t] = k.waits[t]
  PROVE ChannelInductive'
  <1>1. Waiting'
    <2>1. ASSUME NEW t \in Threads, k'.waits[t] # NoWait PROVE life'[t] = "live"
      BY <2>1 DEF ChannelInductive, Waiting
    <2>2. ASSUME NEW t \in Threads, k'.transit[t] # {} PROVE life'[t] = "ended" \/ k'.waits[t] \in Sends
      BY <2>2, StandKinds DEF ChannelInductive, Waiting
    <2>3. ASSUME NEW t \in Threads, NEW p \in Procs, t \in k'.accepted[p] PROVE k'.waits[t] = ForReply(p)
      BY <2>3, StandKinds DEF ChannelInductive, Waiting
    <2> QED
      BY <2>1, <2>2, <2>3 DEF Waiting
  <1>2. TokensOK'
    <2>1. ASSUME NEW t \in Threads, NEW p \in Procs, k'.waits[t] = ForReply(p)
          PROVE request'[t] = <<index'[t], table'.count[index'[t]]>>
      BY <2>1, WaitKinds DEF ChannelInductive, TokensOK
    <2>2. ASSUME NEW t \in Threads, k'.waits[t] \in Sends PROVE table'.count[index'[t]] # MAX_COUNT
      BY <2>2, StandKinds, WaitKinds DEF ChannelInductive, TokensOK
    <2>3. \A n \in Numbers, c \in 0 .. MAX_COUNT : <<n, c>> \in given' => c <= table'.count[n]
      BY DEF ChannelInductive, TokensOK
    <2> QED
      BY <2>1, <2>2, <2>3 DEF TokensOK
  <1>3. NoSleepOnUpcall'
    BY DEF NoSleepOnUpcall, InQueue, Stands, Sends
  <1>4. TableType' /\ ThreadType' /\ Stopped' /\ Holders'
    BY DEF ChannelInductive, TableType, ThreadType, Stopped, Holders
  <1> QED
    BY <1>1, <1>2, <1>3, <1>4 DEF ChannelInductive

\* And with the upcalls that are asked for.
LEMMA Quiet ==
  ASSUME ChannelInductive, Sound(k', 0, 0, 0), Placed(k'),
         UNCHANGED <<table, life, index, stage, pending, given, request>>,
         k'.accepted = k.accepted,
         \A t \in Threads : \/ k'.waits[t] = k.waits[t]
                            \/ k.waits[t] \in Stands /\ k'.waits[t] = NoWait,
         \A t \in Threads : \/ k'.transit[t] = {}
                            \/ /\ k'.transit[t] = k.transit[t]
                               /\ k.waits[t] = InReceive \/ k'.waits[t] = k.waits[t]
  PROVE ChannelInductive'
  <1>1. ASSUME NEW t \in pending' PROVE k'.waits[t] \notin Stands
    BY <1>1, StandKinds DEF ChannelInductive, NoSleepOnUpcall, ThreadType, InQueue, Stands, Sends
  <1>2. pending' \in SUBSET Threads
    BY DEF ChannelInductive, ThreadType
  <1> QED
    BY <1>1, <1>2, QuietButUpcalls


Rest == <<table, life, index, stage, pending, given, request>>

\* What a step must not do with the table of a process whose threads are gone.
InTime ==
    \A p \in Procs : stage[p] \in {"replies", "handles", "gone"} => k'.handles[p] \subseteq k.handles[p]

\* What a thread may put in a message is nothing or one of its handles.
LEMMA MovableFacts ==
  ASSUME NEW t \in Threads, NEW h, NEW moving \in Movable(t, h)
  PROVE moving = {} \/ \E m \in k.handles[Of[t]] : moving = {m}
  BY DEF Movable

\* Handles of a table go.
LEMMA QuietDrop ==
  ASSUME ChannelInductive, NEW p \in Procs, NEW moving,
         moving = {} \/ \E m \in k.handles[p] : moving = {m},
         k' = DropHandles(k, p, moving), UNCHANGED Rest
  PROVE ChannelInductive' /\ InTime
  <1>1. Sound(k, 0, 0, 0) /\ Placed(k)
    BY DEF ChannelInductive
  <1>2. /\ Sound(k', 0, 0, 0) /\ Placed(k')
        /\ k'.transit = k.transit /\ k'.accepted = k.accepted /\ Ended(k, k') /\ InTime
    <2>1. PICK y : y = DropHandles(k, p, moving)
      OBVIOUS
    <2>3. moving = {} \/ \E m \in k.handles[p] : moving = {m}
      OBVIOUS
    <2>2. /\ Sound(y, 0, 0, 0) /\ Placed(y)
          /\ y.transit = k.transit /\ y.accepted = k.accepted /\ Ended(k, y)
          /\ \A q \in Procs : y.handles[q] \subseteq k.handles[q]
      BY ONLY <1>1, <2>1, <2>3, p \in Procs, SoundDropHandles
    <2> QED
      BY <2>1, <2>2 DEF InTime
  <1> QED
    BY <1>2, Quiet DEF Rest, Ended, Stands

\* send to a closed channel, or to a receiver without room.
LEMMA SendFailsStep ==
  ASSUME ChannelInductive, NEW t \in Threads, NEW h \in Handles, NEW moving \in Movable(t, h),
         SendFails(t, h, moving)
  PROVE ChannelInductive' /\ InTime
  BY MovableFacts, QuietDrop, ChannelAssumption DEF SendFails, Rest

\* send with an upcall asked for.
LEMMA SendInterruptedStep ==
  ASSUME ChannelInductive, NEW t \in Threads, NEW h \in Handles, NEW moving \in Movable(t, h),
         SendInterrupted(t, h, moving)
  PROVE ChannelInductive' /\ InTime
  BY MovableFacts, QuietDrop, ChannelAssumption DEF SendInterrupted, Rest

\* reply to a client that ended.
LEMMA ReplyDeadStep ==
  ASSUME ChannelInductive, NEW t \in Threads, NEW token \in given, NEW moving \in Movable(t, None),
         ReplyDead(t, token, moving)
  PROVE ChannelInductive' /\ InTime
  BY MovableFacts, QuietDrop, ChannelAssumption DEF ReplyDead, Rest

\* handle_close.
LEMMA CloseHandleStep ==
  ASSUME ChannelInductive, NEW t \in Threads, NEW h \in Handles, CloseHandle(t, h)
  PROVE ChannelInductive' /\ InTime
  BY QuietDrop, ChannelAssumption DEF CloseHandle, Rest

\* A portion of the stage Handles.
LEMMA ReleaseHandleStep ==
  ASSUME ChannelInductive, NEW p \in Procs, NEW h \in Handles, ReleaseHandle(p, h)
  PROVE ChannelInductive' /\ InTime
  BY QuietDrop DEF ReleaseHandle, Rest

\* The wait of a thread in the queue is dropped with what it carries.
LEMMA QuietDropped ==
  ASSUME ChannelInductive, NEW t \in Threads, k.waits[t] \in Stands,
         Sound(k', 0, 0, 0), Placed(k'), EndedBut(k, k', t), UNCHANGED Rest,
         k'.transit = [k.transit EXCEPT ![t] = {}], k'.accepted = k.accepted, k'.handles = k.handles
  PROVE ChannelInductive' /\ InTime
  <1>1. k.transit \in [Threads -> SUBSET Handles]
    BY DEF ChannelInductive, Sound, Firm, StateType
  <1>2. \A u \in Threads : \/ k'.waits[u] = k.waits[u]
                           \/ k.waits[u] \in Stands /\ k'.waits[u] = NoWait
    BY DEF EndedBut, Stands
  <1>3. \A u \in Threads : \/ k'.transit[u] = {}
                           \/ /\ k'.transit[u] = k.transit[u]
                              /\ k.waits[u] = InReceive \/ k'.waits[u] = k.waits[u]
    BY <1>1 DEF EndedBut
  <1> QED
    BY <1>2, <1>3, Quiet DEF Rest, InTime

\* What Interrupt and RequestUpcall do with a thread in the queue.
LEMMA WithdrawDropped ==
  ASSUME ChannelInductive, NEW t \in Threads, InQueue(t),
         NEW y, y = LetGo(DropTransit(Withdraw(k, t), t), WaitedVia(t))
  PROVE /\ k.waits[t] \in Stands
        /\ Sound(y, 0, 0, 0) /\ Placed(y) /\ EndedBut(k, y, t)
        /\ y.transit = [k.transit EXCEPT ![t] = {}] /\ y.accepted = k.accepted /\ y.handles = k.handles
  <1> DEFINE u == Withdraw(k, t)
  <1>1. Sound(k, 0, 0, 0) /\ Placed(k) /\ k.waits[t] \in Stands
    BY DEF ChannelInductive, InQueue, Stands, Sends
  <1>2. /\ Sound(u, 0, HeldSession(k.waits[t]), HeldChannel(k.waits[t]))
        /\ Keeps(k, u, {"queue", "waits"}) /\ u.waits = [k.waits EXCEPT ![t] = NoWait]
    BY <1>1, SoundWithdraw
  <1>3. y = LetGo(DropTransit(u, t), WaitedVia(t))
    OBVIOUS
  <1> HIDE DEF u
  <1>4. WaitedVia(t) = IF k.waits[t] = InReceive THEN "channel" ELSE k.waits[t][2]
    BY DEF WaitedVia
  <1>5. PICK w \in Stands : w = k.waits[t]
    BY <1>1
  <1> QED
    BY <1>1, <1>2, <1>3, <1>4, <1>5, SoundWaitDropped

\* thread_interrupt.
LEMMA InterruptStep ==
  ASSUME ChannelInductive, NEW t \in Threads, Interrupt(t)
  PROVE ChannelInductive' /\ InTime
  BY WithdrawDropped, QuietDropped DEF Interrupt, Rest

\* The head of a queue that holds no receivers: a request.
LEMMA HeadRequest ==
  ASSUME NEW x, Sound(x, 0, 0, 0), ~x.waiting, x.queue # <<>>, Head(x.queue) \in Threads
  PROVE x.waits[Head(x.queue)] \in Sends
  <1>1. x.queue \in Seq(Threads \cup Slots) /\ Distinct(x.queue) /\ QueueOK(x)
    BY DEF Sound, Firm, StateType, QueueOK
  <1>2. Head(x.queue) \in Elems(x.queue)
    BY <1>1, TailFacts
  <1> QED
    BY <1>1, <1>2 DEF QueueOK, Stands

\* A request at the head of the queue fails.
LEMMA HeadDropped ==
  ASSUME NEW x, Sound(x, 0, 0, 0), Placed(x), NEW t \in Threads, x.queue # <<>>, Head(x.queue) = t,
         x.waits[t] \in Sends,
         NEW y, y = LetGo(DropTransit([TakeHead(x) EXCEPT !.waits[t] = NoWait], t), x.waits[t][2])
  PROVE /\ Sound(y, 0, 0, 0) /\ Placed(y) /\ EndedBut(x, y, t)
        /\ y.transit = [x.transit EXCEPT ![t] = {}]
        /\ y.handles = x.handles /\ y.accepted = x.accepted /\ StaysClosed(x, y)
  <1> DEFINE v == TakeHead(x)
             u == [v EXCEPT !.waits = [v.waits EXCEPT ![t] = NoWait]]
  <1>0. IsState(x) /\ x.waits[t] \in Stands /\ x.waits[t] # InReceive
    BY StandKinds DEF Sound, Firm, StateType, Stands
  <1>1. Keeps(x, v, {"queue"}) /\ v.queue = Tail(x.queue)
    BY <1>0 DEF IsState, Fields, Keeps, TakeHead
  <1>2. y = LetGo(DropTransit(u, t), x.waits[t][2])
    OBVIOUS
  <1> HIDE DEF v
  <1>3. Keeps(v, u, {"waits"}) /\ u.waits = [v.waits EXCEPT ![t] = NoWait]
    BY <1>1 DEF IsState, Fields, Keeps
  <1> HIDE DEF u
  <1>4. v.waits = x.waits /\ u.queue = v.queue
    BY <1>1, <1>3, Kept
  <1>5. Keeps(x, u, {"queue", "waits"})
    BY <1>1, <1>3 DEF Keeps
  <1>6. u.queue = Tail(x.queue) /\ u.waits = [x.waits EXCEPT ![t] = NoWait]
    BY <1>1, <1>3, <1>4
  <1>7. Sound(u, 0, HeldSession(x.waits[t]), HeldChannel(x.waits[t]))
    BY <1>5, <1>6, StandKinds, SoundTakeThread
  <1>8. PICK w \in Stands : w = x.waits[t]
    BY <1>0
  <1>9. x.waits[t][2] = IF w = InReceive THEN "channel" ELSE w[2]
    BY <1>0, <1>8
  <1> QED
    BY <1>2, <1>5, <1>6, <1>7, <1>8, <1>9, SoundWaitDropped

\* receive without room for the handles of a request.
LEMMA ReceiveUnfitStep ==
  ASSUME ChannelInductive, NEW t \in Threads, NEW client \in Threads, ReceiveUnfit(t, client)
  PROVE ChannelInductive' /\ InTime
  <1>1. Sound(k, 0, 0, 0) /\ Placed(k) /\ ~k.waiting /\ k.queue # <<>> /\ Head(k.queue) = client
    BY DEF ChannelInductive, ReceiveUnfit, Queued
  <1>2. k.waits[client] \in Sends /\ k.waits[client] \in Stands
    BY <1>1, HeadRequest DEF Stands
  <1>3. /\ Sound(k', 0, 0, 0) /\ Placed(k') /\ EndedBut(k, k', client)
        /\ k'.transit = [k.transit EXCEPT ![client] = {}] /\ k'.accepted = k.accepted
        /\ k'.handles = k.handles
    BY <1>1, <1>2, HeadDropped DEF ReceiveUnfit
  <1> QED
    BY <1>2, <1>3, QuietDropped DEF ReceiveUnfit, Rest


\* A handle keeps what it names.
LEMMA HandleKeeps ==
  ASSUME NEW x, Sound(x, 0, 0, 0), NEW h \in Handles, h \in All(x)
  PROVE /\ x.refs > 0
        /\ h \in Labelled => x.copies > 0 /\ x.session = "live"
        /\ h \in Receiving => ~x.closed
  <1>0. StateType(x) /\ x.refs \in Nat /\ x.copies \in Nat /\ x.srefs \in Nat /\ x.receivers \in Nat
    BY DEF Sound, Firm, StateType
  <1>1. /\ \A H : Number(x, H) \in Nat
        /\ \A w : InWait(x, w) \in Nat
    BY <1>0, NumberTypes
  <1>2. \A H : h \in H => Number(x, H) > 0
    BY <1>0, HandlesCount
  <1>n. /\ Number(x, Labelled) \in Nat /\ InWait(x, InSend("session")) \in Nat
        /\ Number(x, Counted) \in Nat /\ InWait(x, InSend("channel")) \in Nat
        /\ InWait(x, InReceive) \in Nat /\ Number(x, Receiving) \in Nat
    BY <1>1
  <1>3. h \in Labelled => x.copies > 0 /\ x.session = "live"
    <2>1. ASSUME h \in Labelled PROVE x.copies > 0
      BY <1>0, <1>2, <1>n, <2>1 DEF Sound, Firm, Counts
    <2>2. x.copies > 0 => x.srefs > 0
      BY <1>0 DEF Sound, Firm, Counts
    <2> QED
      BY <2>1, <2>2 DEF Sound, Firm, Status
  <1>4. h \in Receiving => ~x.closed
    <2>1. ASSUME h \in Receiving PROVE x.receivers > 0
      BY <1>0, <1>2, <1>n, <2>1 DEF Sound, Firm, Counts
    <2> QED
      BY <1>0, <2>1 DEF Sound, Firm, Status
  <1>5. x.refs > 0
    <2>1. CASE h \in Labelled
      <3>1. x.session # "none"
        BY <1>3, <2>1
      <3> QED
        BY <1>0, <1>n, <3>1 DEF Sound, Firm, Counts
    <2>2. CASE h \notin Labelled
      <3>1. Number(x, Counted) > 0
        BY <1>2, <2>2 DEF Counted
      <3> QED
        BY <1>0, <1>n, <3>1 DEF Sound, Firm, Counts
    <2> QED
      BY <2>1, <2>2
  <1> QED
    BY <1>3, <1>4, <1>5

\* A handle in the table of a thread's process is there.
LEMMA TableThere ==
  ASSUME NEW t \in Threads, NEW h, h \in k.handles[Of[t]]
  PROVE h \in All(k)
  BY AllMembers, ChannelAssumption

\* notify.
LEMMA NotifyStep ==
  ASSUME ChannelInductive, NEW t \in Threads, NEW h \in Handles, Notify(t, h)
  PROVE ChannelInductive' /\ InTime
  <1> DEFINE s == IF h \in Labelled THEN "session" ELSE "label0"
  <1>1. Sound(k, 0, 0, 0) /\ Placed(k) /\ StateType(k)
    BY DEF ChannelInductive, Sound, Firm
  <1>2. h \in All(k)
    BY TableThere DEF Notify
  <1>3. s \in Slots /\ (s = "session" => k.srefs > 0)
    <2>1. h \in Labelled => k.session = "live"
      BY <1>1, <1>2, HandleKeeps
    <2> QED
      BY <1>1, <2>1 DEF Sound, Firm, Status, Slots
  <1>4. PICK y : y = Post(k, s, "bit")
    OBVIOUS
  <1>5. k' = y /\ UNCHANGED Rest
    BY <1>4 DEF Notify, Rest
  <1> HIDE DEF s
  <1>6. /\ Firm(y, 0, 0, 0, 0)
        /\ Keeps(k, y, {"bits", "told", "queue", "waits", "refs", "cleanup", "waiting", "srefs"})
        /\ Ended(k, y)
        /\ Word(y) <=> Word(k) \/ (s = "session" /\ "bit" = "gone" /\ ~k.closed)
    <2>1. Firm(k, 0, 0, 0, 0) /\ 0 \in Int /\ 0 \in Nat
      BY <1>1 DEF Sound
    <2>2. PICK b \in {"bit", "gone"} : b = "bit"
      OBVIOUS
    <2>3. /\ Firm(y, 0, 0, 0, 0)
          /\ Keeps(k, y, {"bits", "told", "queue", "waits", "refs", "cleanup", "waiting", "srefs"})
          /\ Ended(k, y)
          /\ Word(y) <=> Word(k) \/ (s = "session" /\ b = "gone" /\ ~k.closed)
      BY ONLY <1>3, <1>4, <2>1, <2>2, FirmPost
    <2> QED
      BY <2>2, <2>3
  <1>7. Keeps(k, y, {"bits", "told", "queue", "waits", "refs", "cleanup", "waiting", "srefs"})
    BY <1>6
  <1>8. /\ y.copies = k.copies /\ y.session = k.session /\ y.closed = k.closed
        /\ y.handles = k.handles /\ y.transit = k.transit /\ y.accepted = k.accepted
    BY ONLY <1>7, Kept
  <1>9. Gone(y)
    <2>1. Word(y) <=> Word(k)
      BY <1>6
    <2> QED
      BY <1>1, <1>8, <2>1 DEF Sound, Gone
  <1>10. Sound(y, 0, 0, 0) /\ Placed(y)
    BY <1>1, <1>6, <1>8, <1>9, SamePlaces DEF Sound
  <1>11. Sound(k', 0, 0, 0) /\ Placed(k') /\ k'.accepted = k.accepted /\ k'.transit = k.transit /\ Ended(k, k') /\ InTime
    BY <1>5, <1>6, <1>8, <1>10 DEF InTime
  <1> QED
    BY <1>5, <1>11, Quiet DEF Rest, Ended, Stands

\* receive of what a slot holds.
LEMMA ReceiveSlotStep ==
  ASSUME ChannelInductive, NEW t \in Threads, NEW s \in Slots, ReceiveSlot(t, s)
  PROVE ChannelInductive' /\ InTime
  <1> DEFINE v == TakeHead(k)
             z == Notice(v, s)
  <1>1. Sound(k, 0, 0, 0) /\ Placed(k) /\ StateType(k) /\ IsState(k)
    BY DEF ChannelInductive, Sound, Firm, StateType
  <1>2. ~k.waiting /\ k.queue # <<>> /\ Head(k.queue) = s /\ UNCHANGED Rest
    BY DEF ReceiveSlot, Queued, Rest
  <1>3. k' = OwnerLetGo(z, s)
    BY DEF ReceiveSlot
  <1>4. Keeps(k, v, {"queue"}) /\ v.queue = Tail(k.queue)
    BY <1>1 DEF IsState, Fields, Keeps, TakeHead
  <1> HIDE DEF v
  <1>5. /\ Keeps(v, z, {"told", "bits"}) /\ z.bits = [v.bits EXCEPT ![s] = {}]
        /\ z.told <=> v.told \/ (s = "session" /\ "gone" \in v.bits[s])
    BY <1>4 DEF IsState, Fields, Keeps, Notice
  <1> HIDE DEF z
  <1>6. Keeps(v, z, {"told", "bits"})
    BY <1>5
  <1>7. z.queue = v.queue /\ v.bits = k.bits /\ v.told = k.told
    BY <1>4, <1>6, Kept
  <1>8. Keeps(k, z, {"queue", "bits", "told"})
    BY <1>4, <1>6 DEF Keeps
  <1>9. z.queue = Tail(k.queue) /\ z.bits = [k.bits EXCEPT ![s] = {}]
    BY <1>4, <1>5, <1>7
  <1>10. /\ Firm(k', 0, 0, 0, 0) /\ Keeps(z, k', {"srefs", "session"})
         /\ k'.session = "none" <=> k.session = "none"
    BY <1>1, <1>2, <1>3, <1>8, <1>9, FirmSlotLeaves
  <1>11. /\ z.copies = k.copies /\ z.closed = k.closed /\ z.waits = k.waits
         /\ z.handles = k.handles /\ z.transit = k.transit /\ z.accepted = k.accepted
    BY <1>8, Kept
  <1>12. Keeps(z, k', {"srefs", "session"})
    BY <1>10
  <1>13. /\ k'.copies = z.copies /\ k'.closed = z.closed /\ k'.waits = z.waits
         /\ k'.handles = z.handles /\ k'.transit = z.transit /\ k'.accepted = z.accepted
         /\ k'.told = z.told /\ k'.bits = z.bits
    BY <1>12, Kept
  <1>14. Word(k') <=> Word(k)
    <2>1. k.bits \in [Slots -> Bits] /\ "session" \in Slots
      BY <1>1 DEF StateType, Slots
    <2>2. "gone" \in z.bits["session"] <=> s # "session" /\ "gone" \in k.bits["session"]
      BY <1>9, <2>1
    <2>3. z.told <=> k.told \/ (s = "session" /\ "gone" \in k.bits["session"])
      BY <1>5, <1>7
    <2> QED
      BY <1>13, <2>2, <2>3 DEF Word
  <1>15. Gone(k')
    BY <1>1, <1>10, <1>11, <1>13, <1>14 DEF Sound, Gone
  <1>16. Sound(k', 0, 0, 0) /\ Placed(k')
    BY <1>1, <1>10, <1>11, <1>13, <1>15, SamePlaces DEF Sound
  <1> QED
    BY <1>2, <1>11, <1>13, <1>16, Quiet DEF Rest, InTime

\* The memory of the channel goes.
LEMMA FreeChannelStep ==
  ASSUME ChannelInductive, FreeChannel
  PROVE ChannelInductive' /\ InTime
  <1>1. Sound(k, 0, 0, 0) /\ Placed(k) /\ StateType(k) /\ IsState(k) /\ k.cleanup = "shell" /\ UNCHANGED Rest
    BY DEF ChannelInductive, Sound, Firm, StateType, FreeChannel, Rest
  <1>2. Keeps(k, k', {"cleanup"}) /\ k'.cleanup = "freed"
    BY <1>1 DEF FreeChannel, IsState, Fields, Keeps
  <1>3. /\ IsState(k') /\ k'.queue = k.queue /\ k'.waiting = k.waiting /\ k'.closed = k.closed
        /\ k'.receivers = k.receivers /\ k'.refs = k.refs /\ k'.sources = k.sources
        /\ k'.copies = k.copies /\ k'.srefs = k.srefs
        /\ k'.session = k.session /\ k'.told = k.told /\ k'.bits = k.bits
        /\ k'.waits = k.waits /\ k'.transit = k.transit /\ k'.handles = k.handles
        /\ k'.accepted = k.accepted
    BY <1>2, Kept
  <1>4. StateType(k')
    BY <1>1, <1>2, <1>3 DEF StateType
  <1>5. QueueOK(k')
    BY <1>1, <1>3, SameQueue DEF Sound, Firm
  <1>6. /\ \A H : Number(k', H) = Number(k, H)
        /\ \A w : InWait(k', w) = InWait(k, w)
    BY <1>3, SameHandles, SameWaits
  <1>7. Counts(k', 0, 0, 0, 0)
    BY <1>1, <1>2, <1>3, <1>6 DEF Sound, Firm, Counts
  <1>8. Status(k') /\ Gone(k')
    BY <1>1, <1>2, <1>3 DEF Sound, Firm, Status, Gone, Word
  <1>9. Sound(k', 0, 0, 0) /\ Placed(k')
    BY <1>1, <1>3, <1>4, <1>5, <1>7, <1>8, SamePlaces DEF Sound, Firm
  <1> QED
    BY <1>1, <1>3, <1>9, Quiet DEF Rest, InTime


\* What a step that lets things go does besides.
Let(x, y) ==
    /\ y.handles = x.handles /\ y.accepted = x.accepted
    /\ \A t \in Threads : \/ y.waits[t] = x.waits[t]
                          \/ x.waits[t] \in Stands /\ y.waits[t] = NoWait
    /\ \A t \in Threads : \/ y.transit[t] = {}
                          \/ /\ y.transit[t] = x.transit[t]
                             /\ x.waits[t] = InReceive \/ y.waits[t] = x.waits[t]

\* A release may follow.
LEMMA LetFrame ==
  ASSUME NEW x, NEW y, NEW z, Let(x, y), Frame(y, z)
  PROVE Let(x, z)
  BY StandKinds, WaitKinds DEF Let, Frame, Ended, Stands

\* And nothing else does.
LEMMA LetKept ==
  ASSUME NEW x, NEW y, NEW F, Keeps(x, y, F),
         "handles" \notin F, "transit" \notin F, "accepted" \notin F, "waits" \notin F
  PROVE Let(x, y) /\ (Placed(x) => Placed(y))
  <1>1. y.handles = x.handles /\ y.transit = x.transit /\ y.accepted = x.accepted /\ y.waits = x.waits
    BY Kept
  <1> QED
    BY <1>1, SamePlaces DEF Let

\* The rest of the invariant stays.
LEMMA QuietLet ==
  ASSUME ChannelInductive, Sound(k', 0, 0, 0), Placed(k'), Let(k, k'), UNCHANGED Rest
  PROVE ChannelInductive' /\ InTime
  <1>1. ChannelInductive'
    BY Quiet DEF Let, Rest
  <1> QED
    BY <1>1 DEF Let, InTime

\* The shell of the session goes, and with it a source of the channel.
LEMMA CleanSessionStep ==
  ASSUME ChannelInductive, CleanSession
  PROVE ChannelInductive' /\ InTime
  <1> DEFINE z == [k EXCEPT !.session = "none", !.sources = @ - 1]
  <1>1. Sound(k, 0, 0, 0) /\ Placed(k) /\ StateType(k) /\ IsState(k) /\ k.session = "shell" /\ UNCHANGED Rest
    BY DEF ChannelInductive, Sound, Firm, StateType, CleanSession, Rest
  <1>2. Keeps(k, z, {"session", "sources"}) /\ z.session = "none" /\ z.sources = k.sources - 1
    BY <1>1 DEF IsState, Fields, Keeps
  <1>3. k' = ReleaseRef(z)
    BY DEF CleanSession
  <1> HIDE DEF z
  <1>4. /\ z.queue = k.queue /\ z.waiting = k.waiting /\ z.closed = k.closed /\ z.cleanup = k.cleanup
        /\ z.receivers = k.receivers /\ z.refs = k.refs /\ z.copies = k.copies
        /\ z.srefs = k.srefs /\ z.told = k.told /\ z.bits = k.bits
        /\ z.waits = k.waits /\ z.transit = k.transit /\ z.handles = k.handles
        /\ z.accepted = k.accepted
    BY <1>2, Kept
  <1>5. k.sources = 2 /\ k.srefs \in Nat /\ ~(k.srefs > 0) /\ k.refs \in Nat
    BY <1>1 DEF Sound, Firm, Status, StateType
  <1>6. StateType(z)
    BY <1>1, <1>2, <1>4, <1>5 DEF StateType, Keeps
  <1>7. QueueOK(z)
    BY <1>1, <1>4, SameQueue DEF Sound, Firm
  <1>8. /\ \A H : Number(z, H) = Number(k, H) /\ Number(k, H) \in Nat
        /\ \A w : InWait(z, w) = InWait(k, w) /\ InWait(k, w) \in Nat
    BY <1>1, <1>4, SameHandles, SameWaits, NumberTypes
  <1>9. /\ Number(z, Labelled) = Number(k, Labelled) /\ Number(z, Counted) = Number(k, Counted)
        /\ Number(z, Receiving) = Number(k, Receiving) /\ Number(k, Counted) \in Nat
        /\ InWait(z, InSend("session")) = InWait(k, InSend("session"))
        /\ InWait(z, InSend("channel")) = InWait(k, InSend("channel")) /\ InWait(k, InSend("channel")) \in Nat
        /\ InWait(z, InReceive) = InWait(k, InReceive) /\ InWait(k, InReceive) \in Nat
    BY <1>8
  <1>10. k.refs > 0
    BY <1>1, <1>5, <1>9 DEF Sound, Firm, Counts
  <1>11. Counts(z, 0, 0, 1, 0)
    BY <1>1, <1>2, <1>4, <1>9 DEF Sound, Firm, Counts
  <1>12. Status(z)
    BY <1>1, <1>2, <1>4, <1>5, <1>10 DEF Sound, Firm, Status
  <1>13. Gone(z)
    BY <1>1, <1>2, <1>4 DEF Sound, Gone, Word
  <1>14. Sound(z, 0, 0, 1)
    BY <1>6, <1>7, <1>11, <1>12, <1>13 DEF Sound, Firm
  <1>15. PICK y : y = ReleaseRef(z)
    OBVIOUS
  <1>16. Sound(y, 0, 0, 1 - 1) /\ Frame(z, y)
    BY ONLY <1>14, <1>15, 0 \in Int, 1 \in Int, 1 >= 1, SoundReleaseRef
  <1>17. Sound(k', 0, 0, 0) /\ Frame(z, k')
    BY <1>3, <1>15, <1>16
  <1>18. Let(k, z) /\ Placed(z)
    BY <1>1, <1>2, LetKept
  <1>19. Let(k, k') /\ Placed(k')
    BY <1>17, <1>18, LetFrame, SamePlaces DEF Frame
  <1> QED
    BY <1>1, <1>17, <1>19, QuietLet

\* The head of the queue of a channel that closed: a slot.
LEMMA CloseHeadSlot ==
  ASSUME NEW x, Sound(x, 0, 0, 0), Placed(x), x.closed, x.queue # <<>>, Head(x.queue) \in Slots,
         NEW y, y = CloseHead(x)
  PROVE Sound(y, 0, 0, 0) /\ Placed(y) /\ Let(x, y) /\ StaysClosed(x, y)
  <1> DEFINE v == TakeHead(x)
             z == [v EXCEPT !.bits = [v.bits EXCEPT ![Head(x.queue)] = {}]]
  <1>1. PICK s \in Slots : s = Head(x.queue)
    OBVIOUS
  <1>2. StateType(x) /\ IsState(x) /\ QueueOK(x) /\ x.queue \in Seq(Threads \cup Slots) /\ Distinct(x.queue)
    BY DEF Sound, Firm, StateType, QueueOK
  <1>3. s \in Elems(x.queue) /\ s \notin Threads
    BY <1>1, <1>2, TailFacts, ChannelAssumption
  <1>4. ~x.waiting
    BY <1>2, <1>3 DEF QueueOK
  <1>5. y = OwnerLetGo(z, s)
    BY <1>1, <1>3 DEF CloseHead
  <1>6. Keeps(x, v, {"queue"}) /\ v.queue = Tail(x.queue)
    BY <1>2 DEF IsState, Fields, Keeps, TakeHead
  <1> HIDE DEF v
  <1>7. Keeps(v, z, {"bits"}) /\ z.bits = [v.bits EXCEPT ![s] = {}]
    BY <1>1, <1>6 DEF IsState, Fields, Keeps
  <1> HIDE DEF z
  <1>8. v.bits = x.bits /\ z.queue = v.queue
    BY <1>6, <1>7, Kept
  <1>9. Keeps(x, z, {"queue", "bits", "told"})
    BY <1>6, <1>7 DEF Keeps
  <1>10. z.queue = Tail(x.queue) /\ z.bits = [x.bits EXCEPT ![s] = {}]
    BY <1>6, <1>7, <1>8
  <1>11. /\ Firm(y, 0, 0, 0, 0) /\ Keeps(z, y, {"srefs", "session"})
    BY <1>1, <1>4, <1>5, <1>9, <1>10, FirmSlotLeaves
  <1>12. Keeps(x, z, {"queue", "bits"}) /\ Keeps(z, y, {"srefs", "session"})
    BY <1>6, <1>7, <1>11 DEF Keeps
  <1>13. Keeps(x, y, {"queue", "bits", "srefs", "session"})
    BY <1>12 DEF Keeps
  <1>14. y.told = x.told /\ y.bits = z.bits /\ y.copies = x.copies /\ y.closed = x.closed /\ y.cleanup = x.cleanup
    <2>1. y.told = x.told /\ y.copies = x.copies /\ y.closed = x.closed /\ y.cleanup = x.cleanup
      BY ONLY <1>13, Kept
    <2>2. y.bits = z.bits
      BY ONLY <1>12, Kept
    <2> QED
      BY <2>1, <2>2
  <1>15. "gone" \in y.bits["session"] => "gone" \in x.bits["session"]
    <2>1. x.bits \in [Slots -> Bits] /\ "session" \in Slots
      BY <1>2 DEF StateType, Slots
    <2> QED
      BY <1>10, <1>14, <2>1
  <1>16. Gone(y)
    BY <1>14, <1>15 DEF Sound, Gone, Word
  <1>17. Let(x, y) /\ Placed(y)
    BY <1>13, LetKept
  <1> QED
    BY <1>11, <1>14, <1>16, <1>17 DEF Sound, StaysClosed

\* A receiver.
LEMMA CloseHeadReceiver ==
  ASSUME NEW x, Sound(x, 0, 0, 0), Placed(x), x.queue # <<>>, NEW t \in Threads, Head(x.queue) = t,
         x.waits[t] = InReceive, NEW y, y = CloseHead(x)
  PROVE Sound(y, 0, 0, 0) /\ Placed(y) /\ Let(x, y) /\ StaysClosed(x, y)
  <1> DEFINE v == TakeHead(x)
             u == [v EXCEPT !.waits = [v.waits EXCEPT ![t] = NoWait]]
  <1>1. IsState(x) /\ x.waits \in [Threads -> Waits]
    BY DEF Sound, Firm, StateType
  <1>2. t \notin Slots
    BY ChannelAssumption
  <1>3. y = ReleaseRef(u)
    BY <1>2 DEF CloseHead
  <1>4. Keeps(x, v, {"queue"}) /\ v.queue = Tail(x.queue)
    BY <1>1 DEF IsState, Fields, Keeps, TakeHead
  <1> HIDE DEF v
  <1>5. Keeps(v, u, {"waits"}) /\ u.waits = [v.waits EXCEPT ![t] = NoWait]
    BY <1>4 DEF IsState, Fields, Keeps
  <1> HIDE DEF u
  <1>6. v.waits = x.waits /\ u.queue = v.queue
    BY <1>4, <1>5, Kept
  <1>7. Keeps(x, u, {"queue", "waits"})
    BY <1>4, <1>5 DEF Keeps
  <1>8. u.queue = Tail(x.queue) /\ u.waits = [x.waits EXCEPT ![t] = NoWait]
    BY <1>4, <1>5, <1>6
  <1>9. Sound(u, 0, HeldSession(x.waits[t]), HeldChannel(x.waits[t]))
    BY <1>7, <1>8, StandKinds, SoundTakeThread
  <1>10. HeldSession(x.waits[t]) = 0 /\ HeldChannel(x.waits[t]) = 1
    BY WaitKinds DEF HeldSession, HeldChannel
  <1>11. Sound(u, 0, 0, 1)
    BY <1>9, <1>10
  <1>12. Sound(y, 0, 0, 1 - 1) /\ Frame(u, y)
    BY ONLY <1>3, <1>11, 0 \in Int, 1 \in Int, 1 >= 1, SoundReleaseRef
  <1>13. u.transit = x.transit /\ u.handles = x.handles /\ u.accepted = x.accepted /\ u.cleanup = x.cleanup
    BY <1>7, Kept
  <1>14. \A w \in Threads : u.waits[w] = IF w = t THEN NoWait ELSE x.waits[w]
    BY <1>1, <1>8
  <1>15. Let(x, u) /\ Placed(u)
    BY <1>13, <1>14, SamePlaces DEF Let, Stands
  <1>16. Let(x, y) /\ Placed(y) /\ StaysClosed(x, y)
    BY <1>12, <1>13, <1>15, LetFrame, SamePlaces DEF Frame, StaysClosed
  <1> QED
    BY <1>12, <1>16

\* A portion of the stage Close.
LEMMA CloseHeadFacts ==
  ASSUME NEW x, Sound(x, 0, 0, 0), Placed(x), x.closed, x.queue # <<>>, NEW y, y = CloseHead(x)
  PROVE Sound(y, 0, 0, 0) /\ Placed(y) /\ Let(x, y) /\ StaysClosed(x, y)
  <1>1. QueueOK(x) /\ x.queue \in Seq(Threads \cup Slots) /\ Distinct(x.queue)
    BY DEF Sound, Firm, StateType, QueueOK
  <1>2. Head(x.queue) \in Elems(x.queue) /\ Head(x.queue) \in Threads \cup Slots
    BY <1>1, TailFacts
  <1>3. CASE Head(x.queue) \in Slots
    BY <1>3, CloseHeadSlot
  <1>4. CASE Head(x.queue) \in Threads /\ x.waits[Head(x.queue)] = InReceive
    BY <1>4, CloseHeadReceiver
  <1>5. CASE Head(x.queue) \in Threads /\ x.waits[Head(x.queue)] # InReceive
    <2>1. PICK t \in Threads : t = Head(x.queue)
      BY <1>5
    <2>2. x.waits[t] \in Sends
      BY <1>1, <1>2, <1>5, <2>1 DEF QueueOK, Stands
    <2>3. t \notin Slots
      BY ChannelAssumption
    <2>4. y = LetGo(DropTransit([TakeHead(x) EXCEPT !.waits[t] = NoWait], t), x.waits[t][2])
      BY <1>5, <2>1, <2>3 DEF CloseHead
    <2>5. /\ Sound(y, 0, 0, 0) /\ Placed(y) /\ EndedBut(x, y, t)
          /\ y.transit = [x.transit EXCEPT ![t] = {}]
          /\ y.handles = x.handles /\ y.accepted = x.accepted /\ StaysClosed(x, y)
      <3>1. Sound(x, 0, 0, 0) /\ Placed(x) /\ x.queue # <<>> /\ Head(x.queue) = t
        BY <2>1
      <3> QED
        BY ONLY <2>2, <2>4, <3>1, t \in Threads, HeadDropped
    <2>6. \A u \in Threads : y.transit[u] = IF u = t THEN {} ELSE x.transit[u]
      BY <2>5 DEF Sound, Firm, StateType
    <2>7. Let(x, y)
      BY <2>2, <2>5, <2>6 DEF Let, EndedBut, Stands
    <2> QED
      BY <2>5, <2>7
  <1> QED
    BY <1>2, <1>3, <1>4, <1>5

\* The last portion of the stage Close lets its reference go.
LEMMA CloseEnds ==
  ASSUME NEW x, Sound(x, 0, 0, 0), Placed(x), x.cleanup = "close",
         NEW y, y = ReleaseRef([x EXCEPT !.cleanup = "none"])
  PROVE Sound(y, 0, 0, 0) /\ Placed(y) /\ Let(x, y)
  <1> DEFINE z == [x EXCEPT !.cleanup = "none"]
  <1>1. StateType(x) /\ IsState(x) /\ x.refs \in Nat
    BY DEF Sound, Firm, StateType
  <1>2. Keeps(x, z, {"cleanup"}) /\ z.cleanup = "none"
    BY <1>1 DEF IsState, Fields, Keeps
  <1>3. y = ReleaseRef(z)
    OBVIOUS
  <1> HIDE DEF z
  <1>4. /\ z.queue = x.queue /\ z.waiting = x.waiting /\ z.closed = x.closed /\ z.sources = x.sources
        /\ z.receivers = x.receivers /\ z.refs = x.refs /\ z.copies = x.copies
        /\ z.srefs = x.srefs /\ z.session = x.session /\ z.told = x.told /\ z.bits = x.bits
        /\ z.waits = x.waits /\ z.transit = x.transit /\ z.handles = x.handles
        /\ z.accepted = x.accepted
    BY <1>2, Kept
  <1>5. StateType(z)
    BY <1>1, <1>2, <1>4 DEF StateType, Keeps
  <1>6. QueueOK(z)
    BY <1>4, SameQueue DEF Sound, Firm
  <1>7. /\ \A H : Number(z, H) = Number(x, H) /\ Number(x, H) \in Nat
        /\ \A w : InWait(z, w) = InWait(x, w) /\ InWait(x, w) \in Nat
    BY <1>1, <1>4, SameHandles, SameWaits, NumberTypes
  <1>8. /\ Number(z, Labelled) = Number(x, Labelled) /\ Number(z, Counted) = Number(x, Counted)
        /\ Number(z, Receiving) = Number(x, Receiving) /\ Number(x, Counted) \in Nat
        /\ InWait(z, InSend("session")) = InWait(x, InSend("session"))
        /\ InWait(z, InSend("channel")) = InWait(x, InSend("channel")) /\ InWait(x, InSend("channel")) \in Nat
        /\ InWait(z, InReceive) = InWait(x, InReceive) /\ InWait(x, InReceive) \in Nat
    BY <1>7
  <1>9. x.refs > 0
    BY <1>1 DEF Sound, Firm, Status
  <1>10. Counts(z, 0, 0, 1, 0)
    BY <1>1, <1>2, <1>4, <1>8 DEF Sound, Firm, Counts
  <1>11. Status(z)
    BY <1>1, <1>2, <1>4, <1>9 DEF Sound, Firm, Status
  <1>12. Gone(z)
    BY <1>4 DEF Sound, Gone, Word
  <1>13. Sound(z, 0, 0, 1)
    BY <1>5, <1>6, <1>10, <1>11, <1>12 DEF Sound, Firm
  <1>14. Sound(y, 0, 0, 1 - 1) /\ Frame(z, y)
    BY ONLY <1>3, <1>13, 0 \in Int, 1 \in Int, 1 >= 1, SoundReleaseRef
  <1>15. Let(x, z) /\ Placed(z)
    BY <1>2, LetKept
  <1> QED
    BY <1>14, <1>15, LetFrame, SamePlaces DEF Frame

\* The stage Close of the channel.
LEMMA CleanChannelStep ==
  ASSUME ChannelInductive, CleanChannel
  PROVE ChannelInductive' /\ InTime
  <1> DEFINE x == IF k.queue = <<>> THEN k ELSE CloseHead(k)
  <1>1. Sound(k, 0, 0, 0) /\ Placed(k) /\ k.cleanup = "close" /\ k.closed /\ UNCHANGED Rest
    BY DEF ChannelInductive, Sound, Firm, Status, CleanChannel, Rest
  <1>2. k' = IF x.queue = <<>> THEN ReleaseRef([x EXCEPT !.cleanup = "none"]) ELSE x
    BY DEF CleanChannel
  <1>3. Sound(x, 0, 0, 0) /\ Placed(x) /\ Let(k, x) /\ x.cleanup = "close"
    <2>1. CASE k.queue = <<>>
      BY <1>1, <2>1 DEF Let
    <2>2. CASE k.queue # <<>>
      BY <1>1, <2>2, CloseHeadFacts DEF StaysClosed
    <2> QED
      BY <2>1, <2>2
  <1> HIDE DEF x
  <1>4. Sound(k', 0, 0, 0) /\ Placed(k') /\ Let(k, k')
    <2>1. CASE x.queue # <<>>
      BY <1>2, <1>3, <2>1
    <2>2. CASE x.queue = <<>>
      <3>1. PICK y : y = ReleaseRef([x EXCEPT !.cleanup = "none"])
        OBVIOUS
      <3>2. Sound(y, 0, 0, 0) /\ Placed(y) /\ Let(x, y)
        BY ONLY <1>3, <3>1, CloseEnds
      <3>3. Let(k, y)
        BY <1>3, <3>2, StandKinds, WaitKinds DEF Let, Stands
      <3> QED
        BY <1>2, <2>2, <3>1, <3>2, <3>3
    <2> QED
      BY <2>1, <2>2
  <1> QED
    BY <1>1, <1>4, QuietLet


-----------------------------------------------------------------------------
(* Handles come.                                                           *)

\* The rest of the invariant stays when a handle comes to a thread that calls.
LEMMA QuietComes ==
  ASSUME ChannelInductive, Sound(k', 0, 0, 0), Placed(k'), UNCHANGED Rest,
         k'.waits = k.waits, k'.transit = k.transit, k'.accepted = k.accepted,
         NEW t \in Threads, Calls(t), \A q \in Procs : q # Of[t] => k'.handles[q] = k.handles[q]
  PROVE ChannelInductive' /\ InTime
  <1>1. ChannelInductive'
    BY Quiet DEF Rest
  <1>2. stage[Of[t]] = "whole"
    BY DEF Calls
  <1>3. ASSUME NEW q \in Procs, stage[q] \in {"replies", "handles", "gone"}
        PROVE k'.handles[q] \subseteq k.handles[q]
    <2>1. q # Of[t]
      BY <1>2, <1>3
    <2> QED
      BY <2>1
  <1> QED
    BY <1>1, <1>3 DEF InTime

\* A handle that is nowhere comes to the table of a process.
LEMMA HandleArrives ==
  ASSUME NEW x, Placed(x), x.handles \in [Procs -> SUBSET Handles], NEW p \in Procs, NEW h \in Handles,
         \A q \in Procs : h \notin x.handles[q], \A t \in Threads : h \notin x.transit[t],
         NEW y, y.handles = [x.handles EXCEPT ![p] = @ \cup {h}], y.transit = x.transit
  PROVE /\ h \notin All(x) /\ All(y) = All(x) \cup {h} /\ Placed(y)
        /\ y.handles \in [Procs -> SUBSET Handles]
        /\ \A q \in Procs : q # p => y.handles[q] = x.handles[q]
  <1>1. \A q \in Procs : y.handles[q] = IF q = p THEN x.handles[p] \cup {h} ELSE x.handles[q]
    OBVIOUS
  <1>2. h \notin All(x)
    BY AllMembers
  <1>3. \A m : m \in All(y) <=> m \in All(x) \/ m = h
    BY <1>1, AllMembers
  <1>4. Placed(y)
    BY <1>1 DEF Placed
  <1>5. y.handles \in [Procs -> SUBSET Handles]
    OBVIOUS
  <1> QED
    BY <1>1, <1>2, <1>3, <1>4, <1>5

\* object::retain for a handle that has come.
LEMMA SoundRetain ==
  ASSUME NEW x, NEW h \in Handles,
         Sound(x, 0 - One(h, Receiving), 0 - One(h, Labelled), 0 - One(h, Counted)),
         x.refs > 0, h \in Labelled => x.copies > 0 /\ x.session = "live",
         h \in Receiving => ~x.closed, NEW y, y = Retain(x, h)
  PROVE Sound(y, 0, 0, 0) /\ Keeps(x, y, {"srefs", "copies", "refs", "receivers"})
  <1> DEFINE r == 0 - One(h, Receiving)
             c == 0 - One(h, Labelled)
             f == 0 - One(h, Counted)
  <1>1. r \in Int /\ c \in Int /\ f \in Int /\ Sound(x, r, c, f)
    BY DEF One
  <1>2. "RECEIVE" \in Rights(h) <=> h \in Receiving
    BY DEF Rights
  <1>3. PICK rights : rights = Rights(h)
    OBVIOUS
  <1>7. "RECEIVE" \in rights <=> h \in Receiving
    BY <1>2, <1>3
  <1>8. r = (IF h \in Receiving THEN 0 - 1 ELSE 0) /\ c = (IF h \in Labelled THEN 0 - 1 ELSE 0)
        /\ f = (IF h \in Counted THEN 0 - 1 ELSE 0)
    BY DEF One
  <1>4. "RECEIVE" \in rights => ~x.closed
    BY <1>7
  <1>5. CASE h \in Labelled
    <2>1. y = RetainSession(x, rights) /\ x.copies > 0 /\ x.session = "live" /\ x.refs > 0
      BY <1>3, <1>5 DEF Retain
    <2>2. /\ (IF "RECEIVE" \in rights THEN r + 1 ELSE r) = 0 /\ c + 1 = 0
          /\ (IF "RECEIVE" \in rights THEN f + 1 ELSE f) = 0
      <3>1. h \in Counted <=> h \in Receiving
        BY <1>5 DEF Counted
      <3> HIDE DEF r, c, f
      <3> QED
        BY <1>5, <1>7, <1>8, <3>1
    <2> HIDE DEF r, c, f
    <2>3. /\ Sound(y, IF "RECEIVE" \in rights THEN r + 1 ELSE r, c + 1,
                      IF "RECEIVE" \in rights THEN f + 1 ELSE f)
          /\ Keeps(x, y, {"srefs", "copies", "refs", "receivers"})
      BY ONLY <1>1, <1>4, <2>1, SoundRetainSession
    <2> QED
      BY <2>2, <2>3
  <1>6. CASE h \notin Labelled
    <2>1. y = RetainChannel(x, rights) /\ x.refs > 0
      BY <1>3, <1>6 DEF Retain
    <2>2. (IF "RECEIVE" \in rights THEN r + 1 ELSE r) = 0 /\ c = 0 /\ f + 1 = 0
      <3>1. h \in Counted
        BY <1>6 DEF Counted
      <3> HIDE DEF r, c, f
      <3> QED
        BY <1>6, <1>7, <1>8, <3>1
    <2> HIDE DEF r, c, f
    <2>3. /\ Sound(y, IF "RECEIVE" \in rights THEN r + 1 ELSE r, c, f + 1)
          /\ Keeps(x, y, {"refs", "receivers"})
      BY ONLY <1>1, <1>4, <2>1, SoundRetainChannel
    <2>4. Keeps(x, y, {"srefs", "copies", "refs", "receivers"})
      BY <2>3 DEF Keeps
    <2> QED
      BY <2>2, <2>3, <2>4
  <1> QED
    BY <1>5, <1>6

\* handle_duplicate without a label.
LEMMA DuplicateStep ==
  ASSUME ChannelInductive, NEW t \in Threads, NEW h \in Handles, NEW copy \in Handles, Duplicate(t, h, copy)
  PROVE ChannelInductive' /\ InTime
  <1> DEFINE z == [k EXCEPT !.handles = [k.handles EXCEPT ![Of[t]] = @ \cup {copy}]]
  <1>1. /\ Sound(k, 0, 0, 0) /\ Placed(k) /\ IsState(k) /\ k.handles \in [Procs -> SUBSET Handles]
        /\ k.transit \in [Threads -> SUBSET Handles] /\ k.accepted \in [Procs -> SUBSET Threads]
        /\ UNCHANGED Rest
    BY DEF ChannelInductive, Sound, Firm, StateType, Duplicate, Rest
  <1>2. /\ \A q \in Procs : copy \notin k.handles[q]
        /\ \A u \in Threads : copy \notin k.transit[u]
        /\ copy \in Labelled <=> h \in Labelled
        /\ copy \in Receiving => h \in Receiving
        /\ h \in k.handles[Of[t]] /\ Of[t] \in Procs /\ Calls(t)
    BY ChannelAssumption DEF Duplicate, Unused
  <1>3. /\ k.refs > 0 /\ (h \in Labelled => k.copies > 0 /\ k.session = "live")
        /\ h \in Receiving => ~k.closed
    BY <1>1, <1>2, TableThere, HandleKeeps
  <1>4. Keeps(k, z, {"handles"}) /\ z.handles = [k.handles EXCEPT ![Of[t]] = @ \cup {copy}]
    BY <1>1 DEF IsState, Fields, Keeps
  <1>5. k' = Retain(z, copy)
    BY DEF Duplicate
  <1> HIDE DEF z
  <1>6. /\ z.transit = k.transit /\ z.accepted = k.accepted /\ z.waits = k.waits
        /\ z.refs = k.refs /\ z.copies = k.copies /\ z.session = k.session /\ z.closed = k.closed
    BY <1>4, Kept
  <1>7. PICK p \in Procs : p = Of[t]
    BY <1>2
  <1>8. z.handles = [k.handles EXCEPT ![p] = @ \cup {copy}]
    BY <1>4, <1>7
  <1>9. /\ copy \notin All(k) /\ All(z) = All(k) \cup {copy} /\ Placed(z)
        /\ z.handles \in [Procs -> SUBSET Handles]
        /\ \A q \in Procs : q # p => z.handles[q] = k.handles[q]
    BY <1>1, <1>2, <1>6, <1>8, HandleArrives
  <1>10. Keeps(k, z, {"handles", "transit", "accepted"})
    BY <1>4 DEF Keeps
  <1>11. Sound(z, 0 - One(copy, Receiving), 0 - One(copy, Labelled), 0 - One(copy, Counted))
    BY <1>1, <1>6, <1>9, <1>10, SoundHandleComes
  <1>12. z.refs > 0 /\ (copy \in Labelled => z.copies > 0 /\ z.session = "live") /\ (copy \in Receiving => ~z.closed)
    BY <1>2, <1>3, <1>6
  <1>13. PICK y : y = Retain(z, copy)
    OBVIOUS
  <1>14. Sound(y, 0, 0, 0) /\ Keeps(z, y, {"srefs", "copies", "refs", "receivers"})
    BY ONLY <1>11, <1>12, <1>13, copy \in Handles, SoundRetain
  <1>15. y.transit = z.transit /\ y.accepted = z.accepted /\ y.waits = z.waits /\ y.handles = z.handles
    BY <1>14, Kept
  <1>16. Placed(y)
    BY <1>9, <1>15, SamePlaces
  <1>17. /\ Sound(k', 0, 0, 0) /\ Placed(k') /\ k'.waits = k.waits /\ k'.transit = k.transit
         /\ k'.accepted = k.accepted /\ \A q \in Procs : q # Of[t] => k'.handles[q] = k.handles[q]
    BY <1>5, <1>6, <1>7, <1>9, <1>13, <1>14, <1>15, <1>16
  <1> QED
    BY <1>1, <1>2, <1>17, QuietComes

\* A channel without a session has nothing of one.
LEMMA NoSession ==
  ASSUME NEW x, Sound(x, 0, 0, 0), x.session = "none"
  PROVE /\ x.copies = 0 /\ x.srefs = 0 /\ x.sources = 1
        /\ "session" \notin Elems(x.queue) /\ x.bits["session"] = {}
        /\ Number(x, Labelled) = 0 /\ InWait(x, InSend("session")) = 0
  <1>0. StateType(x) /\ x.copies \in Nat /\ x.srefs \in Nat /\ QueueOK(x)
    BY DEF Sound, Firm, StateType
  <1>1. Number(x, Labelled) \in Nat /\ InWait(x, InSend("session")) \in Nat
    BY <1>0, NumberTypes
  <1>2. x.srefs = 0 /\ x.sources = 1
    BY <1>0 DEF Sound, Firm, Status
  <1>3. /\ x.copies = Number(x, Labelled) + InWait(x, InSend("session")) + 0
        /\ x.srefs = x.copies + (IF "session" \in Elems(x.queue) THEN 1 ELSE 0) + 0
    BY DEF Sound, Firm, Counts
  <1>4. x.copies = 0 /\ "session" \notin Elems(x.queue)
    BY <1>0, <1>2, <1>3
  <1>5. x.bits["session"] = {}
    BY <1>0, <1>4 DEF QueueOK, Slots
  <1> QED
    BY <1>1, <1>2, <1>3, <1>4, <1>5

\* handle_duplicate with a label that finds no room.
LEMMA LabelUnfitStep ==
  ASSUME ChannelInductive, NEW t \in Threads, NEW h \in Handles, LabelUnfit(t, h)
  PROVE ChannelInductive' /\ InTime
  <1> DEFINE z == RetainChannel(k, {})
  <1>1. /\ Sound(k, 0, 0, 0) /\ Placed(k) /\ StateType(k) /\ IsState(k) /\ k.session = "none"
        /\ UNCHANGED Rest /\ k.refs \in Nat
    BY DEF ChannelInductive, Sound, Firm, StateType, LabelUnfit, Rest
  <1>2. k.refs > 0
    BY <1>1, TableThere, HandleKeeps DEF LabelUnfit
  <1>3. /\ k.copies = 0 /\ k.srefs = 0 /\ k.sources = 1
    BY <1>1, NoSession
  <1>4. Keeps(k, z, {"refs", "receivers"}) /\ z.refs = k.refs + 1 /\ z.receivers = k.receivers
    BY <1>1, RetainChannelEffect
  <1>5. k' = [z EXCEPT !.sources = @ + 1, !.session = "shell", !.told = TRUE]
    BY DEF LabelUnfit
  <1> HIDE DEF z
  <1>6. /\ Keeps(z, k', {"sources", "session", "told"}) /\ k'.sources = z.sources + 1
        /\ k'.session = "shell" /\ k'.told
    BY <1>4, <1>5 DEF IsState, Fields, Keeps
  <1>7. Keeps(k, k', {"refs", "receivers", "sources", "session", "told"})
    BY <1>4, <1>6 DEF Keeps
  <1>8. /\ k'.queue = k.queue /\ k'.waiting = k.waiting /\ k'.closed = k.closed /\ k'.cleanup = k.cleanup
        /\ k'.copies = k.copies /\ k'.srefs = k.srefs /\ k'.bits = k.bits
        /\ k'.waits = k.waits /\ k'.transit = k.transit /\ k'.handles = k.handles
        /\ k'.accepted = k.accepted
    BY <1>7, Kept
  <1>9. k'.refs = z.refs /\ k'.receivers = z.receivers /\ z.sources = k.sources
    <2>1. Keeps(z, k', {"sources", "session", "told"})
      BY <1>6
    <2>2. k'.refs = z.refs /\ k'.receivers = z.receivers
      BY ONLY <2>1, Kept
    <2>3. z.sources = k.sources
      BY <1>4, Kept
    <2> QED
      BY <2>2, <2>3
  <1>10. k'.refs = k.refs + 1 /\ k'.receivers = k.receivers /\ k'.sources = 2 /\ k'.session = "shell" /\ k'.told
    BY <1>3, <1>4, <1>6, <1>9
  <1>11. StateType(k')
    BY <1>1, <1>7, <1>8, <1>10 DEF StateType, Keeps
  <1>12. QueueOK(k')
    BY <1>1, <1>8, SameQueue DEF Sound, Firm
  <1>13. /\ \A H : Number(k', H) = Number(k, H) /\ Number(k, H) \in Nat
         /\ \A w : InWait(k', w) = InWait(k, w) /\ InWait(k, w) \in Nat
    BY <1>1, <1>8, SameHandles, SameWaits, NumberTypes
  <1>14. /\ Number(k', Labelled) = Number(k, Labelled) /\ Number(k', Counted) = Number(k, Counted)
         /\ Number(k', Receiving) = Number(k, Receiving) /\ Number(k, Counted) \in Nat
         /\ InWait(k', InSend("session")) = InWait(k, InSend("session"))
         /\ InWait(k', InSend("channel")) = InWait(k, InSend("channel")) /\ InWait(k, InSend("channel")) \in Nat
         /\ InWait(k', InReceive) = InWait(k, InReceive) /\ InWait(k, InReceive) \in Nat
    BY <1>13
  <1>15. Counts(k', 0, 0, 0, 0)
    BY <1>1, <1>8, <1>10, <1>14 DEF Sound, Firm, Counts
  <1>16. Status(k')
    BY <1>1, <1>2, <1>3, <1>8, <1>10 DEF Sound, Firm, Status
  <1>17. Gone(k')
    BY <1>3, <1>8, <1>10 DEF Gone, Word
  <1>18. Sound(k', 0, 0, 0)
    BY <1>11, <1>12, <1>15, <1>16, <1>17 DEF Sound, Firm
  <1>19. Let(k, k') /\ Placed(k')
    BY <1>1, <1>7, LetKept
  <1> QED
    BY <1>1, <1>18, <1>19, QuietLet


\* What a new session and its first copy make of the record.
LEMMA LabelEffect ==
  ASSUME NEW x, IsState(x), NEW copy \in Labelled, NEW y,
         NEW z, Keeps(x, z, {"refs", "sources", "session", "told", "handles"}),
         x.refs \in Nat, x.receivers \in Nat, x.copies \in Nat, x.srefs \in Nat,
         z.refs = x.refs + 1, y = Retain(z, copy)
  PROVE /\ Keeps(z, y, {"srefs", "copies", "refs", "receivers"})
        /\ y.copies = x.copies + 1 /\ y.srefs = x.srefs + 1
        /\ y.refs = x.refs + 1 + One(copy, Receiving)
        /\ y.receivers = x.receivers + One(copy, Receiving)
  <1> DEFINE v == [z EXCEPT !.srefs = @ + 1, !.copies = @ + 1]
  <1>1. IsState(z) /\ z.copies = x.copies /\ z.srefs = x.srefs /\ z.receivers = x.receivers
    BY Kept
  <1>2. Keeps(z, v, {"srefs", "copies"}) /\ v.srefs = z.srefs + 1 /\ v.copies = z.copies + 1
    BY <1>1 DEF IsState, Fields, Keeps
  <1>3. PICK rights : rights = Rights(copy)
    OBVIOUS
  <1>4. "RECEIVE" \in rights <=> copy \in Receiving
    BY <1>3 DEF Rights
  <1>5. y = IF "RECEIVE" \in rights THEN RetainChannel(v, rights) ELSE v
    BY <1>3 DEF Retain, RetainSession
  <1> HIDE DEF v
  <1>6. IsState(v) /\ v.refs = z.refs /\ v.receivers = z.receivers
    BY <1>2, Kept
  <1>7. CASE copy \in Receiving
    <2>1. y = RetainChannel(v, rights)
      BY <1>4, <1>5, <1>7
    <2>2. /\ Keeps(v, y, {"refs", "receivers"}) /\ y.refs = v.refs + 1
          /\ y.receivers = IF "RECEIVE" \in rights THEN v.receivers + 1 ELSE v.receivers
      BY <1>6, <2>1, RetainChannelEffect
    <2>3. Keeps(z, y, {"srefs", "copies", "refs", "receivers"})
      BY <1>2, <2>2 DEF Keeps
    <2>4. y.srefs = v.srefs /\ y.copies = v.copies
      BY <2>2, Kept
    <2>5. One(copy, Receiving) = 1
      BY <1>7 DEF One
    <2> QED
      BY <1>1, <1>2, <1>4, <1>6, <1>7, <2>2, <2>3, <2>4, <2>5
  <1>8. CASE copy \notin Receiving
    <2>1. y = v
      BY <1>4, <1>5, <1>8
    <2>2. Keeps(z, y, {"srefs", "copies", "refs", "receivers"})
      BY <1>2, <2>1 DEF Keeps
    <2>3. One(copy, Receiving) = 0
      BY <1>8 DEF One
    <2> QED
      BY <1>1, <1>2, <1>6, <2>1, <2>2, <2>3
  <1> QED
    BY <1>7, <1>8

\* A new session with its first copy.
LEMMA SoundLabel ==
  ASSUME NEW x, Sound(x, 0, 0, 0), x.session = "none", ~x.closed, x.refs > 0, NEW copy \in Labelled, NEW y,
         Keeps(x, y, {"srefs", "copies", "refs", "receivers", "sources", "session", "told", "handles"}),
         y.sources = x.sources + 1, y.session = "live", ~y.told,
         y.copies = x.copies + 1, y.srefs = x.srefs + 1,
         y.refs = x.refs + 1 + One(copy, Receiving), y.receivers = x.receivers + One(copy, Receiving),
         y.handles \in [Procs -> SUBSET Handles], copy \notin All(x), All(y) = All(x) \cup {copy}
  PROVE Sound(y, 0, 0, 0)
  <1>1. /\ StateType(x) /\ QueueOK(x) /\ x.refs \in Nat /\ x.receivers \in Nat
    BY DEF Sound, Firm, StateType
  <1>2. /\ x.copies = 0 /\ x.srefs = 0 /\ x.sources = 1
        /\ "session" \notin Elems(x.queue) /\ x.bits["session"] = {}
        /\ Number(x, Labelled) = 0 /\ InWait(x, InSend("session")) = 0
    BY NoSession
  <1>3. /\ y.queue = x.queue /\ y.waiting = x.waiting /\ y.closed = x.closed /\ y.cleanup = x.cleanup
        /\ y.bits = x.bits /\ y.waits = x.waits /\ y.transit = x.transit /\ y.accepted = x.accepted
    BY Kept
  <1>4. One(copy, Receiving) \in {0, 1}
    BY DEF One
  <1>5. StateType(y)
    BY <1>1, <1>2, <1>3, <1>4 DEF StateType, Keeps
  <1>6. QueueOK(y)
    BY <1>1, <1>3, SameQueue
  <1>7. /\ \A H : Number(y, H) = Number(x, H) + (IF copy \in H THEN 1 ELSE 0)
        /\ \A H : Number(x, H) \in Nat
        /\ \A w : InWait(y, w) = InWait(x, w) /\ InWait(x, w) \in Nat
    <2>1. \A H : Number(y, H) = Number(x, H) + (IF copy \in H THEN 1 ELSE 0)
      BY <1>1, HandleComes
    <2>2. /\ \A H : Number(x, H) \in Nat
          /\ \A w : InWait(x, w) \in Nat
      BY <1>1, NumberTypes
    <2>3. \A w : InWait(y, w) = InWait(x, w)
      BY <1>3, SameWaits
    <2> QED
      BY <2>1, <2>2, <2>3
  <1>8. /\ Number(y, Labelled) = Number(x, Labelled) + 1
        /\ Number(y, Receiving) = Number(x, Receiving) + One(copy, Receiving)
        /\ Number(y, Counted) = Number(x, Counted) + One(copy, Receiving)
    BY <1>7 DEF One, Counted
  <1>9. /\ InWait(y, InSend("session")) = InWait(x, InSend("session"))
        /\ InWait(y, InSend("channel")) = InWait(x, InSend("channel"))
        /\ InWait(y, InReceive) = InWait(x, InReceive)
        /\ Number(x, Receiving) \in Nat /\ Number(x, Counted) \in Nat
        /\ InWait(x, InSend("channel")) \in Nat /\ InWait(x, InReceive) \in Nat
    BY <1>7
  <1>10. Counts(y, 0, 0, 0, 0)
    <2>1. y.receivers = Number(y, Receiving) + 0
      BY <1>4, <1>8, <1>9 DEF Sound, Firm, Counts
    <2>2. /\ y.copies = Number(y, Labelled) + InWait(y, InSend("session")) + 0
          /\ y.srefs = y.copies + (IF "session" \in Elems(y.queue) THEN 1 ELSE 0) + 0
      BY <1>2, <1>3, <1>8, <1>9
    <2>3. x.refs = Number(x, Counted) + InWait(x, InSend("channel")) + InWait(x, InReceive)
                   + (IF x.session # "none" THEN 1 ELSE 0)
                   + (IF x.cleanup = "close" THEN 1 ELSE 0) + 0
      BY DEF Sound, Firm, Counts
    <2>4. y.refs = Number(y, Counted) + InWait(y, InSend("channel")) + InWait(y, InReceive)
                   + (IF y.session # "none" THEN 1 ELSE 0)
                   + (IF y.cleanup = "close" THEN 1 ELSE 0) + 0
      BY <1>3, <1>4, <1>8, <1>9, <2>3
    <2> QED
      BY <2>1, <2>2, <2>4 DEF Counts
  <1>11. Status(y)
    <2>1. Status(x)
      BY DEF Sound, Firm
    <2>2. x.receivers > 0
      BY <1>1, <2>1 DEF Status
    <2>3. y.refs > 0 /\ y.receivers > 0 /\ y.srefs > 0 /\ y.sources = 2
      BY <1>1, <1>2, <1>4, <2>2
    <2> QED
      BY <1>3, <2>1, <2>3 DEF Status
  <1>12. Gone(y)
    <2>1. ~Word(y)
      BY <1>2, <1>3 DEF Word
    <2>2. y.copies # 0
      BY <1>2
    <2> QED
      BY <2>1, <2>2 DEF Gone
  <1> QED
    BY <1>5, <1>6, <1>10, <1>11, <1>12 DEF Sound, Firm

\* handle_duplicate with a label.
LEMMA LabelStep ==
  ASSUME ChannelInductive, NEW t \in Threads, NEW h \in Handles, NEW copy \in Handles, Label(t, h, copy)
  PROVE ChannelInductive' /\ InTime
  <1> DEFINE v == RetainChannel(k, {})
             z == [v EXCEPT !.sources = @ + 1, !.session = "live", !.told = FALSE,
                            !.handles = [v.handles EXCEPT ![Of[t]] = @ \cup {copy}]]
  <1>1. /\ Sound(k, 0, 0, 0) /\ Placed(k) /\ IsState(k) /\ k.handles \in [Procs -> SUBSET Handles]
        /\ UNCHANGED Rest /\ k.refs \in Nat /\ k.receivers \in Nat /\ k.copies \in Nat /\ k.srefs \in Nat
    BY DEF ChannelInductive, Sound, Firm, StateType, Label, Rest
  <1>2. /\ \A q \in Procs : copy \notin k.handles[q]
        /\ \A u \in Threads : copy \notin k.transit[u]
        /\ copy \in Labelled /\ k.session = "none" /\ ~k.closed
        /\ h \in k.handles[Of[t]] /\ Of[t] \in Procs /\ Calls(t)
    BY ChannelAssumption DEF Label, Unused
  <1>3. k.refs > 0
    BY <1>1, <1>2, TableThere, HandleKeeps
  <1>4. Keeps(k, v, {"refs", "receivers"}) /\ v.refs = k.refs + 1 /\ v.receivers = k.receivers
    BY <1>1, RetainChannelEffect
  <1>5. k' = Retain(z, copy)
    BY DEF Label
  <1> HIDE DEF v
  <1>6. /\ Keeps(v, z, {"sources", "session", "told", "handles"}) /\ z.sources = v.sources + 1
        /\ z.session = "live" /\ ~z.told /\ z.handles = [v.handles EXCEPT ![Of[t]] = @ \cup {copy}]
    BY <1>4 DEF IsState, Fields, Keeps
  <1> HIDE DEF z
  <1>7. v.sources = k.sources /\ v.handles = k.handles
    BY <1>4, Kept
  <1>8. Keeps(v, z, {"sources", "session", "told", "handles"})
    BY <1>6
  <1>9. z.refs = v.refs /\ z.receivers = v.receivers
    BY <1>8, Kept
  <1>10. Keeps(k, z, {"refs", "sources", "session", "told", "handles"})
    <2>1. z.receivers = k.receivers
      BY <1>4, <1>9
    <2> QED
      BY <1>4, <1>8, <2>1 DEF Keeps
  <1>11. z.refs = k.refs + 1
    BY <1>4, <1>9
  <1>12. PICK y : y = Retain(z, copy)
    OBVIOUS
  <1>13. /\ Keeps(z, y, {"srefs", "copies", "refs", "receivers"})
         /\ y.copies = k.copies + 1 /\ y.srefs = k.srefs + 1
         /\ y.refs = k.refs + 1 + One(copy, Receiving)
         /\ y.receivers = k.receivers + One(copy, Receiving)
    <2>1. PICK x : x = k
      OBVIOUS
    <2> QED
      BY <1>1, <1>2, <1>10, <1>11, <1>12, LabelEffect
  <1>14. Keeps(z, y, {"srefs", "copies", "refs", "receivers"})
    BY <1>13
  <1>15. /\ y.sources = z.sources /\ y.session = z.session /\ y.told = z.told /\ y.handles = z.handles
         /\ y.transit = z.transit /\ y.waits = z.waits /\ y.accepted = z.accepted
    BY <1>14, Kept
  <1>16. z.transit = k.transit /\ z.waits = k.waits /\ z.accepted = k.accepted
    BY <1>10, Kept
  <1>17. Keeps(k, y, {"srefs", "copies", "refs", "receivers", "sources", "session", "told", "handles"})
    BY <1>10, <1>14 DEF Keeps
  <1>18. y.sources = k.sources + 1 /\ y.session = "live" /\ ~y.told
    BY <1>6, <1>7, <1>15
  <1>19. PICK p \in Procs : p = Of[t]
    BY <1>2
  <1>20. y.handles = [k.handles EXCEPT ![p] = @ \cup {copy}] /\ y.transit = k.transit
    BY <1>6, <1>7, <1>15, <1>16, <1>19
  <1>21. /\ copy \notin All(k) /\ All(y) = All(k) \cup {copy} /\ Placed(y)
         /\ y.handles \in [Procs -> SUBSET Handles]
         /\ \A q \in Procs : q # p => y.handles[q] = k.handles[q]
    BY <1>1, <1>2, <1>20, HandleArrives
  <1>22. Sound(y, 0, 0, 0)
    BY <1>1, <1>2, <1>3, <1>13, <1>17, <1>18, <1>21, SoundLabel
  <1>23. /\ Sound(k', 0, 0, 0) /\ Placed(k') /\ k'.waits = k.waits /\ k'.transit = k.transit
         /\ k'.accepted = k.accepted /\ \A q \in Procs : q # Of[t] => k'.handles[q] = k.handles[q]
    BY <1>5, <1>12, <1>15, <1>16, <1>19, <1>21, <1>22
  <1> QED
    BY <1>1, <1>2, <1>23, QuietComes


-----------------------------------------------------------------------------
(* Messages.                                                               *)

\* The handles of a message leave the table of a process, and go into another.
PutOut(x, y, p, t, moving) ==
    /\ moving = {} \/ \E m \in x.handles[p] : moving = {m}
    /\ x.transit[t] = {}
    /\ y.handles = [x.handles EXCEPT ![p] = @ \ moving]
    /\ y.transit = [x.transit EXCEPT ![t] = moving]
PutIn(x, y, p, t) ==
    /\ y.handles = [x.handles EXCEPT ![p] = @ \cup x.transit[t]]
    /\ y.transit = [x.transit EXCEPT ![t] = {}]

\* The handles of a message leave the table of a process.
LEMMA SoundPutOut ==
  ASSUME NEW x, NEW c \in Int, NEW f \in Int, Sound(x, 0, c, f), Placed(x), NEW t \in Threads, NEW p \in Procs,
         NEW moving, NEW y, PutOut(x, y, p, t, moving),
         Keeps(x, y, {"handles", "transit", "accepted"}), y.accepted \in [Procs -> SUBSET Threads]
  PROVE Sound(y, 0, c, f) /\ Placed(y)
  <1>0. x.handles \in [Procs -> SUBSET Handles] /\ x.transit \in [Threads -> SUBSET Handles]
    BY DEF Sound, Firm, StateType
  <1>1. \A q \in Procs : y.handles[q] = IF q = p THEN x.handles[p] \ moving ELSE x.handles[q]
    BY <1>0 DEF PutOut
  <1>2. \A u \in Threads : y.transit[u] = IF u = t THEN moving ELSE x.transit[u]
    BY <1>0 DEF PutOut
  <1>3. moving \subseteq x.handles[p] /\ moving \subseteq Handles
    BY <1>0 DEF PutOut
  <1>4. y.handles \in [Procs -> SUBSET Handles] /\ y.transit \in [Threads -> SUBSET Handles]
    BY <1>0, <1>3 DEF PutOut
  <1>5. All(y) = All(x)
    <2>0. /\ \A m : m \in All(y) <=> (\E q \in Procs : m \in y.handles[q]) \/ (\E u \in Threads : m \in y.transit[u])
          /\ \A m : m \in All(x) <=> (\E q \in Procs : m \in x.handles[q]) \/ (\E u \in Threads : m \in x.transit[u])
      BY AllMembers
    <2>1. ASSUME NEW m \in All(y) PROVE m \in All(x)
      <3>1. CASE \E q \in Procs : m \in y.handles[q]
        BY <1>1, <2>0, <3>1
      <3>2. CASE \E u \in Threads : m \in y.transit[u]
        BY <1>2, <1>3, <2>0, <3>2
      <3> QED
        BY <2>0, <3>1, <3>2
    <2>2. ASSUME NEW m \in All(x) PROVE m \in All(y)
      <3>1. CASE \E q \in Procs : m \in x.handles[q]
        <4>1. PICK q \in Procs : m \in x.handles[q]
          BY <3>1
        <4>2. m \in y.handles[q] \/ (\E u \in Threads : m \in y.transit[u])
          BY <1>1, <1>2, <4>1
        <4> QED
          BY <2>0, <4>2
      <3>2. CASE \E u \in Threads : m \in x.transit[u]
        <4>1. PICK u \in Threads : m \in x.transit[u]
          BY <3>2
        <4>2. m \in y.transit[u] \/ (\E q \in Procs : m \in y.handles[q])
          BY <1>1, <1>2, <4>1 DEF PutOut
        <4> QED
          BY <2>0, <4>2
      <3> QED
        BY <2>0, <3>1, <3>2
    <2> QED
      BY <2>1, <2>2
  <1>6. Placed(y)
    <2>1. \A q, s \in Procs : q # s => y.handles[q] \cap y.handles[s] = {}
      BY <1>1 DEF Placed
    <2>2. \A q \in Procs : x.handles[q] \cap moving = {} \/ q = p
      BY <1>3 DEF Placed
    <2>3. \A u \in Threads : x.transit[u] \cap moving = {}
      BY <1>3 DEF Placed
    <2>4. \A u, v \in Threads : u # v => y.transit[u] \cap y.transit[v] = {}
      BY <1>2, <2>3 DEF Placed
    <2>5. \A q \in Procs, u \in Threads : y.handles[q] \cap y.transit[u] = {}
      BY <1>1, <1>2, <2>2 DEF Placed
    <2>6. moving = {} \/ \E m \in Handles : moving = {m}
      BY <1>3 DEF PutOut
    <2>7. \A u \in Threads : y.transit[u] = {} \/ \E m \in Handles : y.transit[u] = {m}
      BY <1>2, <2>6 DEF Placed
    <2> QED
      BY <2>1, <2>4, <2>5, <2>7 DEF Placed
  <1> QED
    BY <1>4, <1>5, <1>6, SoundHandlesMove

\* They go into the table of a process.
LEMMA SoundDeliver ==
  ASSUME NEW x, NEW c \in Int, NEW f \in Int, Sound(x, 0, c, f), Placed(x), NEW t \in Threads, NEW p \in Procs,
         NEW y, PutIn(x, y, p, t),
         Keeps(x, y, {"handles", "transit", "accepted"}), y.accepted \in [Procs -> SUBSET Threads]
  PROVE Sound(y, 0, c, f) /\ Placed(y)
  <1>0. x.handles \in [Procs -> SUBSET Handles] /\ x.transit \in [Threads -> SUBSET Handles]
    BY DEF Sound, Firm, StateType
  <1>1. \A q \in Procs : y.handles[q] = IF q = p THEN x.handles[p] \cup x.transit[t] ELSE x.handles[q]
    BY <1>0 DEF PutIn
  <1>2. \A u \in Threads : y.transit[u] = IF u = t THEN {} ELSE x.transit[u]
    BY <1>0 DEF PutIn
  <1>3. y.handles \in [Procs -> SUBSET Handles] /\ y.transit \in [Threads -> SUBSET Handles]
    BY <1>0 DEF PutIn
  <1>4. All(y) = All(x)
    <2>0. /\ \A m : m \in All(y) <=> (\E q \in Procs : m \in y.handles[q]) \/ (\E u \in Threads : m \in y.transit[u])
          /\ \A m : m \in All(x) <=> (\E q \in Procs : m \in x.handles[q]) \/ (\E u \in Threads : m \in x.transit[u])
      BY AllMembers
    <2>1. ASSUME NEW m \in All(y) PROVE m \in All(x)
      <3>1. CASE \E q \in Procs : m \in y.handles[q]
        BY <1>1, <2>0, <3>1
      <3>2. CASE \E u \in Threads : m \in y.transit[u]
        BY <1>2, <2>0, <3>2
      <3> QED
        BY <2>0, <3>1, <3>2
    <2>2. ASSUME NEW m \in All(x) PROVE m \in All(y)
      <3>1. CASE \E q \in Procs : m \in x.handles[q]
        <4>1. PICK q \in Procs : m \in x.handles[q]
          BY <3>1
        <4>2. m \in y.handles[q] \/ (\E u \in Threads : m \in y.transit[u])
          BY <1>1, <1>2, <4>1
        <4> QED
          BY <2>0, <4>2
      <3>2. CASE \E u \in Threads : m \in x.transit[u]
        <4>1. PICK u \in Threads : m \in x.transit[u]
          BY <3>2
        <4>2. m \in y.transit[u] \/ (\E q \in Procs : m \in y.handles[q])
          BY <1>1, <1>2, <4>1
        <4> QED
          BY <2>0, <4>2
      <3> QED
        BY <2>0, <3>1, <3>2
    <2> QED
      BY <2>1, <2>2
  <1>5. Placed(y)
    <2>1. \A q, s \in Procs : q # s => y.handles[q] \cap y.handles[s] = {}
      BY <1>1 DEF Placed
    <2>2. \A u, v \in Threads : u # v => y.transit[u] \cap y.transit[v] = {}
      BY <1>2 DEF Placed
    <2>3. \A q \in Procs, u \in Threads : y.handles[q] \cap y.transit[u] = {}
      BY <1>1, <1>2 DEF Placed
    <2>4. \A u \in Threads : y.transit[u] = {} \/ \E m \in Handles : y.transit[u] = {m}
      BY <1>2 DEF Placed
    <2> QED
      BY <2>1, <2>2, <2>3, <2>4 DEF Placed
  <1> QED
    BY <1>3, <1>4, <1>5, SoundHandlesMove

\* The rest of the invariant when a thread that calls begins to wait.
LEMMA Joined ==
  ASSUME ChannelInductive, Sound(k', 0, 0, 0), Placed(k'), UNCHANGED Rest, k'.accepted = k.accepted,
         NEW t \in Threads, Calls(t), t \notin pending, NEW w \in Stands, w \in Sends => CountLeft(t),
         k'.waits = [k.waits EXCEPT ![t] = w],
         \A u \in Threads \ {t} : k'.transit[u] = k.transit[u], k'.transit[t] = {} \/ w \in Sends
  PROVE ChannelInductive'
  <1>0. k.waits \in [Threads -> Waits]
    BY DEF ChannelInductive, Sound, Firm, StateType
  <1>1. \A u \in Threads : k'.waits[u] = IF u = t THEN w ELSE k.waits[u]
    BY <1>0
  <1>2. life[t] = "live" /\ k.waits[t] = NoWait
    BY DEF Calls
  <1>3. Waiting'
    <2>1. ASSUME NEW u \in Threads, k'.waits[u] # NoWait PROVE life'[u] = "live"
      BY <1>1, <1>2, <2>1 DEF ChannelInductive, Waiting, Rest
    <2>2. ASSUME NEW u \in Threads, k'.transit[u] # {} PROVE life'[u] = "ended" \/ k'.waits[u] \in Sends
      BY <1>1, <2>2 DEF ChannelInductive, Waiting, Rest
    <2>3. ASSUME NEW u \in Threads, NEW p \in Procs, u \in k'.accepted[p] PROVE k'.waits[u] = ForReply(p)
      <3>1. k.waits[u] = ForReply(p)
        BY <2>3 DEF ChannelInductive, Waiting
      <3>2. u # t
        BY <1>2, <3>1, WaitKinds
      <3> QED
        BY <1>1, <3>1, <3>2
    <2> QED
      BY <2>1, <2>2, <2>3 DEF Waiting
  <1>4. TokensOK'
    <2>1. ASSUME NEW u \in Threads, NEW p \in Procs, k'.waits[u] = ForReply(p)
          PROVE request'[u] = <<index'[u], table'.count[index'[u]]>>
      <3>1. u # t
        BY <1>1, <2>1, StandKinds
      <3> QED
        BY <1>1, <2>1, <3>1 DEF ChannelInductive, TokensOK, Rest
    <2>2. ASSUME NEW u \in Threads, k'.waits[u] \in Sends PROVE table'.count[index'[u]] # MAX_COUNT
      BY <1>1, <2>2 DEF ChannelInductive, TokensOK, CountLeft, Rest
    <2>3. \A n \in Numbers, c \in 0 .. MAX_COUNT : <<n, c>> \in given' => c <= table'.count[n]
      BY DEF ChannelInductive, TokensOK, Rest
    <2> QED
      BY <2>1, <2>2, <2>3 DEF TokensOK
  <1>5. NoSleepOnUpcall'
    <2>1. ASSUME NEW u \in pending' PROVE k'.waits[u] = k.waits[u]
      BY <1>1, <2>1 DEF ChannelInductive, ThreadType, Rest
    <2> QED
      BY <2>1 DEF ChannelInductive, NoSleepOnUpcall, InQueue, Rest
  <1>6. TableType' /\ ThreadType' /\ Stopped' /\ Holders'
    BY DEF ChannelInductive, TableType, ThreadType, Stopped, Holders, Rest
  <1> QED
    BY <1>3, <1>4, <1>5, <1>6 DEF ChannelInductive

\* receive with nothing there.
LEMMA ReceiveWaitsStep ==
  ASSUME ChannelInductive, NEW t \in Threads, ReceiveWaits(t)
  PROVE ChannelInductive' /\ InTime
  <1> DEFINE v == [k EXCEPT !.waits = [k.waits EXCEPT ![t] = InReceive]]
             u == WaitIn(v, t)
  <1>1. /\ Sound(k, 0, 0, 0) /\ Placed(k) /\ IsState(k) /\ k.handles \in [Procs -> SUBSET Handles]
    BY DEF ChannelInductive, Sound, Firm, StateType
  <1>2. /\ Calls(t) /\ k.waits[t] = NoWait /\ t \notin pending /\ (k.waiting \/ k.queue = <<>>)
        /\ k.handles[Of[t]] \cap Receiving # {} /\ Of[t] \in Procs /\ UNCHANGED Rest
    BY ChannelAssumption DEF ReceiveWaits, ReceiveCall, Calls, Rest
  <1>3. k' = RetainChannel(u, {})
    BY DEF ReceiveWaits
  <1>4. k.refs > 0
    <2>1. PICK h \in Handles : h \in k.handles[Of[t]]
      BY <1>1, <1>2
    <2>2. h \in All(k)
      BY <2>1, TableThere
    <2> QED
      BY <1>1, <2>2, HandleKeeps
  <1>5. Keeps(k, v, {"waits"}) /\ v.waits = [k.waits EXCEPT ![t] = InReceive]
    BY <1>1 DEF IsState, Fields, Keeps
  <1> HIDE DEF v
  <1>6. Keeps(v, u, {"queue", "waiting"}) /\ u.queue = PushTail(v.queue, t) /\ u.waiting
    BY <1>5 DEF IsState, Fields, Keeps, WaitIn
  <1> HIDE DEF u
  <1>7. Keeps(k, u, {"queue", "waiting", "waits"})
    BY <1>5, <1>6 DEF Keeps
  <1>8. v.queue = k.queue
    BY <1>5, Kept
  <1>9. u.waits = v.waits
    <2>1. Keeps(v, u, {"queue", "waiting"})
      BY <1>6
    <2> QED
      BY <2>1, Kept
  <1>10. u.queue = PushTail(k.queue, t) /\ u.waits = [k.waits EXCEPT ![t] = InReceive]
    BY <1>5, <1>6, <1>8, <1>9
  <1>11. PICK w \in Stands : w = InReceive
    BY DEF Stands
  <1>12. /\ u.waits = [k.waits EXCEPT ![t] = w] /\ (u.waiting <=> w = InReceive)
         /\ w = InReceive => k.waiting \/ k.queue = <<>>
         /\ w # InReceive => ~k.waiting \/ k.queue = <<>>
    BY <1>2, <1>6, <1>10, <1>11
  <1>13. Sound(u, 0, 0 - HeldSession(w), 0 - HeldChannel(w))
    BY ONLY <1>1, <1>2, <1>7, <1>10, <1>12, t \in Threads, w \in Stands, 0 \in Int, SoundJoins
  <1>14. HeldSession(w) = 0 /\ HeldChannel(w) = 1
    BY <1>11, WaitKinds DEF HeldSession, HeldChannel
  <1>15. Sound(u, 0, 0, -1)
    BY <1>13, <1>14
  <1>16. /\ u.refs = k.refs /\ u.transit = k.transit /\ u.handles = k.handles /\ u.accepted = k.accepted
    BY <1>7, Kept
  <1>17. PICK y : y = RetainChannel(u, {})
    OBVIOUS
  <1>18. u.refs > 0 /\ "RECEIVE" \notin {} /\ 0 \in Int /\ -1 \in Int
    BY <1>4, <1>16
  <1>19. /\ Sound(y, IF "RECEIVE" \in {} THEN 0 + 1 ELSE 0, 0, -1 + 1)
         /\ Keeps(u, y, {"refs", "receivers"})
    BY ONLY <1>15, <1>17, <1>18, SoundRetainChannel
  <1>20. y.transit = u.transit /\ y.handles = u.handles /\ y.accepted = u.accepted /\ y.waits = u.waits
    BY <1>19, Kept
  <1>21. /\ Sound(k', 0, 0, 0) /\ k'.transit = k.transit /\ k'.handles = k.handles
         /\ k'.accepted = k.accepted /\ k'.waits = [k.waits EXCEPT ![t] = InReceive]
    BY <1>3, <1>10, <1>16, <1>17, <1>18, <1>19, <1>20
  <1>22. Placed(k')
    BY <1>1, <1>21, SamePlaces
  <1>23. k.transit[t] = {}
    BY <1>2, StandKinds DEF ChannelInductive, Waiting, Calls
  <1>24. w \notin Sends /\ k'.waits = [k.waits EXCEPT ![t] = w]
    BY <1>11, <1>21, StandKinds
  <1>25. ChannelInductive'
    BY <1>2, <1>21, <1>22, <1>23, <1>24, Joined
  <1> QED
    BY <1>21, <1>25 DEF InTime


\* What a call with a handle that can send knows.
LEMMA CallFacts ==
  ASSUME ChannelInductive, NEW t \in Threads, Calls(t)
  PROVE /\ Sound(k, 0, 0, 0) /\ Placed(k) /\ StateType(k) /\ IsState(k) /\ QueueOK(k)
        /\ k.waits[t] = NoWait /\ k.transit[t] = {} /\ Of[t] \in Procs
        /\ life[t] = "live" /\ stage[Of[t]] = "whole"
        /\ \A p \in Procs : t \notin k.accepted[p]
  <1>1. life[t] = "live" /\ k.waits[t] = NoWait /\ stage[Of[t]] = "whole"
    BY DEF Calls
  <1>2. k.transit[t] = {} /\ \A p \in Procs : t \notin k.accepted[p]
    BY <1>1, StandKinds, WaitKinds DEF ChannelInductive, Waiting
  <1> QED
    BY <1>1, <1>2, ChannelAssumption DEF ChannelInductive, Sound, Firm, StateType

\* What a request that waits holds is taken.
LEMMA SoundHold ==
  ASSUME NEW x, NEW via \in Vias, Sound(x, 0, 0 - HeldSession(InSend(via)), 0 - HeldChannel(InSend(via))),
         x.refs > 0, via = "session" => x.copies > 0 /\ x.session = "live", NEW y, y = Hold(x, via)
  PROVE Sound(y, 0, 0, 0) /\ Keeps(x, y, {"srefs", "copies", "refs", "receivers"})
  <1>0. "RECEIVE" \notin {} /\ 0 \in Int /\ -1 \in Int
    OBVIOUS
  <1>1. CASE via = "session"
    <2>1. HeldSession(InSend(via)) = 1 /\ HeldChannel(InSend(via)) = 0
      BY <1>1, WaitKinds DEF HeldSession, HeldChannel
    <2>2. Sound(x, 0, -1, 0) /\ y = RetainSession(x, {}) /\ x.copies > 0 /\ x.session = "live" /\ x.refs > 0
      BY <1>1, <2>1 DEF Hold
    <2>3. /\ Sound(y, IF "RECEIVE" \in {} THEN 0 + 1 ELSE 0, -1 + 1, IF "RECEIVE" \in {} THEN 0 + 1 ELSE 0)
          /\ Keeps(x, y, {"srefs", "copies", "refs", "receivers"})
      BY ONLY <1>0, <2>2, SoundRetainSession
    <2> QED
      BY <1>0, <2>3
  <1>2. CASE via = "channel"
    <2>1. HeldSession(InSend(via)) = 0 /\ HeldChannel(InSend(via)) = 1
      BY <1>2, WaitKinds DEF HeldSession, HeldChannel
    <2>2. Sound(x, 0, 0, -1) /\ y = RetainChannel(x, {}) /\ x.refs > 0
      BY <1>2, <2>1 DEF Hold
    <2>3. /\ Sound(y, IF "RECEIVE" \in {} THEN 0 + 1 ELSE 0, 0, -1 + 1)
          /\ Keeps(x, y, {"refs", "receivers"})
      BY ONLY <1>0, <2>2, SoundRetainChannel
    <2>4. Keeps(x, y, {"srefs", "copies", "refs", "receivers"})
      BY <2>3 DEF Keeps
    <2> QED
      BY <1>0, <2>3, <2>4
  <1> QED
    BY <1>1, <1>2 DEF Vias

\* send with no receiver.
LEMMA SendQueuedStep ==
  ASSUME ChannelInductive, NEW t \in Threads, NEW h \in Handles, NEW moving \in Movable(t, h),
         SendQueued(t, h, moving)
  PROVE ChannelInductive' /\ InTime
  <1> DEFINE out == [k EXCEPT !.handles = [k.handles EXCEPT ![Of[t]] = @ \ moving],
                              !.transit = [k.transit EXCEPT ![t] = moving],
                              !.waits = [k.waits EXCEPT ![t] = InSend(ViaOf(h))]]
             u == Enqueue(out, t)
             z == [k EXCEPT !.handles = [k.handles EXCEPT ![Of[t]] = @ \ moving],
                            !.transit = [k.transit EXCEPT ![t] = moving]]
  <1>1. /\ Calls(t) /\ h \in k.handles[Of[t]] /\ CountLeft(t) /\ ~HasReceivers(k)
        /\ t \notin pending /\ UNCHANGED Rest
    BY DEF SendQueued, SendCall, Rest
  <1>2. /\ Sound(k, 0, 0, 0) /\ Placed(k) /\ StateType(k) /\ IsState(k)
        /\ k.waits[t] = NoWait /\ k.transit[t] = {} /\ Of[t] \in Procs /\ stage[Of[t]] = "whole"
    BY <1>1, CallFacts
  <1>3. k' = Hold(u, ViaOf(h))
    BY DEF SendQueued
  <1>4. /\ Keeps(k, z, {"handles", "transit"}) /\ z.handles = [k.handles EXCEPT ![Of[t]] = @ \ moving]
        /\ z.transit = [k.transit EXCEPT ![t] = moving]
    BY <1>2 DEF IsState, Fields, Keeps
  <1>5. /\ Keeps(k, out, {"handles", "transit", "waits"}) /\ out.handles = z.handles /\ out.transit = z.transit
        /\ out.waits = [k.waits EXCEPT ![t] = InSend(ViaOf(h))]
    BY <1>2, <1>4 DEF IsState, Fields, Keeps
  <1> HIDE DEF out, z
  <1>6. Keeps(out, u, {"queue", "waiting"}) /\ u.queue = PushTail(out.queue, t) /\ ~u.waiting
    BY <1>5 DEF IsState, Fields, Keeps, Enqueue
  <1> HIDE DEF u
  <1>7. Keeps(out, u, {"queue", "waiting"})
    BY <1>6
  <1>8. u.handles = out.handles /\ u.transit = out.transit /\ u.waits = out.waits
    BY ONLY <1>7, Kept
  <1>9. out.queue = k.queue
    BY <1>5, Kept
  <1>10. z.waits = k.waits /\ z.queue = k.queue /\ z.waiting = k.waiting /\ z.accepted = k.accepted
    BY <1>4, Kept
  <1>11. Keeps(z, u, {"queue", "waiting", "waits"})
    BY <1>4, <1>5, <1>7, <1>8 DEF Keeps
  <1>12. Keeps(k, z, {"handles", "transit", "accepted"}) /\ z.accepted \in [Procs -> SUBSET Threads]
    BY <1>2, <1>4, <1>10 DEF Keeps, StateType
  <1>13. moving = {} \/ \E m \in k.handles[Of[t]] : moving = {m}
    BY MovableFacts
  <1>14. Sound(z, 0, 0, 0) /\ Placed(z)
    <2>1. PICK p \in Procs : p = Of[t]
      BY <1>2
    <2>2. PutOut(k, z, p, t, moving)
      BY <1>2, <1>4, <1>13, <2>1 DEF PutOut
    <2> QED
      BY ONLY <1>2, <1>12, <2>2, t \in Threads, p \in Procs, 0 \in Int, SoundPutOut
  <1>15. PICK via \in Vias : via = ViaOf(h)
    BY DEF ViaOf, Vias
  <1>16. PICK w \in Stands : w = InSend(via)
    BY DEF Stands, Sends
  <1>17. /\ u.waits = [z.waits EXCEPT ![t] = w] /\ u.queue = PushTail(z.queue, t) /\ z.waits[t] = NoWait
         /\ u.waiting <=> w = InReceive
         /\ w = InReceive => z.waiting \/ z.queue = <<>>
         /\ w # InReceive => ~z.waiting \/ z.queue = <<>>
    BY <1>1, <1>2, <1>5, <1>6, <1>8, <1>9, <1>10, <1>15, <1>16, WaitKinds DEF HasReceivers
  <1>18. Sound(u, 0, 0 - HeldSession(w), 0 - HeldChannel(w))
    BY ONLY <1>11, <1>14, <1>17, t \in Threads, w \in Stands, 0 \in Int, SoundJoins
  <1>19. u.refs = k.refs /\ u.copies = k.copies /\ u.session = k.session /\ u.accepted = k.accepted
    <2>1. Keeps(k, u, {"handles", "transit", "waits", "queue", "waiting"})
      BY <1>5, <1>7 DEF Keeps
    <2> QED
      BY <2>1, Kept
  <1>20. u.refs > 0 /\ (via = "session" => u.copies > 0 /\ u.session = "live")
    <2>1. k.refs > 0 /\ (h \in Labelled => k.copies > 0 /\ k.session = "live")
      BY <1>1, <1>2, TableThere, HandleKeeps
    <2> QED
      BY <1>15, <1>19, <2>1 DEF ViaOf
  <1>21. PICK y : y = Hold(u, via)
    OBVIOUS
  <1>22. Sound(u, 0, 0 - HeldSession(InSend(via)), 0 - HeldChannel(InSend(via)))
    BY <1>16, <1>18
  <1>23. Sound(y, 0, 0, 0) /\ Keeps(u, y, {"srefs", "copies", "refs", "receivers"})
    BY ONLY <1>20, <1>21, <1>22, via \in Vias, SoundHold
  <1>24. y.transit = u.transit /\ y.handles = u.handles /\ y.accepted = u.accepted /\ y.waits = u.waits
    BY <1>23, Kept
  <1>25. /\ Sound(k', 0, 0, 0) /\ k'.transit = z.transit /\ k'.handles = z.handles
         /\ k'.accepted = k.accepted /\ k'.waits = [k.waits EXCEPT ![t] = w]
    BY <1>3, <1>5, <1>8, <1>10, <1>15, <1>17, <1>19, <1>21, <1>23, <1>24
  <1>26. Placed(k')
    BY <1>14, <1>25, SamePlaces
  <1>27. k.transit \in [Threads -> SUBSET Handles] /\ k.handles \in [Procs -> SUBSET Handles]
    BY <1>2 DEF StateType
  <1>28. \A v \in Threads \ {t} : k'.transit[v] = k.transit[v]
    BY <1>4, <1>25, <1>27
  <1>29. w \in Sends
    BY <1>16 DEF Sends
  <1>30. ChannelInductive'
    BY <1>1, <1>25, <1>26, <1>28, <1>29, Joined
  <1>31. \A q \in Procs : k'.handles[q] \subseteq k.handles[q]
    BY <1>4, <1>25, <1>27
  <1> QED
    BY <1>30, <1>31 DEF InTime


\* The table of numbers once a request is accepted.
LEMMA AcceptNumberEffect ==
  ASSUME TableType, NEW n \in Numbers, table.count[n] # MAX_COUNT, NEW tb, tb = AcceptNumber(table, n)
  PROVE /\ tb = [f \in {"count", "dead", "holder", "used", "free"} |-> tb[f]]
        /\ tb.count \in [Numbers -> 0 .. MAX_COUNT] /\ tb.dead \in SUBSET Numbers
        /\ tb.holder = table.holder /\ tb.used = table.used /\ tb.free = table.free
        /\ tb.count[n] = table.count[n] + 1
        /\ \A m \in Numbers \ {n} : tb.count[m] = table.count[m]
  <1>1. /\ table = [f \in {"count", "dead", "holder", "used", "free"} |-> table[f]]
        /\ table.count \in [Numbers -> 0 .. MAX_COUNT] /\ table.dead \in SUBSET Numbers
    BY DEF TableType, IsTable
  <1>2. /\ tb = [f \in {"count", "dead", "holder", "used", "free"} |-> tb[f]]
        /\ tb.count = [table.count EXCEPT ![n] = (@ + 1) % (MAX_COUNT + 1)]
        /\ tb.dead = table.dead \ {n}
        /\ tb.holder = table.holder /\ tb.used = table.used /\ tb.free = table.free
    BY <1>1 DEF AcceptNumber
  <1>3. (table.count[n] + 1) % (MAX_COUNT + 1) = table.count[n] + 1 /\ table.count[n] + 1 \in 0 .. MAX_COUNT
    <2>1. PICK c \in 0 .. MAX_COUNT : c = table.count[n]
      BY <1>1
    <2>2. MAX_COUNT \in Nat /\ c + 1 \in 0 .. MAX_COUNT
      BY <2>1, ChannelAssumption
    <2>3. (c + 1) % (MAX_COUNT + 1) = c + 1
      BY <2>2
    <2> QED
      BY <2>1, <2>2, <2>3
  <1>4. /\ \A m \in Numbers : tb.count[m] = IF m = n THEN table.count[n] + 1 ELSE table.count[m]
    BY <1>1, <1>2, <1>3
  <1>5. tb.count \in [Numbers -> 0 .. MAX_COUNT]
    BY <1>1, <1>2, <1>3
  <1> QED
    BY <1>1, <1>2, <1>4, <1>5

\* A live thread has a number of its own.
LEMMA OwnNumber ==
  ASSUME ThreadType, Holders, NEW t \in Threads, life[t] = "live"
  PROVE index[t] \in Numbers /\ \A u \in Threads : index[u] = index[t] => u = t
  <1>1. index[t] \in Numbers
    BY DEF ThreadType, Holders
  <1>2. ASSUME NEW u \in Threads, index[u] = index[t] PROVE u = t
    BY <1>1, <1>2 DEF Holders
  <1> QED
    BY <1>1, <1>2

\* What a step must not do with a token that was given out.
Once == \A t \in Threads : request'[t] \notin {NoToken, request[t]} => request'[t] \notin given

\* The rest of the invariant when the request of `client` is accepted.
LEMMA Taken ==
  ASSUME ChannelInductive, Sound(k', 0, 0, 0), Placed(k'), NEW client \in Threads, NEW p \in Procs,
         life[client] = "live", table.count[index[client]] # MAX_COUNT,
         \A q \in Procs : k.waits[client] # ForReply(q),
         TakeNumber(client), UNCHANGED <<life, index, stage, pending>>,
         k'.waits[client] = ForReply(p),
         \A u \in Threads \ {client} : k'.waits[u] = k.waits[u]
                                       \/ (k.waits[u] = InReceive /\ k'.waits[u] = NoWait),
         k'.transit[client] = {}, \A u \in Threads \ {client} : k'.transit[u] = k.transit[u],
         k'.accepted = [k.accepted EXCEPT ![p] = @ \cup {client}]
  PROVE ChannelInductive' /\ Once
  <1> DEFINE n == index[client]
  <1>0. TableType /\ ThreadType /\ Holders /\ TokensOK /\ Waiting /\ Stopped
    BY DEF ChannelInductive
  <1>1. n \in Numbers /\ \A u \in Threads : index[u] = n => u = client
    BY <1>0, OwnNumber
  <1>2. PICK tb : tb = AcceptNumber(table, n)
    OBVIOUS
  <1>3. /\ table' = tb /\ given' = given \cup {<<n, tb.count[n]>>}
        /\ request' = [request EXCEPT ![client] = <<n, tb.count[n]>>]
    BY <1>2 DEF TakeNumber, Token
  <1> HIDE DEF n
  <1>4. /\ tb = [f \in {"count", "dead", "holder", "used", "free"} |-> tb[f]]
        /\ tb.count \in [Numbers -> 0 .. MAX_COUNT] /\ tb.dead \in SUBSET Numbers
        /\ tb.holder = table.holder /\ tb.used = table.used /\ tb.free = table.free
        /\ tb.count[n] = table.count[n] + 1
        /\ \A m \in Numbers \ {n} : tb.count[m] = table.count[m]
    BY <1>0, <1>1, <1>2, AcceptNumberEffect DEF n
  <1>5. TableType'
    BY <1>0, <1>3, <1>4 DEF TableType, IsTable
  <1>6. /\ table.count[n] \in 0 .. MAX_COUNT /\ tb.count[n] \in 0 .. MAX_COUNT
        /\ <<n, tb.count[n]>> \in Numbers \X (0 .. MAX_COUNT)
    BY <1>0, <1>1, <1>4 DEF TableType, IsTable
  <1>7. ThreadType'
    BY <1>0, <1>3, <1>6 DEF ThreadType
  <1>8. \A u \in Threads : request'[u] = IF u = client THEN <<n, tb.count[n]>> ELSE request[u]
    BY <1>0, <1>3 DEF ThreadType
  <1>9. Holders' /\ Stopped'
    BY <1>0, <1>3, <1>4 DEF Holders, Stopped
  <1>10. Waiting'
    <2>1. ASSUME NEW u \in Threads, k'.waits[u] # NoWait PROVE life'[u] = "live"
      BY <1>0, <2>1 DEF Waiting
    <2>2. ASSUME NEW u \in Threads, k'.transit[u] # {} PROVE life'[u] = "ended" \/ k'.waits[u] \in Sends
      BY <1>0, <2>2, StandKinds DEF Waiting
    <2>3. ASSUME NEW u \in Threads, NEW q \in Procs, u \in k'.accepted[q] PROVE k'.waits[u] = ForReply(q)
      <3>0. k.accepted \in [Procs -> SUBSET Threads]
        BY DEF ChannelInductive, Sound, Firm, StateType
      <3>1. k'.accepted[q] = IF q = p THEN k.accepted[p] \cup {client} ELSE k.accepted[q]
        BY <3>0
      <3>2. CASE u = client
        <4>1. u \notin k.accepted[q]
          BY <1>0, <3>2 DEF Waiting
        <4> QED
          BY <2>3, <3>1, <3>2, <4>1
      <3>3. CASE u # client
        <4>1. k.waits[u] = ForReply(q)
          BY <1>0, <2>3, <3>1, <3>3 DEF Waiting
        <4> QED
          BY <3>3, <4>1, WaitKinds
      <3> QED
        BY <3>2, <3>3
    <2> QED
      BY <2>1, <2>2, <2>3 DEF Waiting
  <1>11. TokensOK'
    <2>1. ASSUME NEW u \in Threads, NEW q \in Procs, k'.waits[u] = ForReply(q)
          PROVE request'[u] = <<index'[u], table'.count[index'[u]]>>
      <3>1. CASE u = client
        BY <1>3, <1>8, <3>1 DEF n
      <3>2. CASE u # client
        <4>1. k.waits[u] = ForReply(q)
          BY <2>1, <3>2, WaitKinds
        <4>2. life[u] = "live"
          BY <1>0, <4>1, WaitKinds DEF Waiting
        <4>3. index[u] \in Numbers \ {n}
          BY <1>0, <1>1, <3>2, <4>2, OwnNumber
        <4>4. request[u] = <<index[u], table.count[index[u]]>>
          BY <1>0, <4>1 DEF TokensOK
        <4> QED
          BY <1>3, <1>4, <1>8, <3>2, <4>3, <4>4
      <3> QED
        BY <3>1, <3>2
    <2>2. ASSUME NEW u \in Threads, k'.waits[u] \in Sends PROVE table'.count[index'[u]] # MAX_COUNT
      <3>1. u # client
        BY <2>2, StandKinds, WaitKinds
      <3>2. k.waits[u] \in Sends
        BY <2>2, <3>1, StandKinds, WaitKinds
      <3>3. life[u] = "live"
        BY <1>0, <3>2, StandKinds, WaitKinds DEF Waiting
      <3>4. index[u] \in Numbers \ {n}
        BY <1>0, <1>1, <3>1, <3>3, OwnNumber
      <3> QED
        BY <1>0, <1>3, <1>4, <3>2, <3>4 DEF TokensOK
    <2>3. ASSUME NEW m \in Numbers, NEW c \in 0 .. MAX_COUNT, <<m, c>> \in given' PROVE c <= table'.count[m]
      <3>1. CASE <<m, c>> \in given
        <4>1. c <= table.count[m] /\ table.count[m] \in 0 .. MAX_COUNT
          BY <1>0, <3>1 DEF TokensOK, TableType, IsTable
        <4>2. m = n \/ tb.count[m] = table.count[m]
          BY <1>4
        <4> QED
          BY <1>3, <1>4, <4>1, <4>2
      <3>2. CASE <<m, c>> = <<n, tb.count[n]>>
        BY <1>3, <1>6, <3>2
      <3> QED
        BY <1>3, <2>3, <3>1, <3>2
    <2> QED
      BY <2>1, <2>2, <2>3 DEF TokensOK
  <1>12. NoSleepOnUpcall'
    <2>1. ASSUME NEW u \in pending' PROVE k'.waits[u] \notin Stands
      <3>1. u \in Threads /\ k.waits[u] \notin Stands
        BY <1>0, <2>1 DEF ChannelInductive, NoSleepOnUpcall, ThreadType, InQueue, Stands, Sends
      <3> QED
        BY <3>1, StandKinds
    <2> QED
      BY <2>1 DEF NoSleepOnUpcall, InQueue, Stands, Sends
  <1>13. request'[client] \notin given
    <2>1. ASSUME <<n, tb.count[n]>> \in given PROVE FALSE
      <3>1. tb.count[n] <= table.count[n]
        BY <1>0, <1>1, <1>6, <2>1 DEF TokensOK
      <3> QED
        BY <1>4, <1>6, <3>1
    <2> QED
      BY <1>8, <2>1
  <1>14. Once
    BY <1>8, <1>13 DEF Once
  <1> QED
    BY <1>5, <1>7, <1>9, <1>10, <1>11, <1>12, <1>13, <1>14 DEF ChannelInductive


\* A request is accepted: what Accept does once the wait is the one it makes.
LEMMA SoundAccept ==
  ASSUME NEW x, IsState(x), NEW t \in Threads, NEW p \in Procs, NEW y, y = Accept(x, p, t),
         NEW z, Keeps(x, z, {"waits"}), z.waits = [x.waits EXCEPT ![t] = ForReply(p)],
         NEW c \in Int, NEW f \in Int, Sound(z, 0, c, f), Placed(z)
  PROVE /\ Sound(y, 0, c, f) /\ Placed(y) /\ Keeps(z, y, {"handles", "transit", "accepted"})
        /\ y.accepted = [z.accepted EXCEPT ![p] = @ \cup {t}] /\ PutIn(z, y, p, t)
  <1> DEFINE v == [x EXCEPT !.accepted = [x.accepted EXCEPT ![p] = @ \cup {t}],
                            !.waits = [x.waits EXCEPT ![t] = ForReply(p)]]
  <1>1. y = Deliver(v, p, t)
    BY DEF Accept
  <1>2. /\ Keeps(x, v, {"accepted", "waits"}) /\ v.accepted = [x.accepted EXCEPT ![p] = @ \cup {t}]
        /\ v.waits = z.waits
    BY DEF IsState, Fields, Keeps
  <1> HIDE DEF v
  <1>3. v.handles = x.handles /\ v.transit = x.transit
    BY <1>2, Kept
  <1>4. z.handles = x.handles /\ z.transit = x.transit /\ z.accepted = x.accepted
    BY Kept
  <1>5. /\ Keeps(v, y, {"handles", "transit"}) /\ y.handles = [v.handles EXCEPT ![p] = @ \cup v.transit[t]]
        /\ y.transit = [v.transit EXCEPT ![t] = {}]
    BY <1>1, <1>2 DEF IsState, Fields, Keeps, Deliver
  <1>6. PutIn(z, y, p, t)
    BY <1>3, <1>4, <1>5 DEF PutIn
  <1>7. Keeps(v, y, {"handles", "transit"})
    BY <1>5
  <1>8. y.accepted = v.accepted
    BY ONLY <1>7, Kept
  <1>9. Keeps(z, y, {"handles", "transit", "accepted"})
    BY <1>2, <1>7 DEF Keeps
  <1>10. y.accepted = [z.accepted EXCEPT ![p] = @ \cup {t}]
    BY <1>2, <1>4, <1>8
  <1>11. y.accepted \in [Procs -> SUBSET Threads]
    <2>1. z.accepted \in [Procs -> SUBSET Threads]
      BY DEF Sound, Firm, StateType
    <2> QED
      BY <1>10, <2>1
  <1>12. Sound(y, 0, c, f) /\ Placed(y)
    BY <1>6, <1>9, <1>11, SoundDeliver
  <1> QED
    BY <1>6, <1>9, <1>10, <1>12

\* The first receiver that waits.
LEMMA HeadReceiver ==
  ASSUME NEW x, Sound(x, 0, 0, 0), HasReceivers(x)
  PROVE x.queue # <<>> /\ Head(x.queue) \in Threads /\ x.waits[Head(x.queue)] = InReceive
  <1>1. x.queue \in Seq(Threads \cup Slots) /\ Distinct(x.queue) /\ QueueOK(x)
    BY DEF Sound, Firm, StateType, QueueOK
  <1>2. Head(x.queue) \in Elems(x.queue) /\ x.queue # <<>> /\ x.waiting
    BY <1>1, TailFacts DEF HasReceivers
  <1> QED
    BY <1>1, <1>2 DEF QueueOK

\* A live thread's process takes handles.
LEMMA LiveTakes ==
  ASSUME Stopped, NEW t \in Threads, life[t] = "live"
  PROVE stage[Of[t]] \notin {"replies", "handles", "gone"}
  BY DEF Stopped

\* send to a receiver that waits.
LEMMA SendMetStep ==
  ASSUME ChannelInductive, NEW t \in Threads, NEW h \in Handles, NEW moving \in Movable(t, h),
         SendMet(t, h, moving)
  PROVE ChannelInductive' /\ InTime /\ Once
  <1>1. Calls(t) /\ h \in k.handles[Of[t]] /\ CountLeft(t) /\ HasReceivers(k)
    BY DEF SendMet, SendCall
  <1>2. /\ Sound(k, 0, 0, 0) /\ Placed(k) /\ StateType(k) /\ IsState(k)
        /\ k.waits[t] = NoWait /\ k.transit[t] = {} /\ Of[t] \in Procs /\ stage[Of[t]] = "whole"
        /\ life[t] = "live"
    BY <1>1, CallFacts
  <1>3. k.queue # <<>> /\ Head(k.queue) \in Threads /\ k.waits[Head(k.queue)] = InReceive
    BY <1>1, <1>2, HeadReceiver
  <1>4. PICK r \in Threads : r = Head(k.queue)
    BY <1>3
  <1>5. PICK p \in Procs : p = Of[r]
    BY ChannelAssumption
  <1>6. PICK o \in Procs : o = Of[t]
    BY <1>2
  <1> DEFINE out == [k EXCEPT !.handles = [k.handles EXCEPT ![Of[t]] = @ \ moving],
                              !.transit = [k.transit EXCEPT ![t] = moving],
                              !.waits = [k.waits EXCEPT ![r] = NoWait]]
             x == TakeHead(out)
             z == [k EXCEPT !.handles = [k.handles EXCEPT ![Of[t]] = @ \ moving],
                            !.transit = [k.transit EXCEPT ![t] = moving]]
             a == Accept(x, p, t)
  <1>7. k' = ReleaseRef(a) /\ TakeNumber(t) /\ UNCHANGED <<life, index, stage, pending>>
    BY <1>4, <1>5 DEF SendMet
  <1>8. /\ Keeps(k, z, {"handles", "transit"}) /\ z.handles = [k.handles EXCEPT ![Of[t]] = @ \ moving]
        /\ z.transit = [k.transit EXCEPT ![t] = moving]
    BY <1>2 DEF IsState, Fields, Keeps
  <1>9. /\ Keeps(k, out, {"handles", "transit", "waits"}) /\ out.handles = z.handles /\ out.transit = z.transit
        /\ out.waits = [k.waits EXCEPT ![r] = NoWait]
    BY <1>2, <1>8 DEF IsState, Fields, Keeps
  <1> HIDE DEF out, z
  <1>10. Keeps(out, x, {"queue"}) /\ x.queue = Tail(out.queue)
    BY <1>9 DEF IsState, Fields, Keeps, TakeHead
  <1> HIDE DEF x
  <1>11. x.waits = out.waits /\ x.handles = out.handles /\ x.transit = out.transit /\ IsState(x)
    BY <1>10, Kept
  <1>12. out.queue = k.queue
    BY <1>9, Kept
  <1>13. z.waits = k.waits /\ z.queue = k.queue /\ z.accepted = k.accepted
    BY <1>8, Kept
  <1>14. Keeps(z, x, {"queue", "waits"})
    BY <1>8, <1>9, <1>10, <1>11 DEF Keeps
  <1>15. x.queue = Tail(z.queue) /\ x.waits = [z.waits EXCEPT ![r] = NoWait] /\ z.queue # <<>> /\ Head(z.queue) = r
    BY <1>3, <1>4, <1>9, <1>10, <1>11, <1>12, <1>13
  <1>16. Sound(z, 0, 0, 0) /\ Placed(z)
    <2>1. PutOut(k, z, o, t, moving)
      BY <1>2, <1>6, <1>8, MovableFacts DEF PutOut
    <2>2. Keeps(k, z, {"handles", "transit", "accepted"}) /\ z.accepted \in [Procs -> SUBSET Threads]
      BY <1>2, <1>8, <1>13 DEF Keeps, StateType
    <2> QED
      BY ONLY <1>2, <2>1, <2>2, t \in Threads, o \in Procs, 0 \in Int, SoundPutOut
  <1>17. Sound(x, 0, 0, 1)
    <2>1. NoWait \in Waits /\ NoWait \notin Stands
      BY StandKinds
    <2>2. Sound(x, 0, HeldSession(z.waits[r]), HeldChannel(z.waits[r]))
      BY ONLY <1>14, <1>15, <1>16, <2>1, r \in Threads, SoundTakeThread
    <2>3. HeldSession(z.waits[r]) = 0 /\ HeldChannel(z.waits[r]) = 1
      BY <1>3, <1>4, <1>13, WaitKinds DEF HeldSession, HeldChannel
    <2> QED
      BY <2>2, <2>3
  <1>18. \A u \in Threads : x.waits[u] = IF u = r THEN NoWait ELSE k.waits[u]
    BY <1>2, <1>13, <1>15 DEF StateType
  <1> DEFINE b == [x EXCEPT !.waits = [x.waits EXCEPT ![t] = ForReply(p)]]
  <1>19. Keeps(x, b, {"waits"}) /\ b.waits = [x.waits EXCEPT ![t] = ForReply(p)]
    BY <1>11 DEF IsState, Fields, Keeps
  <1> HIDE DEF b
  <1>20. b.handles = x.handles /\ b.transit = x.transit /\ b.accepted = x.accepted
    BY <1>19, Kept
  <1>21. Sound(b, 0, 0, 1)
    <2>1. PICK w \in Waits : w = ForReply(p)
      BY StandKinds
    <2>2. w \notin Stands /\ x.waits[t] \notin Stands /\ b.waits = [x.waits EXCEPT ![t] = w]
      BY <1>2, <1>18, <1>19, <2>1, StandKinds
    <2> QED
      BY ONLY <1>17, <1>19, <2>2, t \in Threads, w \in Waits, 0 \in Int, 1 \in Int, SoundOther
  <1>22. Placed(b)
    BY <1>11, <1>9, <1>16, <1>20, SamePlaces
  <1>23. /\ Sound(a, 0, 0, 1) /\ Placed(a) /\ Keeps(b, a, {"handles", "transit", "accepted"})
         /\ a.accepted = [b.accepted EXCEPT ![p] = @ \cup {t}] /\ PutIn(b, a, p, t)
    BY <1>11, <1>19, <1>21, <1>22, SoundAccept
  <1> HIDE DEF a
  <1>24. PICK y : y = ReleaseRef(a)
    OBVIOUS
  <1>25. Sound(y, 0, 0, 1 - 1) /\ Frame(a, y)
    BY ONLY <1>23, <1>24, 0 \in Int, 1 \in Int, 1 >= 1, SoundReleaseRef
  <1>26. Sound(k', 0, 0, 0) /\ Frame(a, k') /\ Placed(k')
    <2>1. Sound(y, 0, 0, 0) /\ Placed(y)
      BY <1>23, <1>25, SamePlaces DEF Frame
    <2> QED
      BY <1>7, <1>24, <1>25, <2>1
  <1>27. a.waits = b.waits /\ x.accepted = k.accepted
    <2>1. Keeps(b, a, {"handles", "transit", "accepted"})
      BY <1>23
    <2>2. a.waits = b.waits
      BY ONLY <2>1, Kept
    <2>3. x.accepted = z.accepted
      BY <1>14, Kept
    <2> QED
      BY <1>13, <2>2, <2>3
  <1>28. \A u \in Threads : a.waits[u] = IF u = t THEN ForReply(p) ELSE IF u = r THEN NoWait ELSE k.waits[u]
    <2>1. x.waits \in [Threads -> Waits]
      BY <1>17 DEF Sound, Firm, StateType
    <2> QED
      BY <1>18, <1>19, <1>27, <2>1
  <1>29. /\ k'.waits[t] = ForReply(p)
         /\ \A u \in Threads \ {t} : k'.waits[u] = k.waits[u]
                                     \/ (k.waits[u] = InReceive /\ k'.waits[u] = NoWait)
    BY <1>3, <1>4, <1>26, <1>28, WaitKinds DEF Frame, Ended
  <1>30. \A u \in Threads : k'.transit[u] = IF u = t THEN {} ELSE k.transit[u]
    <2>1. k.transit \in [Threads -> SUBSET Handles] /\ b.transit \in [Threads -> SUBSET Handles]
      BY <1>2, <1>21 DEF StateType, Sound, Firm
    <2>2. \A u \in Threads : b.transit[u] = IF u = t THEN moving ELSE k.transit[u]
      BY <1>8, <1>9, <1>11, <1>20, <2>1
    <2> QED
      BY <1>23, <1>26, <2>1, <2>2 DEF Frame, PutIn
  <1>31. k'.accepted = [k.accepted EXCEPT ![p] = @ \cup {t}]
    BY <1>20, <1>23, <1>26, <1>27 DEF Frame
  <1>32. ChannelInductive' /\ Once
    <2>1. \A q \in Procs : k.waits[t] # ForReply(q)
      BY <1>2, WaitKinds
    <2>2. table.count[index[t]] # MAX_COUNT
      BY <1>1 DEF CountLeft
    <2> QED
      BY <1>2, <1>7, <1>26, <1>29, <1>30, <1>31, <2>1, <2>2, Taken
  <1>33. InTime
    <2>1. \A q \in Procs : q # p => k'.handles[q] \subseteq k.handles[q]
      <3>1. k.handles \in [Procs -> SUBSET Handles] /\ b.handles \in [Procs -> SUBSET Handles]
        BY <1>2, <1>21 DEF StateType, Sound, Firm
      <3>2. \A q \in Procs : b.handles[q] \subseteq k.handles[q]
        BY <1>8, <1>9, <1>11, <1>20, <3>1
      <3> QED
        BY <1>23, <1>26, <3>1, <3>2 DEF Frame, PutIn
    <2>2. life[r] = "live"
      BY <1>3, <1>4, WaitKinds DEF ChannelInductive, Waiting
    <2>3. stage[p] \notin {"replies", "handles", "gone"}
      BY <1>5, <2>2, LiveTakes DEF ChannelInductive
    <2> QED
      BY <2>1, <2>3 DEF InTime
  <1> QED
    BY <1>32, <1>33


\* receive of a request.
LEMMA ReceiveRequestStep ==
  ASSUME ChannelInductive, NEW t \in Threads, NEW client \in Threads, ReceiveRequest(t, client)
  PROVE ChannelInductive' /\ InTime /\ Once
  <1>1. /\ Calls(t) /\ ~k.waiting /\ k.queue # <<>> /\ Head(k.queue) = client
    BY DEF ReceiveRequest, ReceiveCall, Queued
  <1>2. /\ Sound(k, 0, 0, 0) /\ Placed(k) /\ StateType(k) /\ IsState(k)
        /\ Of[t] \in Procs /\ stage[Of[t]] = "whole"
    BY <1>1, CallFacts
  <1>3. k.waits[client] \in Sends
    BY <1>1, <1>2, HeadRequest
  <1>4. PICK p \in Procs : p = Of[t]
    BY <1>2
  <1>5. PICK w \in Stands : w = k.waits[client]
    BY <1>3 DEF Stands
  <1> DEFINE x == TakeHead(k)
             a == Accept(x, p, client)
             b == [x EXCEPT !.waits = [x.waits EXCEPT ![client] = ForReply(p)]]
  <1>6. k' = LetGo(a, w[2]) /\ TakeNumber(client) /\ UNCHANGED <<life, index, stage, pending>>
    BY <1>4, <1>5 DEF ReceiveRequest
  <1>7. Keeps(k, x, {"queue"}) /\ x.queue = Tail(k.queue)
    BY <1>2 DEF IsState, Fields, Keeps, TakeHead
  <1> HIDE DEF x
  <1>8. /\ x.waits = k.waits /\ x.handles = k.handles /\ x.transit = k.transit /\ x.accepted = k.accepted
        /\ IsState(x)
    BY <1>7, Kept
  <1>9. Keeps(x, b, {"waits"}) /\ b.waits = [x.waits EXCEPT ![client] = ForReply(p)]
    BY <1>8 DEF IsState, Fields, Keeps
  <1> HIDE DEF b
  <1>10. b.handles = x.handles /\ b.transit = x.transit /\ b.accepted = x.accepted /\ b.queue = x.queue
    BY <1>9, Kept
  <1>11. Keeps(k, b, {"queue", "waits"})
    BY <1>7, <1>9 DEF Keeps
  <1>12. Sound(b, 0, HeldSession(w), HeldChannel(w))
    <2>1. PICK v \in Waits : v = ForReply(p)
      BY StandKinds
    <2>2. /\ v \notin Stands /\ b.queue = Tail(k.queue) /\ b.waits = [k.waits EXCEPT ![client] = v]
      BY <1>7, <1>8, <1>9, <1>10, <2>1, StandKinds
    <2>3. Sound(b, 0, HeldSession(k.waits[client]), HeldChannel(k.waits[client]))
      BY ONLY <1>1, <1>2, <1>11, <2>2, client \in Threads, v \in Waits, SoundTakeThread
    <2> QED
      BY <1>5, <2>3
  <1>13. Placed(b)
    BY <1>2, <1>8, <1>10, SamePlaces
  <1>14. HeldSession(w) \in Int /\ HeldChannel(w) \in Int
    BY DEF HeldSession, HeldChannel
  <1>15. /\ Sound(a, 0, HeldSession(w), HeldChannel(w)) /\ Placed(a)
         /\ Keeps(b, a, {"handles", "transit", "accepted"})
         /\ a.accepted = [b.accepted EXCEPT ![p] = @ \cup {client}] /\ PutIn(b, a, p, client)
    BY <1>8, <1>9, <1>12, <1>13, <1>14, SoundAccept
  <1> HIDE DEF a
  <1>16. PICK y : y = LetGo(a, w[2])
    OBVIOUS
  <1>17. Sound(y, 0, 0, 0) /\ Frame(a, y)
    <2>1. PICK via : via = w[2]
      OBVIOUS
    <2>2. via = (IF w = InReceive THEN "channel" ELSE w[2]) /\ y = LetGo(a, via)
      BY <1>3, <1>5, <1>16, <2>1, StandKinds
    <2> QED
      BY ONLY <1>15, <2>2, w \in Stands, SoundWaitGoes
  <1>18. Sound(k', 0, 0, 0) /\ Frame(a, k') /\ Placed(k')
    <2>1. Placed(y)
      BY <1>15, <1>17, SamePlaces DEF Frame
    <2> QED
      BY <1>6, <1>16, <1>17, <2>1
  <1>19. a.waits = b.waits
    <2>1. Keeps(b, a, {"handles", "transit", "accepted"})
      BY <1>15
    <2> QED
      BY ONLY <2>1, Kept
  <1>20. \A u \in Threads : a.waits[u] = IF u = client THEN ForReply(p) ELSE k.waits[u]
    BY <1>2, <1>8, <1>9, <1>19 DEF StateType
  <1>21. /\ k'.waits[client] = ForReply(p)
         /\ \A u \in Threads \ {client} : k'.waits[u] = k.waits[u]
                                          \/ (k.waits[u] = InReceive /\ k'.waits[u] = NoWait)
    BY <1>18, <1>20, WaitKinds DEF Frame, Ended
  <1>22. \A u \in Threads : k'.transit[u] = IF u = client THEN {} ELSE k.transit[u]
    BY <1>2, <1>8, <1>10, <1>15, <1>18 DEF Frame, PutIn, StateType
  <1>23. k'.accepted = [k.accepted EXCEPT ![p] = @ \cup {client}]
    BY <1>8, <1>10, <1>15, <1>18 DEF Frame
  <1>24. ChannelInductive' /\ Once
    <2>1. \A q \in Procs : k.waits[client] # ForReply(q)
      BY <1>3, StandKinds, WaitKinds
    <2>2. table.count[index[client]] # MAX_COUNT
      BY <1>3 DEF ChannelInductive, TokensOK
    <2>3. life[client] = "live"
      BY <1>3, StandKinds, WaitKinds DEF ChannelInductive, Waiting
    <2> QED
      BY <1>6, <1>18, <1>21, <1>22, <1>23, <2>1, <2>2, <2>3, Taken
  <1>25. InTime
    <2>1. \A q \in Procs : q # p => k'.handles[q] = k.handles[q]
      BY <1>2, <1>8, <1>10, <1>15, <1>18 DEF Frame, PutIn, StateType
    <2>2. stage[p] = "whole"
      BY <1>2, <1>4
    <2>3. ASSUME NEW q \in Procs, stage[q] \in {"replies", "handles", "gone"} PROVE q # p
      BY <2>2, <2>3
    <2> QED
      BY <2>1, <2>3 DEF InTime
  <1> QED
    BY <1>24, <1>25

\* The rest of the invariant when a client that waits for a reply wakes.
LEMMA Woken ==
  ASSUME ChannelInductive, Sound(k', 0, 0, 0), Placed(k'), NEW client \in Threads, NEW p \in Procs,
         k.waits[client] = ForReply(p), request' = [request EXCEPT ![client] = NoToken],
         UNCHANGED <<table, life, index, stage, pending, given>>,
         k'.waits[client] = NoWait,
         \A u \in Threads \ {client} : k'.waits[u] = k.waits[u]
                                       \/ (k.waits[u] = InReceive /\ k'.waits[u] = NoWait),
         \A u \in Threads : k'.transit[u] = {} \/ k'.transit[u] = k.transit[u],
         k'.accepted = [k.accepted EXCEPT ![p] = @ \ {client}]
  PROVE ChannelInductive' /\ Once
  <1>0. ThreadType /\ TokensOK /\ Waiting
    BY DEF ChannelInductive
  <1>1. \A u \in Threads : request'[u] = IF u = client THEN NoToken ELSE request[u]
    BY <1>0 DEF ThreadType
  <1>2. TableType' /\ Stopped' /\ Holders'
    BY DEF ChannelInductive, TableType, Stopped, Holders
  <1>3. ThreadType'
    BY <1>0 DEF ThreadType
  <1>4. Waiting'
    <2>1. ASSUME NEW u \in Threads, k'.waits[u] # NoWait PROVE life'[u] = "live"
      BY <1>0, <2>1 DEF Waiting
    <2>2. ASSUME NEW u \in Threads, k'.transit[u] # {} PROVE life'[u] = "ended" \/ k'.waits[u] \in Sends
      <3>1. life[u] = "ended" \/ k.waits[u] \in Sends
        BY <1>0, <2>2 DEF Waiting
      <3>2. CASE k.waits[u] \in Sends
        <4>1. u # client /\ k.waits[u] # InReceive
          BY <3>2, StandKinds, WaitKinds
        <4> QED
          BY <3>2, <4>1
      <3> QED
        BY <3>1, <3>2
    <2>3. ASSUME NEW u \in Threads, NEW q \in Procs, u \in k'.accepted[q] PROVE k'.waits[u] = ForReply(q)
      <3>0. k.accepted \in [Procs -> SUBSET Threads]
        BY DEF ChannelInductive, Sound, Firm, StateType
      <3>1. k'.accepted[q] = IF q = p THEN k.accepted[p] \ {client} ELSE k.accepted[q]
        BY <3>0
      <3>2. k.waits[u] = ForReply(q)
        BY <1>0, <2>3, <3>1 DEF Waiting
      <3>3. u # client
        <4>1. CASE q = p
          BY <2>3, <3>1, <4>1
        <4>2. CASE q # p
          BY <3>2, <4>2, WaitKinds
        <4> QED
          BY <4>1, <4>2
      <3> QED
        BY <3>2, <3>3, WaitKinds
    <2> QED
      BY <2>1, <2>2, <2>3 DEF Waiting
  <1>5. TokensOK'
    <2>1. ASSUME NEW u \in Threads, NEW q \in Procs, k'.waits[u] = ForReply(q)
          PROVE request'[u] = <<index'[u], table'.count[index'[u]]>>
      <3>1. u # client /\ k.waits[u] = ForReply(q)
        BY <2>1, WaitKinds
      <3> QED
        BY <1>0, <1>1, <3>1 DEF TokensOK
    <2>2. ASSUME NEW u \in Threads, k'.waits[u] \in Sends PROVE table'.count[index'[u]] # MAX_COUNT
      <3>1. u # client /\ k.waits[u] \in Sends
        BY <2>2, StandKinds, WaitKinds
      <3> QED
        BY <1>0, <3>1 DEF TokensOK
    <2>3. \A n \in Numbers, c \in 0 .. MAX_COUNT : <<n, c>> \in given' => c <= table'.count[n]
      BY <1>0 DEF TokensOK
    <2> QED
      BY <2>1, <2>2, <2>3 DEF TokensOK
  <1>6. NoSleepOnUpcall'
    <2>1. ASSUME NEW u \in pending' PROVE k'.waits[u] \notin Stands
      <3>1. u \in Threads /\ k.waits[u] \notin Stands
        BY <1>0, <2>1 DEF ChannelInductive, NoSleepOnUpcall, ThreadType, InQueue, Stands, Sends
      <3> QED
        BY <3>1, StandKinds
    <2> QED
      BY <2>1 DEF NoSleepOnUpcall, InQueue, Stands, Sends
  <1>7. Once
    BY <1>1 DEF Once
  <1> QED
    BY <1>2, <1>3, <1>4, <1>5, <1>6, <1>7 DEF ChannelInductive

\* A wait for a reply ends, and what was accepted with it.
LEMMA SoundWake ==
  ASSUME NEW x, Sound(x, 0, 0, 0), NEW client \in Threads, NEW p \in Procs, x.waits[client] = ForReply(p),
         NEW y, Keeps(x, y, {"waits", "accepted"}), y.waits = [x.waits EXCEPT ![client] = NoWait],
         y.accepted \in [Procs -> SUBSET Threads]
  PROVE Sound(y, 0, 0, 0)
  <1> DEFINE z == [x EXCEPT !.waits = [x.waits EXCEPT ![client] = NoWait]]
  <1>1. IsState(x)
    BY DEF Sound, Firm, StateType
  <1>2. Keeps(x, z, {"waits"}) /\ z.waits = [x.waits EXCEPT ![client] = NoWait]
    BY <1>1 DEF IsState, Fields, Keeps
  <1> HIDE DEF z
  <1>3. Sound(z, 0, 0, 0)
    <2>1. NoWait \in Waits /\ NoWait \notin Stands /\ x.waits[client] \notin Stands /\ Sound(x, 0, 0, 0)
      BY StandKinds
    <2> QED
      BY ONLY <1>2, <2>1, client \in Threads, 0 \in Int, SoundOther
  <1>4. Keeps(z, y, {"handles", "transit", "accepted"})
    BY <1>2 DEF Keeps
  <1>5. y.handles = z.handles /\ y.transit = z.transit
    <2>1. y.handles = x.handles /\ y.transit = x.transit
      BY Kept
    <2>2. z.handles = x.handles /\ z.transit = x.transit
      BY <1>2, Kept
    <2> QED
      BY <2>1, <2>2
  <1>6. y.handles \in [Procs -> SUBSET Handles] /\ y.transit \in [Threads -> SUBSET Handles] /\ All(y) = All(z)
    BY <1>3, <1>5, SameHandles DEF Sound, Firm, StateType
  <1>7. y.accepted \in [Procs -> SUBSET Threads]
    OBVIOUS
  <1> QED
    BY ONLY <1>3, <1>4, <1>6, <1>7, 0 \in Int, SoundHandlesMove

\* The stage Replies wakes a client.
LEMMA WakeClientStep ==
  ASSUME ChannelInductive, NEW p \in Procs, NEW client \in Threads, WakeClient(p, client)
  PROVE ChannelInductive' /\ InTime /\ Once
  <1>1. Sound(k, 0, 0, 0) /\ Placed(k) /\ IsState(k) /\ StateType(k)
    BY DEF ChannelInductive, Sound, Firm, StateType
  <1>2. k.waits[client] = ForReply(p)
    BY DEF WakeClient, ChannelInductive, Waiting
  <1>3. k' = [k EXCEPT !.accepted = [k.accepted EXCEPT ![p] = @ \ {client}],
                       !.waits = [k.waits EXCEPT ![client] = NoWait]]
    BY DEF WakeClient
  <1>4. /\ Keeps(k, k', {"waits", "accepted"}) /\ k'.waits = [k.waits EXCEPT ![client] = NoWait]
        /\ k'.accepted = [k.accepted EXCEPT ![p] = @ \ {client}]
    BY <1>1, <1>3 DEF IsState, Fields, Keeps
  <1>5. k'.handles = k.handles /\ k'.transit = k.transit
    BY <1>4, Kept
  <1>6. k'.accepted \in [Procs -> SUBSET Threads]
    BY <1>1, <1>4 DEF StateType
  <1>7. Sound(k', 0, 0, 0)
    <2>1. PICK y : y = k'
      OBVIOUS
    <2>2. /\ Keeps(k, y, {"waits", "accepted"}) /\ y.waits = [k.waits EXCEPT ![client] = NoWait]
          /\ y.accepted \in [Procs -> SUBSET Threads]
      BY <1>4, <1>6, <2>1
    <2>3. Sound(y, 0, 0, 0)
      BY ONLY <1>1, <1>2, <2>2, client \in Threads, p \in Procs, SoundWake
    <2> QED
      BY <2>1, <2>3
  <1>8. Placed(k')
    BY <1>1, <1>5, SamePlaces
  <1>9. \A u \in Threads : k'.waits[u] = IF u = client THEN NoWait ELSE k.waits[u]
    BY <1>1, <1>4 DEF StateType
  <1>10. ChannelInductive' /\ Once
    <2>1. request' = [request EXCEPT ![client] = NoToken] /\ UNCHANGED <<table, life, index, stage, pending, given>>
      BY DEF WakeClient
    <2>2. /\ k'.waits[client] = NoWait /\ \A u \in Threads \ {client} : k'.waits[u] = k.waits[u]
          /\ k'.accepted = [k.accepted EXCEPT ![p] = @ \ {client}]
          /\ \A u \in Threads : k'.transit[u] = k.transit[u]
      BY <1>4, <1>5, <1>9
    <2> QED
      BY <1>2, <1>7, <1>8, <2>1, <2>2, Woken
  <1> QED
    BY <1>5, <1>10 DEF InTime

\* reply to a client that waits.
LEMMA ReplyStep ==
  ASSUME ChannelInductive, NEW t \in Threads, NEW token \in given, NEW moving \in Movable(t, None),
         Reply(t, token, moving)
  PROVE ChannelInductive' /\ InTime /\ Once
  <1>1. /\ Calls(t) /\ Check(token) \in Threads /\ k.waits[Check(token)] = ForReply(Of[t])
        /\ request' = [request EXCEPT ![Check(token)] = NoToken]
        /\ UNCHANGED <<table, life, index, stage, pending, given>>
    BY DEF Reply, ReplyCall
  <1>2. /\ Sound(k, 0, 0, 0) /\ Placed(k) /\ StateType(k) /\ IsState(k)
        /\ k.waits[t] = NoWait /\ k.transit[t] = {} /\ Of[t] \in Procs /\ stage[Of[t]] = "whole"
    BY <1>1, CallFacts
  <1>3. PICK client \in Threads : client = Check(token)
    BY <1>1
  <1>4. PICK p \in Procs : p = Of[t]
    BY <1>2
  <1>5. PICK q \in Procs : q = Of[client]
    BY ChannelAssumption
  <1> DEFINE x == [k EXCEPT !.accepted = [k.accepted EXCEPT ![p] = @ \ {client}],
                            !.waits = [k.waits EXCEPT ![client] = NoWait],
                            !.handles = [k.handles EXCEPT ![p] = @ \ moving],
                            !.transit = [k.transit EXCEPT ![t] = moving]]
             z == [k EXCEPT !.accepted = [k.accepted EXCEPT ![p] = @ \ {client}],
                            !.waits = [k.waits EXCEPT ![client] = NoWait]]
  <1>6. k' = Deliver(x, q, t) \/ k' = DropTransit(x, t)
    <2>1. LET c == Check(token)
              woken == [k EXCEPT !.accepted[Of[t]] = @ \ {c}, !.waits[c] = NoWait,
                                 !.handles[Of[t]] = @ \ moving, !.transit[t] = moving]
          IN  k' = Deliver(woken, Of[c], t) \/ k' = DropTransit(woken, t)
      BY DEF Reply
    <2> QED
      BY <1>3, <1>4, <1>5, <2>1
  <1>7. /\ Keeps(k, z, {"waits", "accepted"}) /\ z.waits = [k.waits EXCEPT ![client] = NoWait]
        /\ z.accepted = [k.accepted EXCEPT ![p] = @ \ {client}]
    BY <1>2 DEF IsState, Fields, Keeps
  <1>8. /\ Keeps(k, x, {"waits", "accepted", "handles", "transit"})
        /\ x.waits = z.waits /\ x.accepted = z.accepted
        /\ x.handles = [k.handles EXCEPT ![p] = @ \ moving] /\ x.transit = [k.transit EXCEPT ![t] = moving]
    BY <1>2, <1>7 DEF IsState, Fields, Keeps
  <1> HIDE DEF x, z
  <1>9. z.handles = k.handles /\ z.transit = k.transit
    BY <1>7, Kept
  <1>10. Keeps(z, x, {"handles", "transit", "accepted"})
    BY <1>7, <1>8 DEF Keeps
  <1>11. x.accepted \in [Procs -> SUBSET Threads] /\ z.accepted \in [Procs -> SUBSET Threads]
    BY <1>2, <1>7, <1>8 DEF StateType
  <1>12. Sound(z, 0, 0, 0) /\ Placed(z)
    <2>1. k.waits[client] = ForReply(p)
      BY <1>1, <1>3, <1>4
    <2>2. Sound(z, 0, 0, 0)
      BY ONLY <1>2, <1>7, <1>11, <2>1, client \in Threads, p \in Procs, SoundWake
    <2> QED
      BY <1>2, <1>9, <2>2, SamePlaces
  <1>13. Sound(x, 0, 0, 0) /\ Placed(x)
    <2>1. PutOut(z, x, p, t, moving)
      BY <1>2, <1>4, <1>8, <1>9, MovableFacts DEF PutOut
    <2> QED
      BY ONLY <1>10, <1>11, <1>12, <2>1, t \in Threads, p \in Procs, 0 \in Int, SoundPutOut
  <1>14. \A u \in Threads : x.waits[u] = IF u = client THEN NoWait ELSE k.waits[u]
    BY <1>2, <1>7, <1>8 DEF StateType
  <1>15. \A u \in Threads : x.transit[u] = IF u = t THEN moving ELSE k.transit[u]
    BY <1>2, <1>8 DEF StateType
  <1>16. \A o \in Procs : x.handles[o] \subseteq k.handles[o]
    BY <1>2, <1>8 DEF StateType
  <1>17. /\ Sound(k', 0, 0, 0) /\ Placed(k') /\ Ended(x, k')
         /\ k'.accepted = x.accepted
         /\ \A u \in Threads : k'.transit[u] = {} \/ k'.transit[u] = k.transit[u]
         /\ \A o \in Procs : o # q => k'.handles[o] \subseteq k.handles[o]
    <2>0. x.handles \in [Procs -> SUBSET Handles] /\ x.transit \in [Threads -> SUBSET Handles]
      BY <1>13 DEF Sound, Firm, StateType
    <2>1. CASE k' = Deliver(x, q, t)
      <3>1. PICK y : y = Deliver(x, q, t)
        OBVIOUS
      <3>2. Keeps(x, y, {"handles", "transit"}) /\ PutIn(x, y, q, t)
        BY <1>8, <3>1 DEF IsState, Fields, Keeps, Deliver, PutIn
      <3>3. y.accepted = x.accepted /\ y.waits = x.waits
        BY <3>2, Kept
      <3>4. Keeps(x, y, {"handles", "transit", "accepted"}) /\ y.accepted \in [Procs -> SUBSET Threads]
        BY <1>11, <3>2, <3>3 DEF Keeps
      <3>5. Sound(y, 0, 0, 0) /\ Placed(y)
        BY ONLY <1>13, <3>2, <3>4, t \in Threads, q \in Procs, 0 \in Int, SoundDeliver
      <3>6. \A u \in Threads : y.transit[u] = {} \/ y.transit[u] = k.transit[u]
        BY <1>15, <2>0, <3>2 DEF PutIn
      <3>7. \A o \in Procs : o # q => y.handles[o] \subseteq k.handles[o]
        BY <1>16, <2>0, <3>2 DEF PutIn
      <3>8. Ended(x, y)
        BY <3>3 DEF Ended
      <3> QED
        BY <2>1, <3>1, <3>3, <3>5, <3>6, <3>7, <3>8
    <2>2. CASE k' = DropTransit(x, t)
      <3>1. PICK y : y = DropTransit(x, t)
        OBVIOUS
      <3>2. /\ Sound(y, 0, 0, 0) /\ Placed(y)
            /\ y.transit = [x.transit EXCEPT ![t] = {}]
            /\ y.handles = x.handles /\ y.accepted = x.accepted /\ Ended(x, y)
        BY ONLY <1>13, <3>1, t \in Threads, 0 \in Nat, SoundDropTransit
      <3>3. \A u \in Threads : y.transit[u] = {} \/ y.transit[u] = k.transit[u]
        BY <1>15, <2>0, <3>2
      <3>4. \A o \in Procs : y.handles[o] \subseteq k.handles[o]
        BY <1>16, <3>2
      <3> QED
        BY <2>2, <3>1, <3>2, <3>3, <3>4
    <2> QED
      BY <1>6, <2>1, <2>2
  <1>18. /\ k'.waits[client] = NoWait
         /\ \A u \in Threads \ {client} : k'.waits[u] = k.waits[u]
                                          \/ (k.waits[u] = InReceive /\ k'.waits[u] = NoWait)
    BY <1>14, <1>17, WaitKinds DEF Ended
  <1>19. k'.accepted = [k.accepted EXCEPT ![p] = @ \ {client}]
    BY <1>7, <1>8, <1>17
  <1>20. ChannelInductive' /\ Once
    <2>1. k.waits[client] = ForReply(p) /\ request' = [request EXCEPT ![client] = NoToken]
      BY <1>1, <1>3, <1>4
    <2> QED
      BY <1>1, <1>17, <1>18, <1>19, <2>1, Woken
  <1>21. InTime
    <2>1. life[client] = "live"
      BY <1>1, <1>3, WaitKinds DEF ChannelInductive, Waiting
    <2>2. stage[q] \notin {"replies", "handles", "gone"}
      BY <1>5, <2>1, LiveTakes DEF ChannelInductive
    <2> QED
      BY <1>17, <2>2 DEF InTime
  <1> QED
    BY <1>20, <1>21


-----------------------------------------------------------------------------
(* Upcalls, and the ends of threads and processes.                         *)

\* thread_upcall_request.
LEMMA RequestUpcallStep ==
  ASSUME ChannelInductive, NEW t \in Threads, RequestUpcall(t)
  PROVE ChannelInductive' /\ InTime
  <1>1. /\ pending' = pending \cup {t} /\ UNCHANGED <<table, life, index, stage, given, request>>
        /\ k' = IF InQueue(t) THEN LetGo(DropTransit(Withdraw(k, t), t), WaitedVia(t)) ELSE k
    BY DEF RequestUpcall
  <1>2. pending \in SUBSET Threads /\ \A u \in pending : k.waits[u] \notin Stands
    BY DEF ChannelInductive, ThreadType, NoSleepOnUpcall, InQueue, Stands, Sends
  <1>3. Sound(k, 0, 0, 0) /\ Placed(k) /\ k.transit \in [Threads -> SUBSET Handles]
    BY DEF ChannelInductive, Sound, Firm, StateType
  <1>4. CASE InQueue(t)
    <2>1. PICK y : y = LetGo(DropTransit(Withdraw(k, t), t), WaitedVia(t))
      OBVIOUS
    <2>2. /\ k.waits[t] \in Stands
          /\ Sound(y, 0, 0, 0) /\ Placed(y) /\ EndedBut(k, y, t)
          /\ y.transit = [k.transit EXCEPT ![t] = {}] /\ y.accepted = k.accepted /\ y.handles = k.handles
      BY <1>4, <2>1, WithdrawDropped
    <2>3. k' = y
      BY <1>1, <1>4, <2>1
    <2>4. \A u \in Threads : \/ k'.waits[u] = k.waits[u]
                             \/ k.waits[u] \in Stands /\ k'.waits[u] = NoWait
      BY <2>2, <2>3 DEF EndedBut, Stands
    <2>5. \A u \in Threads : \/ k'.transit[u] = {}
                             \/ /\ k'.transit[u] = k.transit[u]
                                /\ k.waits[u] = InReceive \/ k'.waits[u] = k.waits[u]
      BY <1>3, <2>2, <2>3 DEF EndedBut
    <2>6. \A u \in pending' : k'.waits[u] \notin Stands
      <3>1. k'.waits[t] = NoWait
        BY <2>2, <2>3 DEF EndedBut
      <3> QED
        BY <1>1, <1>2, <2>4, <3>1, StandKinds
    <2>7. ChannelInductive'
      BY <1>1, <1>2, <2>2, <2>3, <2>4, <2>5, <2>6, QuietButUpcalls
    <2> QED
      BY <2>2, <2>3, <2>7 DEF InTime
  <1>5. CASE ~InQueue(t)
    <2>1. k' = k
      BY <1>1, <1>5
    <2>2. \A u \in pending' : k'.waits[u] \notin Stands
      BY <1>1, <1>2, <1>5, <2>1 DEF InQueue, Stands, Sends
    <2>3. ChannelInductive'
      BY <1>1, <1>2, <1>3, <2>1, <2>2, QuietButUpcalls
    <2> QED
      BY <2>1, <2>3 DEF InTime
  <1> QED
    BY <1>4, <1>5

\* The entry of the upcall.
LEMMA EnterUpcallStep ==
  ASSUME ChannelInductive, NEW t \in Threads, EnterUpcall(t)
  PROVE ChannelInductive' /\ InTime
  <1>1. pending' = pending \ {t} /\ UNCHANGED <<k, table, life, index, stage, given, request>>
    BY DEF EnterUpcall
  <1>2. pending' \in SUBSET Threads /\ \A u \in pending' : k'.waits[u] \notin Stands
    BY <1>1 DEF ChannelInductive, ThreadType, NoSleepOnUpcall, InQueue, Stands, Sends
  <1>3. Sound(k', 0, 0, 0) /\ Placed(k')
    BY <1>1 DEF ChannelInductive
  <1>4. ChannelInductive'
    BY <1>1, <1>2, <1>3, QuietButUpcalls
  <1> QED
    BY <1>1, <1>4 DEF InTime

\* A stage of a process goes on.
LEMMA StageGoes ==
  ASSUME ChannelInductive, NEW p \in Procs, NEW s \in {"whole", "threads", "replies", "handles", "gone"},
         stage' = [stage EXCEPT ![p] = s], UNCHANGED <<k, table, life, index, pending, given, request>>,
         s \in {"replies", "handles", "gone"} => \A t \in Threads : Of[t] = p => life[t] # "live"
  PROVE ChannelInductive' /\ InTime
  <1>1. stage \in [Procs -> {"whole", "threads", "replies", "handles", "gone"}]
    BY DEF ChannelInductive, ThreadType
  <1>2. \A q \in Procs : stage'[q] = IF q = p THEN s ELSE stage[q]
    BY <1>1
  <1>3. Stopped'
    <2>1. ASSUME NEW t \in Threads, stage'[Of[t]] \in {"replies", "handles", "gone"} PROVE life[t] # "live"
      <3>1. Of[t] \in Procs
        BY ChannelAssumption
      <3> QED
        BY <1>2, <2>1, <3>1 DEF ChannelInductive, Stopped
    <2> QED
      BY <2>1 DEF Stopped
  <1>4. ThreadType'
    BY <1>1 DEF ChannelInductive, ThreadType
  <1>5. ChannelInductive'
    BY <1>3, <1>4
       DEF ChannelInductive, TableType, Waiting, Holders, TokensOK, NoSleepOnUpcall, InQueue
  <1> QED
    BY <1>5 DEF InTime

\* process_terminate, and the ends of the stages.
LEMMA StageSteps ==
  ASSUME ChannelInductive, NEW p \in Procs,
         EndProcess(p) \/ ThreadsDone(p) \/ RepliesDone(p) \/ HandlesDone(p)
  PROVE ChannelInductive' /\ InTime
  <1>1. CASE EndProcess(p)
    <2>1. stage' = [stage EXCEPT ![p] = "threads"] /\ UNCHANGED <<k, table, life, index, pending, given, request>>
      BY <1>1 DEF EndProcess
    <2> QED
      BY <2>1, StageGoes
  <1>2. CASE ThreadsDone(p)
    <2>1. /\ stage' = [stage EXCEPT ![p] = "replies"] /\ UNCHANGED <<k, table, life, index, pending, given, request>>
          /\ \A t \in Threads : Of[t] = p => life[t] # "live"
      BY <1>2 DEF ThreadsDone
    <2> QED
      BY <2>1, StageGoes
  <1>3. ASSUME stage[p] \in {"replies", "handles"} PROVE \A t \in Threads : Of[t] = p => life[t] # "live"
    BY <1>3 DEF ChannelInductive, Stopped
  <1>4. CASE RepliesDone(p)
    <2>1. /\ stage' = [stage EXCEPT ![p] = "handles"] /\ UNCHANGED <<k, table, life, index, pending, given, request>>
          /\ stage[p] \in {"replies", "handles"}
      BY <1>4 DEF RepliesDone
    <2> QED
      BY <1>3, <2>1, StageGoes
  <1>5. CASE HandlesDone(p)
    <2>1. /\ stage' = [stage EXCEPT ![p] = "gone"] /\ UNCHANGED <<k, table, life, index, pending, given, request>>
          /\ stage[p] \in {"replies", "handles"}
      BY <1>5 DEF HandlesDone
    <2> QED
      BY <1>3, <2>1, StageGoes
  <1> QED
    BY <1>1, <1>2, <1>4, <1>5

\* The portion of a thread that ended.
LEMMA CleanThreadStep ==
  ASSUME ChannelInductive, NEW t \in Threads, CleanThread(t)
  PROVE ChannelInductive' /\ InTime
  <1>1. /\ life[t] = "ended" /\ index[t] = NoNumber /\ life' = [life EXCEPT ![t] = "none"]
        /\ k' = DropTransit(k, t) /\ UNCHANGED <<table, index, stage, pending, given, request>>
    BY DEF CleanThread
  <1>2. Sound(k, 0, 0, 0) /\ Placed(k) /\ StateType(k)
    BY DEF ChannelInductive, Sound, Firm
  <1>3. /\ Sound(k', 0, 0, 0) /\ Placed(k') /\ k'.transit = [k.transit EXCEPT ![t] = {}]
        /\ k'.handles = k.handles /\ k'.accepted = k.accepted /\ Ended(k, k')
    <2>1. PICK y : y = DropTransit(k, t)
      OBVIOUS
    <2>2. /\ Sound(y, 0, 0, 0) /\ Placed(y)
          /\ y.transit = [k.transit EXCEPT ![t] = {}]
          /\ y.handles = k.handles /\ y.accepted = k.accepted /\ Ended(k, y)
      BY ONLY <1>2, <2>1, t \in Threads, 0 \in Nat, SoundDropTransit
    <2> QED
      BY <1>1, <2>1, <2>2
  <1>4. \A u \in Threads : k'.transit[u] = IF u = t THEN {} ELSE k.transit[u]
    BY <1>2, <1>3 DEF StateType
  <1>5. \A u \in Threads : life'[u] = IF u = t THEN "none" ELSE life[u]
    BY <1>1 DEF ChannelInductive, ThreadType
  <1>6. Waiting'
    <2>1. ASSUME NEW u \in Threads, k'.waits[u] # NoWait PROVE life'[u] = "live"
      <3>1. life[u] = "live"
        BY <1>3, <2>1 DEF ChannelInductive, Waiting, Ended
      <3> QED
        BY <1>1, <1>5, <3>1
    <2>2. ASSUME NEW u \in Threads, k'.transit[u] # {} PROVE life'[u] = "ended" \/ k'.waits[u] \in Sends
      <3>1. u # t /\ (life[u] = "ended" \/ k.waits[u] \in Sends)
        BY <1>4, <2>2 DEF ChannelInductive, Waiting
      <3> QED
        BY <1>3, <1>5, <3>1, StandKinds DEF Ended
    <2>3. ASSUME NEW u \in Threads, NEW q \in Procs, u \in k'.accepted[q] PROVE k'.waits[u] = ForReply(q)
      BY <1>3, <2>3, WaitKinds DEF ChannelInductive, Waiting, Ended
    <2> QED
      BY <2>1, <2>2, <2>3 DEF Waiting
  <1>7. TokensOK'
    <2>1. ASSUME NEW u \in Threads, NEW q \in Procs, k'.waits[u] = ForReply(q)
          PROVE request'[u] = <<index'[u], table'.count[index'[u]]>>
      BY <1>1, <1>3, <2>1, WaitKinds DEF ChannelInductive, TokensOK, Ended
    <2>2. ASSUME NEW u \in Threads, k'.waits[u] \in Sends PROVE table'.count[index'[u]] # MAX_COUNT
      BY <1>1, <1>3, <2>2, StandKinds, WaitKinds DEF ChannelInductive, TokensOK, Ended
    <2>3. \A n \in Numbers, c \in 0 .. MAX_COUNT : <<n, c>> \in given' => c <= table'.count[n]
      BY <1>1 DEF ChannelInductive, TokensOK
    <2> QED
      BY <2>1, <2>2, <2>3 DEF TokensOK
  <1>8. NoSleepOnUpcall'
    <2>1. ASSUME NEW u \in pending' PROVE k'.waits[u] \notin Stands
      <3>1. u \in Threads /\ k.waits[u] \notin Stands
        BY <1>1, <2>1 DEF ChannelInductive, NoSleepOnUpcall, ThreadType, InQueue, Stands, Sends
      <3> QED
        BY <1>3, <3>1, StandKinds DEF Ended
    <2> QED
      BY <2>1 DEF NoSleepOnUpcall, InQueue, Stands, Sends
  <1>9. Holders' /\ TableType'
    BY <1>1, <1>5 DEF ChannelInductive, Holders, TableType
  <1>10. ThreadType' /\ Stopped'
    BY <1>1, <1>5 DEF ChannelInductive, ThreadType, Stopped
  <1>11. ChannelInductive'
    BY <1>3, <1>6, <1>7, <1>8, <1>9, <1>10 DEF ChannelInductive
  <1> QED
    BY <1>3, <1>11 DEF InTime


-----------------------------------------------------------------------------
(* Numbers come and go.                                                    *)

\* A sequence with one more element at its end.
LEMMA AppendFacts ==
  ASSUME NEW q \in Seq(Numbers), Distinct(q), NEW e \in Numbers, e \notin Elems(q),
         NEW r, r = Append(q, e)
  PROVE r \in Seq(Numbers) /\ Elems(r) = Elems(q) \cup {e} /\ Distinct(r)
  <1>1. r \in Seq(Numbers) /\ Len(r) = Len(q) + 1 /\ Len(q) \in Nat
    OBVIOUS
  <1>2. \A i \in 1..Len(r) : r[i] = IF i = Len(q) + 1 THEN e ELSE q[i]
    OBVIOUS
  <1>3. Elems(r) = Elems(q) \cup {e}
    <2>1. ASSUME NEW i \in 1..Len(r) PROVE r[i] \in Elems(q) \cup {e}
      <3>1. i = Len(q) + 1 \/ i \in 1..Len(q)
        BY <1>1
      <3> QED
        BY <1>1, <1>2, <3>1 DEF Elems
    <2>2. ASSUME NEW i \in 1..Len(q) PROVE q[i] \in Elems(r)
      <3>1. i \in 1..Len(r) /\ r[i] = q[i]
        BY <1>1, <1>2
      <3> QED
        BY <3>1 DEF Elems
    <2>3. e \in Elems(r)
      <3>1. Len(q) + 1 \in 1..Len(r) /\ r[Len(q) + 1] = e
        BY <1>1, <1>2
      <3> QED
        BY <3>1 DEF Elems
    <2> QED
      BY <2>1, <2>2, <2>3 DEF Elems
  <1>4. Distinct(r)
    <2>1. \A i \in 1..Len(q) : q[i] # e
      BY DEF Elems
    <2>2. ASSUME NEW i \in 1..Len(r), NEW j \in 1..Len(r), r[i] = r[j] PROVE i = j
      <3>1. (i = Len(q) + 1 \/ i \in 1..Len(q)) /\ (j = Len(q) + 1 \/ j \in 1..Len(q))
        BY <1>1
      <3> QED
        BY <1>2, <2>1, <2>2, <3>1 DEF Distinct
    <2> QED
      BY <2>2 DEF Distinct
  <1> QED
    BY <1>1, <1>3, <1>4

\* What a number that comes back makes of the table.
LEMMA FreeNumberEffect ==
  ASSUME NEW tb, IsTable(tb), Distinct(tb.free), NEW n \in Numbers, n \notin Elems(tb.free),
         NEW new, new = FreeNumber(tb, n)
  PROVE /\ IsTable(new) /\ new.count = tb.count /\ new.used = tb.used
        /\ \A m \in Numbers : new.holder[m] = IF m = n THEN None ELSE tb.holder[m]
        /\ Distinct(new.free) /\ Elems(new.free) \subseteq Elems(tb.free) \cup {n}
  <1>1. /\ tb = [f \in {"count", "dead", "holder", "used", "free"} |-> tb[f]]
        /\ tb.holder \in [Numbers -> Threads \cup {None}] /\ tb.free \in Seq(Numbers)
    BY DEF IsTable
  <1>2. /\ new = [f \in {"count", "dead", "holder", "used", "free"} |-> new[f]]
        /\ new.count = tb.count /\ new.dead = tb.dead /\ new.used = tb.used
        /\ new.holder = [tb.holder EXCEPT ![n] = None]
        /\ new.free = IF tb.count[n] = MAX_COUNT THEN tb.free ELSE Append(tb.free, n)
    BY <1>1 DEF FreeNumber
  <1>3. new.free \in Seq(Numbers) /\ Distinct(new.free) /\ Elems(new.free) \subseteq Elems(tb.free) \cup {n}
    <2>1. PICK r : r = Append(tb.free, n)
      OBVIOUS
    <2>2. r \in Seq(Numbers) /\ Elems(r) = Elems(tb.free) \cup {n} /\ Distinct(r)
      <3>1. PICK q \in Seq(Numbers) : q = tb.free
        BY <1>1
      <3>2. r = Append(q, n) /\ Distinct(q) /\ n \notin Elems(q)
        BY <2>1, <3>1
      <3>3. r \in Seq(Numbers) /\ Elems(r) = Elems(q) \cup {n} /\ Distinct(r)
        BY ONLY <3>2, q \in Seq(Numbers), n \in Numbers, AppendFacts, Zenon
      <3> QED
        BY <3>1, <3>3
    <2> QED
      BY <1>1, <1>2, <2>1, <2>2
  <1>4. new.holder \in [Numbers -> Threads \cup {None}]
    BY <1>1, <1>2
  <1>5. IsTable(new)
    BY <1>2, <1>3, <1>4 DEF IsTable
  <1>6. \A m \in Numbers : new.holder[m] = IF m = n THEN None ELSE tb.holder[m]
    BY <1>1, <1>2
  <1> QED
    BY <1>2, <1>3, <1>5, <1>6

\* A thread that is not live gives its number back.
LEMMA NumberFreed ==
  ASSUME ThreadType, Holders, NEW t \in Threads, index[t] \in Numbers,
         NEW tb, IsTable(tb), tb.count = table.count, tb.holder = table.holder,
         tb.used = table.used, tb.free = table.free,
         table' = FreeNumber(tb, index[t]), index' = [index EXCEPT ![t] = NoNumber],
         \A u \in Threads \ {t} : life'[u] = life[u], life'[t] # "live"
  PROVE /\ TableType' /\ Holders' /\ table'.count = table.count
        /\ index' \in [Threads -> Numbers \cup {NoNumber}]
        /\ \A u \in Threads \ {t} : index'[u] = index[u]
  <1>1. PICK n \in Numbers : n = index[t]
    OBVIOUS
  <1>2. table.holder[n] = t /\ t # None
    BY <1>1, ChannelAssumption DEF Holders
  <1>3. n \notin Elems(tb.free) /\ Distinct(tb.free)
    BY <1>2 DEF Holders
  <1>4. n < table.used
    <2>1. table.used \in Int /\ n \in Int
      BY DEF IsTable, Numbers
    <2> QED
      BY <1>2, <2>1 DEF Holders
  <1>5. PICK new : new = FreeNumber(tb, n)
    OBVIOUS
  <1>6. table' = new
    BY <1>1, <1>5
  <1>7. /\ IsTable(new) /\ new.count = tb.count /\ new.used = tb.used
        /\ \A m \in Numbers : new.holder[m] = IF m = n THEN None ELSE tb.holder[m]
        /\ Distinct(new.free) /\ Elems(new.free) \subseteq Elems(tb.free) \cup {n}
    BY <1>3, <1>5, FreeNumberEffect
  <1>8. /\ index' \in [Threads -> Numbers \cup {NoNumber}]
        /\ \A u \in Threads : index'[u] = IF u = t THEN NoNumber ELSE index[u]
    BY DEF ThreadType
  <1>9. NoNumber \notin Numbers
    BY DEF NoNumber, Numbers
  <1>10. Holders'
    <2>1. ASSUME NEW u \in Threads, NEW m \in Numbers PROVE index'[u] = m <=> table'.holder[m] = u
      <3>1. CASE u = t
        <4>1. index'[u] # m
          BY <1>8, <1>9, <3>1
        <4>2. table'.holder[m] # u
          <5>1. table.holder[m] = t => m = n
            BY <1>1 DEF Holders
          <5> QED
            BY <1>2, <1>6, <1>7, <3>1, <5>1
        <4> QED
          BY <4>1, <4>2
      <3>2. CASE u # t
        <4>1. index'[u] = m <=> table.holder[m] = u
          BY <1>8, <3>2 DEF Holders
        <4>2. u # None
          BY ChannelAssumption
        <4>3. table'.holder[m] = u <=> table.holder[m] = u
          BY <1>2, <1>6, <1>7, <3>2, <4>2
        <4> QED
          BY <4>1, <4>3
      <3> QED
        BY <3>1, <3>2
    <2>2. ASSUME NEW u \in Threads PROVE /\ life'[u] = "live" => index'[u] # NoNumber
                                         /\ life'[u] = "none" => index'[u] = NoNumber
      BY <1>8 DEF Holders
    <2>3. ASSUME NEW m \in Elems(table'.free) PROVE m < table'.used /\ table'.holder[m] = None
      <3>1. m = n \/ m \in Elems(table.free)
        BY <1>6, <1>7
      <3>2. m < table.used
        BY <1>4, <3>1 DEF Holders
      <3>3. m \in Numbers
        <4>1. table.free \in Seq(Numbers)
          BY DEF IsTable
        <4> QED
          BY <3>1, <4>1, ElemsFacts
      <3>4. m = n \/ table.holder[m] = None
        BY <3>1 DEF Holders
      <3> QED
        BY <1>6, <1>7, <3>2, <3>3, <3>4
    <2>4. ASSUME NEW m \in Numbers, m >= table'.used PROVE table'.holder[m] = None
      BY <1>6, <1>7, <2>4 DEF Holders
    <2> QED
      BY <1>6, <1>7, <2>1, <2>2, <2>3, <2>4 DEF Holders
  <1> QED
    BY <1>6, <1>7, <1>8, <1>10 DEF TableType

\* The CPU of a thread that ended ends it.
LEMMA ServeExitStep ==
  ASSUME ChannelInductive, NEW t \in Threads, ServeExit(t)
  PROVE ChannelInductive' /\ InTime
  <1>0. TableType /\ ThreadType /\ Holders /\ TokensOK /\ Waiting
    BY DEF ChannelInductive
  <1>1. /\ life[t] = "ended" /\ index[t] # NoNumber
        /\ table' = FreeNumber(table, index[t]) /\ index' = [index EXCEPT ![t] = NoNumber]
        /\ UNCHANGED <<k, life, stage, pending, given, request>>
    BY DEF ServeExit
  <1>2. index[t] \in Numbers
    BY <1>0, <1>1 DEF ThreadType
  <1>3. /\ TableType' /\ Holders' /\ table'.count = table.count
        /\ index' \in [Threads -> Numbers \cup {NoNumber}]
        /\ \A u \in Threads \ {t} : index'[u] = index[u]
    <2>1. PICK tb : tb = table
      OBVIOUS
    <2>2. /\ IsTable(tb) /\ tb.count = table.count /\ tb.holder = table.holder /\ tb.used = table.used
          /\ tb.free = table.free /\ table' = FreeNumber(tb, index[t]) /\ life'[t] # "live"
          /\ \A u \in Threads \ {t} : life'[u] = life[u]
      BY <1>0, <1>1, <2>1 DEF TableType
    <2> QED
      BY <1>0, <1>1, <1>2, <2>2, NumberFreed
  <1>4. k.waits[t] = NoWait
    BY <1>0, <1>1 DEF Waiting
  <1>5. TokensOK'
    <2>1. ASSUME NEW u \in Threads, NEW q \in Procs, k'.waits[u] = ForReply(q)
          PROVE request'[u] = <<index'[u], table'.count[index'[u]]>>
      <3>1. u # t
        BY <1>1, <1>4, <2>1, WaitKinds
      <3> QED
        BY <1>0, <1>1, <1>3, <2>1, <3>1 DEF TokensOK
    <2>2. ASSUME NEW u \in Threads, k'.waits[u] \in Sends PROVE table'.count[index'[u]] # MAX_COUNT
      <3>1. u # t
        BY <1>1, <1>4, <2>2, StandKinds, WaitKinds
      <3> QED
        BY <1>0, <1>1, <1>3, <2>2, <3>1 DEF TokensOK
    <2>3. \A n \in Numbers, c \in 0 .. MAX_COUNT : <<n, c>> \in given' => c <= table'.count[n]
      BY <1>0, <1>1, <1>3 DEF TokensOK
    <2> QED
      BY <2>1, <2>2, <2>3 DEF TokensOK
  <1>6. ThreadType' /\ Waiting' /\ Stopped' /\ NoSleepOnUpcall'
    BY <1>0, <1>1, <1>3 DEF ChannelInductive, ThreadType, Waiting, Stopped, NoSleepOnUpcall, InQueue
  <1>7. Sound(k', 0, 0, 0) /\ Placed(k')
    BY <1>1 DEF ChannelInductive
  <1>8. ChannelInductive'
    BY <1>3, <1>5, <1>6, <1>7 DEF ChannelInductive
  <1> QED
    BY <1>1, <1>8 DEF InTime


\* A thread takes a number that nobody has.
LEMMA NumberTaken ==
  ASSUME TableType, ThreadType, Holders, NEW t \in Threads, life[t] = "none", Alloc(t),
         life' = [life EXCEPT ![t] = "live"]
  PROVE /\ TableType' /\ Holders' /\ table'.count = table.count
        /\ index' \in [Threads -> Numbers \cup {NoNumber}]
        /\ \A u \in Threads \ {t} : index'[u] = index[u]
  <1> DEFINE new == table.used < N
             n == IF new THEN table.used ELSE Head(table.free)
  <1>1. /\ table = [f \in {"count", "dead", "holder", "used", "free"} |-> table[f]]
        /\ table.count \in [Numbers -> 0 .. MAX_COUNT] /\ table.dead \in SUBSET Numbers
        /\ table.holder \in [Numbers -> Threads \cup {None}]
        /\ table.used \in 0 .. N /\ table.free \in Seq(Numbers)
    BY DEF TableType, IsTable
  <1>2. /\ new \/ table.free # <<>>
        /\ table' = [table EXCEPT !.used = IF new THEN @ + 1 ELSE @,
                                  !.free = IF new THEN @ ELSE Tail(@),
                                  !.holder[n] = t, !.dead = @ \ {n}]
        /\ index' = [index EXCEPT ![t] = n]
    BY DEF Alloc
  <1>3. /\ table' = [f \in {"count", "dead", "holder", "used", "free"} |-> table'[f]]
        /\ table'.count = table.count /\ table'.dead = table.dead \ {n}
        /\ table'.holder = [table.holder EXCEPT ![n] = t]
        /\ table'.used = IF new THEN table.used + 1 ELSE table.used
        /\ table'.free = IF new THEN table.free ELSE Tail(table.free)
    BY <1>1, <1>2
  <1>4. Distinct(table.free) /\ index[t] = NoNumber /\ NoNumber \notin Numbers /\ N \in Nat /\ t # None
    BY ChannelAssumption DEF Holders, NoNumber, Numbers
  <1>5. /\ n \in Numbers /\ table.holder[n] = None
        /\ table'.free \in Seq(Numbers) /\ Distinct(table'.free) /\ table'.used \in 0 .. N
        /\ Elems(table'.free) \subseteq Elems(table.free) \ {n}
        /\ n < table'.used /\ table.used <= table'.used
    <2>1. CASE new
      <3>1. n = table.used /\ n \in Numbers
        BY <1>1, <1>4, <2>1 DEF Numbers
      <3>2. table.holder[n] = None
        BY <1>1, <3>1 DEF Holders
      <3>3. n \notin Elems(table.free)
        <4>1. n \in Elems(table.free) => n < table.used
          BY DEF Holders
        <4> QED
          BY <1>1, <3>1, <4>1
      <3>4. table'.free = table.free /\ table'.used = table.used + 1 /\ table'.used \in 0 .. N
        BY <1>1, <1>3, <1>4, <2>1
      <3>5. n < table'.used /\ table.used <= table'.used
        BY <1>1, <3>1, <3>4
      <3> QED
        BY <1>1, <1>4, <3>1, <3>2, <3>3, <3>4, <3>5
    <2>2. CASE ~new
      <3>1. n = Head(table.free) /\ table.free # <<>> /\ table'.free = Tail(table.free) /\ table'.used = table.used
        BY <1>2, <1>3, <2>2
      <3> HIDE DEF n, new
      <3>2. PICK q \in Seq(Numbers) : q = table.free
        BY <1>1
      <3>3. PICK r : r = Tail(q)
        OBVIOUS
      <3>4. Distinct(q) /\ q # <<>> /\ n = Head(q) /\ table'.free = r
        BY <1>4, <3>1, <3>2, <3>3
      <3>5. /\ r \in Seq(Numbers) /\ Distinct(r) /\ Elems(r) = Elems(q) \ {Head(q)}
            /\ Head(q) \in Numbers /\ Head(q) \in Elems(q)
        BY ONLY <3>3, <3>4, q \in Seq(Numbers), TailFacts
      <3>6. n < table.used /\ table.holder[n] = None
        BY <3>2, <3>4, <3>5 DEF Holders
      <3>7. table.used <= table'.used
        BY <1>1, <3>1
      <3> QED
        BY <1>1, <3>1, <3>2, <3>4, <3>5, <3>6, <3>7
    <2> QED
      BY <2>1, <2>2
  <1> HIDE DEF n, new
  <1>6. /\ index' \in [Threads -> Numbers \cup {NoNumber}]
        /\ \A u \in Threads : index'[u] = IF u = t THEN n ELSE index[u]
    BY <1>2, <1>5 DEF ThreadType
  <1>7. /\ table'.holder \in [Numbers -> Threads \cup {None}]
        /\ \A m \in Numbers : table'.holder[m] = IF m = n THEN t ELSE table.holder[m]
    BY <1>1, <1>3, <1>5
  <1>8. TableType'
    BY <1>1, <1>3, <1>5, <1>7 DEF TableType, IsTable
  <1>9. \A u \in Threads : life'[u] = IF u = t THEN "live" ELSE life[u]
    BY DEF ThreadType
  <1>10. Holders'
    <2>1. ASSUME NEW u \in Threads, NEW m \in Numbers PROVE index'[u] = m <=> table'.holder[m] = u
      <3>1. index[u] = m <=> table.holder[m] = u
        BY DEF Holders
      <3>2. u # None
        BY ChannelAssumption
      <3>3. CASE u = t
        <4>1. table.holder[m] # t
          BY <1>4, <3>1, <3>3
        <4> QED
          BY <1>6, <1>7, <3>3, <4>1
      <3>4. CASE u # t
        <4>1. m = n => index[u] # m
          BY <1>5, <3>1, <3>2
        <4> QED
          BY <1>6, <1>7, <3>1, <3>4, <4>1
      <3> QED
        BY <3>3, <3>4
    <2>2. ASSUME NEW u \in Threads PROVE /\ life'[u] = "live" => index'[u] # NoNumber
                                         /\ life'[u] = "none" => index'[u] = NoNumber
      BY <1>4, <1>5, <1>6, <1>9 DEF Holders
    <2>3. ASSUME NEW m \in Elems(table'.free) PROVE m < table'.used /\ table'.holder[m] = None
      <3>1. m \in Elems(table.free) /\ m # n
        BY <1>5
      <3>2. m \in Numbers
        BY <1>1, <3>1, ElemsFacts
      <3>3. m < table.used /\ table.holder[m] = None
        BY <3>1 DEF Holders
      <3>4. m < table'.used
        BY <1>1, <1>5, <3>2, <3>3 DEF Numbers
      <3> QED
        BY <1>7, <3>1, <3>2, <3>3, <3>4
    <2>4. ASSUME NEW m \in Numbers, m >= table'.used PROVE table'.holder[m] = None
      <3>1. m >= table.used /\ m # n
        BY <1>1, <1>5, <2>4 DEF Numbers
      <3> QED
        BY <1>7, <3>1 DEF Holders
    <2> QED
      BY <1>5, <2>1, <2>2, <2>3, <2>4 DEF Holders
  <1> QED
    BY <1>3, <1>6, <1>8, <1>10

\* thread_create.
LEMMA CreateStep ==
  ASSUME ChannelInductive, NEW t \in Threads, Create(t)
  PROVE ChannelInductive' /\ InTime
  <1>0. TableType /\ ThreadType /\ Holders /\ TokensOK /\ Waiting
    BY DEF ChannelInductive
  <1>1. /\ life[t] = "none" /\ stage[Of[t]] = "whole" /\ Alloc(t) /\ life' = [life EXCEPT ![t] = "live"]
        /\ UNCHANGED <<k, stage, pending, given, request>>
    BY DEF Create
  <1>2. /\ TableType' /\ Holders' /\ table'.count = table.count
        /\ index' \in [Threads -> Numbers \cup {NoNumber}]
        /\ \A u \in Threads \ {t} : index'[u] = index[u]
    BY <1>0, <1>1, NumberTaken
  <1>3. \A u \in Threads : life'[u] = IF u = t THEN "live" ELSE life[u]
    BY <1>0, <1>1 DEF ThreadType
  <1>4. k.waits[t] = NoWait
    BY <1>0, <1>1 DEF Waiting
  <1>5. TokensOK'
    <2>1. ASSUME NEW u \in Threads, NEW q \in Procs, k'.waits[u] = ForReply(q)
          PROVE request'[u] = <<index'[u], table'.count[index'[u]]>>
      <3>1. u # t
        BY <1>1, <1>4, <2>1, WaitKinds
      <3> QED
        BY <1>0, <1>1, <1>2, <2>1, <3>1 DEF TokensOK
    <2>2. ASSUME NEW u \in Threads, k'.waits[u] \in Sends PROVE table'.count[index'[u]] # MAX_COUNT
      <3>1. u # t
        BY <1>1, <1>4, <2>2, StandKinds, WaitKinds
      <3> QED
        BY <1>0, <1>1, <1>2, <2>2, <3>1 DEF TokensOK
    <2>3. \A n \in Numbers, c \in 0 .. MAX_COUNT : <<n, c>> \in given' => c <= table'.count[n]
      BY <1>0, <1>1, <1>2 DEF TokensOK
    <2> QED
      BY <2>1, <2>2, <2>3 DEF TokensOK
  <1>6. ThreadType' /\ NoSleepOnUpcall'
    BY <1>0, <1>1, <1>2 DEF ChannelInductive, ThreadType, NoSleepOnUpcall, InQueue
  <1>7. Waiting'
    <2>1. ASSUME NEW u \in Threads, k'.waits[u] # NoWait PROVE life'[u] = "live"
      BY <1>0, <1>1, <1>3, <2>1 DEF Waiting
    <2>2. ASSUME NEW u \in Threads, k'.transit[u] # {} PROVE life'[u] = "ended" \/ k'.waits[u] \in Sends
      <3>1. life[u] = "ended" \/ k.waits[u] \in Sends
        BY <1>0, <1>1, <2>2 DEF Waiting
      <3>2. u # t
        BY <1>1, <1>4, <3>1, StandKinds, WaitKinds
      <3> QED
        BY <1>1, <1>3, <3>1, <3>2
    <2>3. \A u \in Threads, q \in Procs : u \in k'.accepted[q] => k'.waits[u] = ForReply(q)
      BY <1>0, <1>1 DEF Waiting
    <2> QED
      BY <2>1, <2>2, <2>3 DEF Waiting
  <1>8. Stopped'
    <2>1. ASSUME NEW u \in Threads, stage'[Of[u]] \in {"replies", "handles", "gone"} PROVE life'[u] # "live"
      <3>1. stage[Of[u]] \in {"replies", "handles", "gone"}
        BY <1>1, <2>1
      <3>2. u # t
        BY <1>1, <3>1
      <3> QED
        BY <1>3, <3>1, <3>2 DEF ChannelInductive, Stopped
    <2> QED
      BY <2>1 DEF Stopped
  <1>9. Sound(k', 0, 0, 0) /\ Placed(k')
    BY <1>1 DEF ChannelInductive
  <1>10. ChannelInductive'
    BY <1>2, <1>5, <1>6, <1>7, <1>8, <1>9 DEF ChannelInductive
  <1> QED
    BY <1>1, <1>10 DEF InTime

\* What sched::exit does with the wait of a thread.
LEMMA WaitCancelled ==
  ASSUME ChannelInductive, NEW t \in Threads, NEW y, y = CancelWait(t)
  PROVE /\ Sound(y, 0, 0, 0) /\ Placed(y) /\ EndedBut(k, y, t)
        /\ y.transit = k.transit /\ y.handles = k.handles
        /\ \A p \in Procs : y.accepted[p] \subseteq k.accepted[p] /\ t \notin y.accepted[p]
  <1>1. Sound(k, 0, 0, 0) /\ Placed(k) /\ IsState(k) /\ StateType(k)
    BY DEF ChannelInductive, Sound, Firm, StateType
  <1>2. CASE InQueue(t)
    <2> DEFINE u == Withdraw(k, t)
    <2>1. PICK w \in Stands : w = k.waits[t]
      BY <1>2 DEF InQueue, Stands, Sends
    <2>2. /\ Sound(u, 0, HeldSession(w), HeldChannel(w))
          /\ Keeps(k, u, {"queue", "waits"}) /\ u.waits = [k.waits EXCEPT ![t] = NoWait]
      BY <1>1, <2>1, SoundWithdraw
    <2>3. y = LetGo(u, WaitedVia(t))
      BY <1>2 DEF CancelWait
    <2> HIDE DEF u
    <2>4. PICK via : via = WaitedVia(t)
      OBVIOUS
    <2>5. via = (IF w = InReceive THEN "channel" ELSE w[2]) /\ y = LetGo(u, via)
      BY <2>1, <2>3, <2>4 DEF WaitedVia
    <2>6. Sound(y, 0, 0, 0) /\ Frame(u, y)
      BY ONLY <2>2, <2>5, w \in Stands, SoundWaitGoes
    <2>7. u.transit = k.transit /\ u.handles = k.handles /\ u.accepted = k.accepted
      BY <2>2, Kept
    <2>8. \A v \in Threads : u.waits[v] = IF v = t THEN NoWait ELSE k.waits[v]
      BY <1>1, <2>2 DEF StateType
    <2>9. EndedBut(k, y, t)
      BY <2>6, <2>8, WaitKinds DEF EndedBut, Frame, Ended
    <2>10. \A p \in Procs : t \notin k.accepted[p]
      BY <2>1, StandKinds DEF ChannelInductive, Waiting
    <2>11. Placed(y)
      BY <1>1, <2>6, <2>7, SamePlaces DEF Frame
    <2> QED
      BY <2>6, <2>7, <2>9, <2>10, <2>11 DEF Frame
  <1>3. CASE ~InQueue(t)
    <2> DEFINE z == [k EXCEPT !.waits = [k.waits EXCEPT ![t] = NoWait]]
    <2>1. y = [k EXCEPT !.waits = [k.waits EXCEPT ![t] = NoWait],
                        !.accepted = [p \in Procs |-> k.accepted[p] \ {t}]]
      BY <1>3 DEF CancelWait
    <2>2. Keeps(k, z, {"waits"}) /\ z.waits = [k.waits EXCEPT ![t] = NoWait]
      BY <1>1 DEF IsState, Fields, Keeps
    <2> HIDE DEF z
    <2>3. /\ Keeps(k, y, {"waits", "accepted"}) /\ y.waits = z.waits
          /\ y.accepted = [p \in Procs |-> k.accepted[p] \ {t}]
      BY <1>1, <2>1, <2>2 DEF IsState, Fields, Keeps
    <2>4. Sound(z, 0, 0, 0)
      <3>1. NoWait \in Waits /\ NoWait \notin Stands /\ k.waits[t] \notin Stands
        BY <1>3, StandKinds DEF InQueue, Stands, Sends
      <3> QED
        BY ONLY <1>1, <2>2, <3>1, t \in Threads, 0 \in Int, SoundOther
    <2>5. Keeps(z, y, {"handles", "transit", "accepted"})
      BY <2>2, <2>3 DEF Keeps
    <2>6. y.handles = k.handles /\ y.transit = k.transit
      BY <2>3, Kept
    <2>7. z.handles = k.handles /\ z.transit = k.transit
      BY <2>2, Kept
    <2>8. /\ y.handles \in [Procs -> SUBSET Handles] /\ y.transit \in [Threads -> SUBSET Handles]
          /\ y.accepted \in [Procs -> SUBSET Threads] /\ All(y) = All(z)
      <3>1. All(y) = All(z)
        BY <2>6, <2>7, SameHandles
      <3> QED
        BY <1>1, <2>3, <2>6, <3>1 DEF StateType
    <2>9. Sound(y, 0, 0, 0)
      BY ONLY <2>4, <2>5, <2>8, 0 \in Int, SoundHandlesMove
    <2>10. EndedBut(k, y, t)
      BY <1>1, <2>2, <2>3 DEF EndedBut, StateType
    <2>11. Placed(y)
      BY <1>1, <2>6, SamePlaces
    <2>12. \A p \in Procs : y.accepted[p] \subseteq k.accepted[p] /\ t \notin y.accepted[p]
      BY <2>3
    <2> QED
      BY <2>6, <2>9, <2>10, <2>11, <2>12
  <1> QED
    BY <1>2, <1>3

\* And with its number.
LEMMA TableCancelled ==
  ASSUME TableType, NEW t \in Threads, index[t] \in Numbers, NEW tb, tb = CancelTable(t)
  PROVE /\ IsTable(tb) /\ tb.count = table.count /\ tb.holder = table.holder
        /\ tb.used = table.used /\ tb.free = table.free
  <1>1. IsTable(table)
    BY DEF TableType
  <1>2. PICK md : md = MarkDead(table, index[t])
    OBVIOUS
  <1>3. /\ md = [f \in {"count", "dead", "holder", "used", "free"} |-> md[f]]
        /\ md.count = table.count /\ md.holder = table.holder
        /\ md.used = table.used /\ md.free = table.free /\ md.dead = table.dead \cup {index[t]}
    BY <1>1, <1>2 DEF IsTable, MarkDead
  <1>4. IsTable(md)
    BY <1>1, <1>3 DEF IsTable
  <1>5. tb = md \/ tb = table
    BY <1>2 DEF CancelTable
  <1> QED
    BY <1>1, <1>3, <1>4, <1>5

\* sched::exit.
LEMMA ExitStep ==
  ASSUME ChannelInductive, NEW t \in Threads, Exit(t)
  PROVE ChannelInductive' /\ InTime /\ Once
  <1>0. TableType /\ ThreadType /\ Holders /\ TokensOK /\ Waiting
    BY DEF ChannelInductive
  <1>1. /\ life[t] = "live" /\ life' = [life EXCEPT ![t] = "ended"] /\ k' = CancelWait(t)
        /\ \/ /\ table' = FreeNumber(CancelTable(t), index[t])
              /\ index' = [index EXCEPT ![t] = NoNumber]
           \/ table' = CancelTable(t) /\ UNCHANGED index
        /\ request' = [request EXCEPT ![t] = NoToken] /\ pending' = pending \ {t}
        /\ UNCHANGED <<stage, given>>
    BY DEF Exit, Calls
  <1>2. index[t] \in Numbers
    BY <1>0, <1>1, OwnNumber
  <1>3. /\ \A u \in Threads : life'[u] = IF u = t THEN "ended" ELSE life[u]
        /\ \A u \in Threads : request'[u] = IF u = t THEN NoToken ELSE request[u]
    BY <1>0, <1>1 DEF ThreadType
  <1>4. /\ TableType' /\ Holders' /\ table'.count = table.count
        /\ index' \in [Threads -> Numbers \cup {NoNumber}]
        /\ \A u \in Threads \ {t} : index'[u] = index[u]
    <2>1. PICK tb : tb = CancelTable(t)
      OBVIOUS
    <2>2. /\ IsTable(tb) /\ tb.count = table.count /\ tb.holder = table.holder
          /\ tb.used = table.used /\ tb.free = table.free
      BY <1>0, <1>2, <2>1, TableCancelled
    <2>3. CASE table' = FreeNumber(CancelTable(t), index[t]) /\ index' = [index EXCEPT ![t] = NoNumber]
      <3>1. table' = FreeNumber(tb, index[t]) /\ index' = [index EXCEPT ![t] = NoNumber]
        BY <2>1, <2>3
      <3>2. life'[t] # "live" /\ \A u \in Threads \ {t} : life'[u] = life[u]
        BY <1>3
      <3> QED
        BY <1>0, <1>2, <2>2, <3>1, <3>2, NumberFreed
    <2>4. CASE table' = CancelTable(t) /\ UNCHANGED index
      <3>1. table' = tb /\ index' = index
        BY <2>1, <2>4
      <3>2. Holders'
        BY <1>0, <1>3, <2>2, <3>1 DEF Holders
      <3> QED
        BY <1>0, <2>2, <3>1, <3>2 DEF TableType, ThreadType
    <2> QED
      BY <1>1, <2>3, <2>4
  <1>5. /\ Sound(k', 0, 0, 0) /\ Placed(k') /\ EndedBut(k, k', t)
        /\ k'.transit = k.transit /\ k'.handles = k.handles
        /\ \A p \in Procs : k'.accepted[p] \subseteq k.accepted[p] /\ t \notin k'.accepted[p]
    <2>1. PICK y : y = CancelWait(t)
      OBVIOUS
    <2>2. /\ Sound(y, 0, 0, 0) /\ Placed(y) /\ EndedBut(k, y, t)
          /\ y.transit = k.transit /\ y.handles = k.handles
          /\ \A p \in Procs : y.accepted[p] \subseteq k.accepted[p] /\ t \notin y.accepted[p]
      BY <2>1, WaitCancelled
    <2> QED
      BY <1>1, <2>1, <2>2
  <1>6. /\ k'.waits[t] = NoWait
        /\ \A u \in Threads : u # t => k'.waits[u] = k.waits[u] \/ (k.waits[u] = InReceive /\ k'.waits[u] = NoWait)
    BY <1>5 DEF EndedBut
  <1>7. Waiting'
    <2>1. ASSUME NEW u \in Threads, k'.waits[u] # NoWait PROVE life'[u] = "live"
      <3>1. u # t /\ k.waits[u] # NoWait
        BY <1>6, <2>1
      <3> QED
        BY <1>0, <1>3, <3>1 DEF Waiting
    <2>2. ASSUME NEW u \in Threads, k'.transit[u] # {} PROVE life'[u] = "ended" \/ k'.waits[u] \in Sends
      <3>1. life[u] = "ended" \/ k.waits[u] \in Sends
        BY <1>0, <1>5, <2>2 DEF Waiting
      <3>2. k.waits[u] \in Sends => k.waits[u] # InReceive
        BY StandKinds
      <3> QED
        BY <1>3, <1>6, <3>1, <3>2
    <2>3. ASSUME NEW u \in Threads, NEW q \in Procs, u \in k'.accepted[q] PROVE k'.waits[u] = ForReply(q)
      <3>1. u # t /\ k.waits[u] = ForReply(q)
        BY <1>0, <1>5, <2>3 DEF Waiting
      <3> QED
        BY <1>6, <3>1, WaitKinds
    <2> QED
      BY <2>1, <2>2, <2>3 DEF Waiting
  <1>8. TokensOK'
    <2>1. ASSUME NEW u \in Threads, NEW q \in Procs, k'.waits[u] = ForReply(q)
          PROVE request'[u] = <<index'[u], table'.count[index'[u]]>>
      <3>1. u # t /\ k.waits[u] = ForReply(q)
        BY <1>6, <2>1, WaitKinds
      <3>2. request[u] = <<index[u], table.count[index[u]]>>
        BY <1>0, <3>1 DEF TokensOK
      <3> QED
        BY <1>3, <1>4, <3>1, <3>2
    <2>2. ASSUME NEW u \in Threads, k'.waits[u] \in Sends PROVE table'.count[index'[u]] # MAX_COUNT
      <3>1. u # t /\ k.waits[u] \in Sends
        BY <1>6, <2>2, StandKinds, WaitKinds
      <3> QED
        BY <1>0, <1>4, <3>1 DEF TokensOK
    <2>3. \A n \in Numbers, c \in 0 .. MAX_COUNT : <<n, c>> \in given' => c <= table'.count[n]
      BY <1>0, <1>1, <1>4 DEF TokensOK
    <2> QED
      BY <2>1, <2>2, <2>3 DEF TokensOK
  <1>9. NoSleepOnUpcall'
    <2>1. ASSUME NEW u \in pending' PROVE k'.waits[u] \notin Stands
      <3>1. u \in Threads /\ k.waits[u] \notin Stands
        BY <1>0, <1>1, <2>1 DEF ChannelInductive, NoSleepOnUpcall, ThreadType, InQueue, Stands, Sends
      <3> QED
        BY <1>6, <3>1, StandKinds
    <2> QED
      BY <2>1 DEF NoSleepOnUpcall, InQueue, Stands, Sends
  <1>10. ThreadType'
    BY <1>0, <1>1, <1>4 DEF ThreadType
  <1>11. Stopped'
    BY <1>1, <1>3 DEF ChannelInductive, Stopped
  <1>12. ChannelInductive'
    BY <1>4, <1>5, <1>7, <1>8, <1>9, <1>10, <1>11 DEF ChannelInductive
  <1>13. Once
    BY <1>3 DEF Once
  <1> QED
    BY <1>5, <1>12, <1>13 DEF InTime


-----------------------------------------------------------------------------
(* The theorems.                                                           *)

\* channel_create and the copies of its handle satisfy the counts.
LEMMA ChannelInit ==
  ASSUME Init
  PROVE ChannelInductive
  <1> DEFINE F == First
  <1>1. /\ F \in SUBSET Handles /\ F \cap Labelled = {} /\ F \cap Receiving # {}
        /\ Held \in [Procs -> SUBSET Handles]
    BY ChannelAssumption DEF First
  <1>2. /\ k.queue = <<>> /\ k.waiting = FALSE /\ k.closed = FALSE
        /\ k.receivers = Cardinality(F \cap Receiving) /\ k.refs = Cardinality(F)
        /\ k.sources = 1 /\ k.cleanup = "none" /\ k.copies = 0 /\ k.srefs = 0
        /\ k.session = "none" /\ k.told = FALSE /\ k.bits = [s \in Slots |-> {}]
        /\ k.waits = [t \in Threads |-> NoWait] /\ k.transit = [t \in Threads |-> {}]
        /\ k.handles = Held /\ k.accepted = [p \in Procs |-> {}]
    BY DEF Init
  <1>3. IsState(k)
    BY DEF Init, IsState, Fields
  <1>4. All(k) = F
    <2>1. \A t \in Threads : k.transit[t] = {}
      BY <1>2
    <2> QED
      BY <1>2, <2>1 DEF All, First
  <1> HIDE DEF F
  <1>5. /\ Number(k, Receiving) = Cardinality(F \cap Receiving) /\ Number(k, Labelled) = 0
        /\ Number(k, Counted) = Cardinality(F)
    <2>1. F \cap Counted = F
      BY <1>1 DEF Counted
    <2> QED
      BY <1>1, <1>4, <2>1, FS_EmptySet DEF Number
  <1>6. /\ Cardinality(F) \in Nat /\ Cardinality(F) # 0
        /\ Cardinality(F \cap Receiving) \in Nat /\ Cardinality(F \cap Receiving) # 0
    <2>1. F \cap Receiving \in SUBSET Handles /\ F # {}
      BY <1>1
    <2>2. IsFiniteSet(F) /\ IsFiniteSet(F \cap Receiving)
      BY <1>1, <2>1, FS_Subset, ChannelAssumption
    <2> QED
      BY <1>1, <2>1, <2>2, FS_CardinalityType, FS_EmptySet
  <1>7. StateType(k)
    <2>1. k.queue \in Seq(Threads \cup Slots)
      BY <1>2
    <2>2. k.bits \in [Slots -> Bits] /\ k.waits \in [Threads -> Waits]
      BY <1>2, StandKinds DEF Bits
    <2>3. /\ k.transit \in [Threads -> SUBSET Handles] /\ k.handles \in [Procs -> SUBSET Handles]
          /\ k.accepted \in [Procs -> SUBSET Threads]
      BY <1>1, <1>2
    <2> QED
      BY <1>2, <1>3, <1>6, <2>1, <2>2, <2>3 DEF StateType
  <1>8. \A w \in Stands : InWait(k, w) = 0
    <2>1. ASSUME NEW w \in Stands PROVE {t \in Threads : k.waits[t] = w} = {}
      BY <1>2, StandKinds
    <2> QED
      BY <2>1, FS_EmptySet DEF InWait
  <1>9. Elems(k.queue) = {}
    BY <1>2 DEF Elems
  <1>10. QueueOK(k)
    <2>1. Distinct(k.queue)
      BY <1>2 DEF Distinct
    <2>2. \A t \in Threads : k.waits[t] = NoWait
      BY <1>2
    <2>3. \A s \in Slots : k.bits[s] = {}
      BY <1>2
    <2> QED
      BY <1>2, <1>9, <2>1, <2>2, <2>3, StandKinds, WaitKinds DEF QueueOK
  <1>11. Counts(k, 0, 0, 0, 0)
    <2>1. InWait(k, InSend("session")) = 0 /\ InWait(k, InSend("channel")) = 0 /\ InWait(k, InReceive) = 0
      BY <1>8, StandKinds
    <2> QED
      BY <1>2, <1>5, <1>6, <1>9, <2>1 DEF Counts
  <1>12. Status(k) /\ Gone(k)
    BY <1>2, <1>6 DEF Status, Gone, Word, Slots
  <1>13. Placed(k)
    <2>1. \A t \in Threads : k.transit[t] = {}
      BY <1>2
    <2> QED
      BY <1>2, <2>1, ChannelAssumption DEF Placed
  <1>14. /\ table = [count |-> [n \in Numbers |-> 0], dead |-> {},
                    holder |-> [n \in Numbers |-> None], used |-> 0, free |-> <<>>]
         /\ life = [t \in Threads |-> "none"] /\ index = [t \in Threads |-> NoNumber]
         /\ stage = [p \in Procs |-> "whole"] /\ pending = {} /\ given = {}
         /\ request = [t \in Threads |-> NoToken]
    BY DEF Init, Numbers
  <1>15. TableType
    <2>1. /\ table = [f \in {"count", "dead", "holder", "used", "free"} |-> table[f]]
          /\ table.count = [n \in Numbers |-> 0] /\ table.dead = {}
          /\ table.holder = [n \in Numbers |-> None] /\ table.used = 0 /\ table.free = <<>>
      BY <1>14
    <2>2. 0 \in 0 .. MAX_COUNT /\ 0 \in 0 .. N
      BY ChannelAssumption
    <2>3. table.count \in [Numbers -> 0 .. MAX_COUNT] /\ table.holder \in [Numbers -> Threads \cup {None}]
      BY <2>1, <2>2
    <2>4. table.used \in 0 .. N /\ table.dead \in SUBSET Numbers
      BY <2>1, <2>2
    <2>5. <<>> \in Seq(Numbers)
      OBVIOUS
    <2> QED
      BY <2>1, <2>3, <2>4, <2>5 DEF TableType, IsTable
  <1>16. ThreadType /\ Stopped
    BY <1>14 DEF ThreadType, Stopped
  <1>17. Waiting /\ TokensOK /\ NoSleepOnUpcall
    <2>1. \A t \in Threads : k.waits[t] = NoWait /\ k.transit[t] = {}
      BY <1>2
    <2>2. \A p \in Procs : k.accepted[p] = {}
      BY <1>2
    <2> QED
      BY <1>14, <2>1, <2>2, StandKinds, WaitKinds DEF Waiting, TokensOK, NoSleepOnUpcall
  <1>18. Holders
    <2>1. table.free = <<>> /\ \A n \in Numbers : table.holder[n] = None
      BY <1>14
    <2>2. Elems(table.free) = {} /\ Distinct(table.free)
      BY <2>1 DEF Elems, Distinct
    <2>3. NoNumber \notin Numbers
      BY DEF NoNumber, Numbers
    <2>4. \A t \in Threads : index[t] = NoNumber /\ life[t] = "none" /\ t # None
      BY <1>14, ChannelAssumption
    <2> QED
      BY <2>1, <2>2, <2>3, <2>4 DEF Holders
  <1> QED
    BY <1>7, <1>10, <1>11, <1>12, <1>13, <1>15, <1>16, <1>17, <1>18 DEF ChannelInductive, Sound, Firm

\* A portion of cleanup keeps the invariant.
LEMMA PortionsStep ==
  ASSUME ChannelInductive, Portions
  PROVE ChannelInductive' /\ InTime /\ Once
  <1> DEFINE Goal == ChannelInductive' /\ InTime /\ Once
  <1>1. ASSUME request' = request PROVE Once
    BY <1>1 DEF Once
  <1>2. CASE CleanChannel
    BY <1>1, <1>2, CleanChannelStep DEF CleanChannel
  <1>3. CASE FreeChannel
    BY <1>1, <1>3, FreeChannelStep DEF FreeChannel
  <1>4. CASE CleanSession
    BY <1>1, <1>4, CleanSessionStep DEF CleanSession
  <1>5. ASSUME NEW t \in Threads, ServeExit(t) PROVE Goal
    BY <1>1, <1>5, ServeExitStep DEF ServeExit
  <1>6. ASSUME NEW t \in Threads, CleanThread(t) PROVE Goal
    BY <1>1, <1>6, CleanThreadStep DEF CleanThread
  <1>7. ASSUME NEW p \in Procs, ThreadsDone(p) \/ RepliesDone(p) \/ HandlesDone(p) PROVE Goal
    <2>1. request' = request
      BY <1>7 DEF ThreadsDone, RepliesDone, HandlesDone
    <2> QED
      BY <1>1, <1>7, <2>1, StageSteps
  <1>8. ASSUME NEW p \in Procs, NEW c \in Threads, WakeClient(p, c) PROVE Goal
    BY <1>8, WakeClientStep
  <1>9. ASSUME NEW p \in Procs, NEW h \in Handles, ReleaseHandle(p, h) PROVE Goal
    BY <1>1, <1>9, ReleaseHandleStep DEF ReleaseHandle
  <1> QED
    BY <1>2, <1>3, <1>4, <1>5, <1>6, <1>7, <1>8, <1>9 DEF Portions

\* A call keeps it.
LEMMA CallStep ==
  ASSUME ChannelInductive, NEW t \in Threads,
         \/ ReceiveWaits(t) \/ Interrupt(t) \/ RequestUpcall(t) \/ EnterUpcall(t)
         \/ Create(t) \/ Exit(t)
         \/ \E s \in Slots : ReceiveSlot(t, s)
         \/ \E c \in Threads : ReceiveRequest(t, c) \/ ReceiveUnfit(t, c)
         \/ \E h \in Handles : Notify(t, h) \/ CloseHandle(t, h) \/ LabelUnfit(t, h)
         \/ \E h, copy \in Handles : Duplicate(t, h, copy) \/ Label(t, h, copy)
         \/ \E h \in Handles : \E moving \in Movable(t, h) :
               \/ SendFails(t, h, moving) \/ SendInterrupted(t, h, moving)
               \/ SendQueued(t, h, moving) \/ SendMet(t, h, moving)
         \/ \E token \in given, moving \in Movable(t, None) :
               ReplyDead(t, token, moving) \/ Reply(t, token, moving)
  PROVE ChannelInductive' /\ InTime /\ Once
  <1> DEFINE Goal == ChannelInductive' /\ InTime /\ Once
  <1>1. ASSUME request' = request PROVE Once
    BY <1>1 DEF Once
  <1>2. CASE ReceiveWaits(t)
    BY <1>1, <1>2, ReceiveWaitsStep DEF ReceiveWaits
  <1>3. CASE Interrupt(t)
    BY <1>1, <1>3, InterruptStep DEF Interrupt
  <1>4. CASE RequestUpcall(t)
    BY <1>1, <1>4, RequestUpcallStep DEF RequestUpcall
  <1>5. CASE EnterUpcall(t)
    BY <1>1, <1>5, EnterUpcallStep DEF EnterUpcall
  <1>6. CASE Create(t)
    BY <1>1, <1>6, CreateStep DEF Create
  <1>7. CASE Exit(t)
    BY <1>7, ExitStep
  <1>8. ASSUME NEW s \in Slots, ReceiveSlot(t, s) PROVE Goal
    BY <1>1, <1>8, ReceiveSlotStep DEF ReceiveSlot
  <1>9. ASSUME NEW c \in Threads, ReceiveRequest(t, c) PROVE Goal
    BY <1>9, ReceiveRequestStep
  <1>10. ASSUME NEW c \in Threads, ReceiveUnfit(t, c) PROVE Goal
    BY <1>1, <1>10, ReceiveUnfitStep DEF ReceiveUnfit
  <1>11. ASSUME NEW h \in Handles, Notify(t, h) PROVE Goal
    BY <1>1, <1>11, NotifyStep DEF Notify
  <1>12. ASSUME NEW h \in Handles, CloseHandle(t, h) PROVE Goal
    BY <1>1, <1>12, CloseHandleStep DEF CloseHandle
  <1>13. ASSUME NEW h \in Handles, LabelUnfit(t, h) PROVE Goal
    BY <1>1, <1>13, LabelUnfitStep DEF LabelUnfit
  <1>14. ASSUME NEW h \in Handles, NEW copy \in Handles, Duplicate(t, h, copy) PROVE Goal
    BY <1>1, <1>14, DuplicateStep DEF Duplicate
  <1>15. ASSUME NEW h \in Handles, NEW copy \in Handles, Label(t, h, copy) PROVE Goal
    BY <1>1, <1>15, LabelStep DEF Label
  <1>16. ASSUME NEW h \in Handles, NEW moving \in Movable(t, h), SendFails(t, h, moving) PROVE Goal
    BY <1>1, <1>16, SendFailsStep DEF SendFails
  <1>17. ASSUME NEW h \in Handles, NEW moving \in Movable(t, h), SendInterrupted(t, h, moving) PROVE Goal
    BY <1>1, <1>17, SendInterruptedStep DEF SendInterrupted
  <1>18. ASSUME NEW h \in Handles, NEW moving \in Movable(t, h), SendQueued(t, h, moving) PROVE Goal
    BY <1>1, <1>18, SendQueuedStep DEF SendQueued
  <1>19. ASSUME NEW h \in Handles, NEW moving \in Movable(t, h), SendMet(t, h, moving) PROVE Goal
    BY <1>19, SendMetStep
  <1>20. ASSUME NEW token \in given, NEW moving \in Movable(t, None), ReplyDead(t, token, moving) PROVE Goal
    BY <1>1, <1>20, ReplyDeadStep DEF ReplyDead
  <1>21. ASSUME NEW token \in given, NEW moving \in Movable(t, None), Reply(t, token, moving) PROVE Goal
    BY <1>21, ReplyStep
  <1> QED
    BY <1>2, <1>3, <1>4, <1>5, <1>6, <1>7, <1>8, <1>9, <1>10, <1>11, <1>12, <1>13, <1>14, <1>15,
       <1>16, <1>17, <1>18, <1>19, <1>20, <1>21

\* Every step keeps the invariant, and does what the action properties say.
LEMMA ChannelStep ==
  ASSUME ChannelInductive, [Next]_vars
  PROVE ChannelInductive' /\ InTime /\ Once
  <1>1. CASE UNCHANGED vars
    <2>1. UNCHANGED <<k, table, life, index, stage, pending, given, request>>
      BY <1>1 DEF vars
    <2>2. ChannelInductive'
      <3>1. k' = k /\ Sound(k', 0, 0, 0) /\ Placed(k')
        BY <2>1 DEF ChannelInductive
      <3> QED
        BY <2>1, <3>1, Quiet
    <2> QED
      BY <2>1, <2>2 DEF InTime, Once
  <1>2. CASE Portions
    BY <1>2, PortionsStep
  <1>3. ASSUME NEW p \in Procs, EndProcess(p) PROVE ChannelInductive' /\ InTime /\ Once
    <2>1. request' = request
      BY <1>3 DEF EndProcess
    <2> QED
      BY <1>3, <2>1, StageSteps DEF Once
  <1> QED
    BY <1>1, <1>2, <1>3, CallStep DEF Next

\* The inductive invariant holds of every behaviour: counts, queue, places,
\* waits, numbers and tokens, for any threads, processes and handles.
THEOREM ChannelInvariance == Spec => []ChannelInductive
  <1>1. Init => ChannelInductive
    BY ChannelInit
  <1>2. ChannelInductive /\ [Next]_vars => ChannelInductive'
    BY ChannelStep
  <1> QED
    BY <1>1, <1>2, PTL DEF Spec

\* The counts are those of the handles, of the waits, of the sources, of the
\* queued slots and of the stage Close, and a handle is in one place, in every
\* state of any number of threads and processes (ReferencesExact).
THEOREM ChannelReferences == Spec => []ReferencesExact
  <1>1. ASSUME ChannelInductive PROVE ReferencesExact
    <2>1. StateType(k) /\ Counts(k, 0, 0, 0, 0) /\ Status(k) /\ Placed(k)
      BY <1>1 DEF ChannelInductive, Sound, Firm
    <2>2. Everywhere = All(k)
      BY DEF Everywhere, All
    <2> DEFINE A == Everywhere \ Labelled
               B == Everywhere \cap Labelled \cap Receiving
    <2>3. Number(k, Counted) = Cardinality(A) + Cardinality(B) /\ Cardinality(A) \in Nat /\ Cardinality(B) \in Nat
      <3>1. Everywhere \in SUBSET Handles
        BY <2>1, <2>2 DEF All, StateType
      <3>2. A \cup B = All(k) \cap Counted /\ A \cap B = {}
        BY <2>2, <3>1 DEF Counted
      <3>3. A \in SUBSET Handles /\ B \in SUBSET Handles
        BY <3>1
      <3> HIDE DEF A, B
      <3>4. IsFiniteSet(A) /\ IsFiniteSet(B)
        BY <3>3, FS_Subset, ChannelAssumption
      <3>5. Cardinality(A) \in Nat /\ Cardinality(B) \in Nat
        BY <3>4, FS_CardinalityType
      <3>6. Cardinality(A \cup B) = Cardinality(A) + Cardinality(B) - Cardinality(A \cap B)
        BY <3>4, FS_Union
      <3>7. Cardinality(A \cap B) = 0
        BY <3>2, FS_EmptySet
      <3>8. Number(k, Counted) = Cardinality(A \cup B)
        BY <3>2 DEF Number
      <3> QED
        BY <3>5, <3>6, <3>7, <3>8
    <2>4. /\ InWait(k, InSend("session")) = Cardinality(Requests("session"))
          /\ InWait(k, InSend("channel")) = Cardinality(Requests("channel"))
          /\ InWait(k, InReceive) = Cardinality(Receivers)
      BY DEF InWait, Requests, Receivers
    <2>5. /\ Number(k, Receiving) = Cardinality(Everywhere \cap Receiving)
          /\ Number(k, Labelled) = Cardinality(Everywhere \cap Labelled)
      BY <2>2 DEF Number
    <2>6. \A w : InWait(k, w) \in Nat
      BY <2>1, NumberTypes
    <2>7. \A H : Number(k, H) \in Nat
      BY <2>1, NumberTypes
    <2>8. "session" \in Elems(k.queue) <=> IsQueued(k, "session")
      <3>1. k.queue \in Seq(Threads \cup Slots)
        BY <2>1 DEF StateType
      <3> QED
        BY <3>1, ElemsFacts DEF IsQueued
    <2>9. /\ k.receivers \in Nat /\ k.copies \in Nat /\ k.srefs \in Nat /\ k.refs \in Nat
      BY <2>1 DEF StateType
    <2> HIDE DEF A, B
    <2>10. k.receivers = Cardinality(Everywhere \cap Receiving)
      BY <2>1, <2>5, <2>7, <2>9 DEF Counts
    <2>11. k.copies = Cardinality(Everywhere \cap Labelled) + Cardinality(Requests("session"))
      BY <2>1, <2>4, <2>5, <2>6, <2>7, <2>9 DEF Counts
    <2>12. k.srefs = k.copies + (IF IsQueued(k, "session") THEN 1 ELSE 0)
      BY <2>1, <2>8, <2>9 DEF Counts
    <2>13. k.refs = Cardinality(A) + Cardinality(B)
                  + Cardinality(Requests("channel")) + Cardinality(Receivers)
                  + (IF k.session # "none" THEN 1 ELSE 0)
                  + (IF k.cleanup = "close" THEN 1 ELSE 0)
      <3>1. /\ Cardinality(Requests("channel")) \in Nat /\ Cardinality(Receivers) \in Nat
        BY <2>4, <2>6
      <3>2. k.refs = Number(k, Counted) + Cardinality(Requests("channel")) + Cardinality(Receivers)
                   + (IF k.session # "none" THEN 1 ELSE 0)
                   + (IF k.cleanup = "close" THEN 1 ELSE 0) + 0
        BY <2>1, <2>4 DEF Counts
      <3> QED
        BY <2>3, <3>1, <3>2
    <2>14. ASSUME NEW h \in Handles
           PROVE Cardinality({p \in Procs : h \in k.handles[p]})
                 + Cardinality({t \in Threads : h \in k.transit[t]}) <= 1
      <3> DEFINE P == {p \in Procs : h \in k.handles[p]}
                 T == {t \in Threads : h \in k.transit[t]}
      <3>1. \A p \in P : P = {p} /\ T = {}
        BY <2>1 DEF Placed
      <3>2. \A t \in T : T = {t}
        BY <2>1 DEF Placed
      <3> HIDE DEF P, T
      <3>3. Cardinality({}) = 0 /\ \A x : Cardinality({x}) = 1
        BY FS_EmptySet, FS_Singleton
      <3>4. CASE P = {} /\ T = {}
        <4>1. Cardinality(P) = 0 /\ Cardinality(T) = 0
          BY <3>3, <3>4
        <4> QED
          BY <4>1 DEF P, T
      <3>5. CASE P # {}
        <4>1. Cardinality(P) = 1 /\ Cardinality(T) = 0
          BY <3>1, <3>3, <3>5
        <4> QED
          BY <4>1 DEF P, T
      <3>6. CASE P = {} /\ T # {}
        <4>1. Cardinality(P) = 0 /\ Cardinality(T) = 1
          BY <3>2, <3>3, <3>6
        <4> QED
          BY <4>1 DEF P, T
      <3> QED
        BY <3>4, <3>5, <3>6
    <2>15. /\ k.cleanup \in {"shell", "freed"} <=> k.refs = 0
           /\ k.closed <=> k.receivers = 0
           /\ k.session = "live" <=> k.srefs > 0
           /\ k.sources = IF k.session = "none" THEN 1 ELSE 2
      BY <2>1 DEF Status
    <2> QED
      BY <2>10, <2>11, <2>12, <2>13, <2>14, <2>15 DEF ReferencesExact, A, B
  <1> QED
    BY <1>1, ChannelInvariance, PTL

\* The queue holds receivers or else slots and requests, and a thread stands
\* in it exactly while it waits there (NeverBoth).
THEOREM ChannelNeverBoth == Spec => []NeverBoth
  <1>1. ASSUME ChannelInductive PROVE NeverBoth
    <2>1. k.queue \in Seq(Threads \cup Slots) /\ QueueOK(k)
      BY <1>1 DEF ChannelInductive, Sound, Firm, StateType
    <2>2. \A i : IsQueued(k, i) <=> i \in Elems(k.queue)
      BY <2>1, ElemsFacts DEF IsQueued
    <2>3. \A t \in Threads : IsQueued(k, t) <=> InQueue(t)
      BY <2>1, <2>2 DEF QueueOK, InQueue, Stands, Sends
    <2>4. ASSUME NEW i \in DOMAIN k.queue PROVE k.queue[i] \in Receivers <=> k.waiting
      <3>1. k.queue[i] \in Elems(k.queue)
        BY <2>1, ElemsFacts
      <3> QED
        BY <2>1, <3>1 DEF QueueOK, Receivers
    <2>5. \A s \in Slots : IsQueued(k, s) <=> k.bits[s] # {}
      BY <2>1, <2>2 DEF QueueOK
    <2> QED
      BY <2>3, <2>4, <2>5 DEF NeverBoth
  <1> QED
    BY <1>1, ChannelInvariance, PTL

\* CLIENT_GONE comes after every request and every handle of the label, and
\* with the last of them it is there (GoneIsLast).
THEOREM ChannelGoneIsLast == Spec => []GoneIsLast
  <1>1. ASSUME ChannelInductive PROVE GoneIsLast
    <2>1. StateType(k) /\ Counts(k, 0, 0, 0, 0) /\ Gone(k)
      BY <1>1 DEF ChannelInductive, Sound, Firm
    <2>2. Everywhere = All(k)
      BY DEF Everywhere, All
    <2>3. ASSUME k.copies = 0 PROVE Everywhere \cap Labelled = {}
      <3>1. Number(k, Labelled) \in Nat /\ InWait(k, InSend("session")) \in Nat
            /\ IsFiniteSet(All(k) \cap Labelled)
        BY <2>1, NumberTypes
      <3>2. Number(k, Labelled) = 0
        BY <2>1, <2>3, <3>1 DEF Counts
      <3> QED
        BY <2>2, <3>1, <3>2, FS_EmptySet DEF Number
    <2> QED
      BY <2>1, <2>3 DEF GoneIsLast, Gone, Word
  <1> QED
    BY <1>1, ChannelInvariance, PTL

\* A reply reaches the request its token was given for, for any size of the
\* table and any count of a number (AnswersItsRequest).
THEOREM ChannelAnswers == Spec => []AnswersItsRequest
  <1>1. ASSUME ChannelInductive PROVE AnswersItsRequest
    <2> SUFFICES ASSUME NEW p \in Procs, NEW token \in given, Check(token) \in Threads,
                        k.waits[Check(token)] = ForReply(p)
                 PROVE request[Check(token)] = token
      BY DEF AnswersItsRequest
    <2>1. PICK n \in Numbers, c \in 0 .. MAX_COUNT : token = <<n, c>>
      BY <1>1 DEF ChannelInductive, ThreadType
    <2>2. PICK client \in Threads : client = Check(token)
      OBVIOUS
    <2>3. client # None /\ client # "dead"
      BY ChannelAssumption
    <2>4. table.count[n] = c /\ table.holder[n] = client
      BY <2>1, <2>2, <2>3 DEF Check
    <2>5. index[client] = n
      BY <1>1, <2>4 DEF ChannelInductive, Holders
    <2>6. request[client] = <<index[client], table.count[index[client]]>>
      BY <1>1, <2>2 DEF ChannelInductive, TokensOK
    <2> QED
      BY <2>1, <2>2, <2>4, <2>5, <2>6
  <1> QED
    BY <1>1, ChannelInvariance, PTL

\* Nobody waits in send or receive with an upcall asked for (NoSleepOnUpcall).
THEOREM ChannelUpcalls == Spec => []NoSleepOnUpcall
  <1>1. ChannelInductive => NoSleepOnUpcall
    BY DEF ChannelInductive
  <1> QED
    BY <1>1, ChannelInvariance, PTL

\* No token is given out twice, over ends of threads and reuse of numbers
\* (TokenOnce).
THEOREM ChannelTokenOnce == Spec => TokenOnce
  <1>1. ChannelInductive /\ [Next]_vars => Once
    BY ChannelStep
  <1>2. ChannelInductive /\ [Next]_vars
          => [\A t \in Threads : request'[t] \notin {NoToken, request[t]}
                 => request'[t] \notin given]_vars
    BY <1>1 DEF Once
  <1> QED
    BY <1>2, ChannelInvariance, PTL DEF Spec, TokenOnce

\* A handle goes into the table of no process past its stage Threads
\* (PutInTime).
THEOREM ChannelPutInTime == Spec => PutInTime
  <1>1. ChannelInductive /\ [Next]_vars => InTime
    BY ChannelStep
  <1>2. ChannelInductive /\ [Next]_vars
          => [\A p \in Procs : stage[p] \in {"replies", "handles", "gone"}
                 => k'.handles[p] \subseteq k.handles[p]]_vars
    BY <1>1 DEF InTime
  <1> QED
    BY <1>2, ChannelInvariance, PTL DEF Spec, PutInTime

=============================================================================
