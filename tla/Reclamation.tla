---------------------------- MODULE Reclamation ----------------------------
(***************************************************************************)
(* What quiescent-state reclamation promises to the code that reads shared *)
(* objects without a lock (kernel/src/qsbr.rs, kcore/src/qsbr.rs): an      *)
(* object is read only while a link reaches it, and its memory goes back   *)
(* only when it is unlinked and no CPU holds a pointer to it.  How the     *)
(* kernel finds that out (epochs, marks, lists) is left to Qsbr, which     *)
(* implements this specification; IrqLines builds on it.                   *)
(***************************************************************************)
CONSTANTS CPUs, Objects

VARIABLES
    life,    \* what became of each object
    held     \* the objects each CPU has a pointer to, read without a lock

vars == <<life, held>>

Lives == {"free", "linked", "unlinked", "retired"}

Init ==
    /\ life = [o \in Objects |-> "free"]
    /\ held = [c \in CPUs |-> {}]

\* An object is made in free memory and a link names it.
Link(o) ==
    /\ life[o] = "free"
    /\ life' = [life EXCEPT ![o] = "linked"]
    /\ UNCHANGED held

\* A CPU follows the link without a lock.
Read(c, o) ==
    /\ life[o] = "linked"
    /\ held' = [held EXCEPT ![c] = @ \union {o}]
    /\ UNCHANGED life

\* A CPU is done with every pointer it read.
LetGo(c) ==
    /\ held' = [held EXCEPT ![c] = {}]
    /\ UNCHANGED life

Unlink(o) ==
    /\ life[o] = "linked"
    /\ life' = [life EXCEPT ![o] = "unlinked"]
    /\ UNCHANGED held

Retire(o) ==
    /\ life[o] = "unlinked"
    /\ life' = [life EXCEPT ![o] = "retired"]
    /\ UNCHANGED held

\* The memory of some retired objects goes back: no CPU holds any of them.
Free(S) ==
    /\ \A o \in S : life[o] = "retired" /\ \A c \in CPUs : o \notin held[c]
    /\ life' = [o \in Objects |-> IF o \in S THEN "free" ELSE life[o]]
    /\ UNCHANGED held

Next ==
    \/ \E o \in Objects : Link(o) \/ Unlink(o) \/ Retire(o)
    \/ \E c \in CPUs, o \in Objects : Read(c, o)
    \/ \E c \in CPUs : LetGo(c)
    \/ \E S \in SUBSET Objects : Free(S)

Spec == Init /\ [][Next]_vars
=============================================================================
