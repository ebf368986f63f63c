---------------------------- MODULE AtomicStore ----------------------------
(***************************************************************************)
(* What the package service promises of the disk: a change of the store    *)
(* happens as a whole or not at all, what was made stays made, and a start *)
(* after a crash finds the state that was made last or the one under way.  *)
(* A state is a value: what every package, the settings and the list of    *)
(* revocations hold, as a start reads them from the disk.                  *)
(***************************************************************************)
CONSTANTS
    Blank,      \* the disk of zeros, before the first format
    Lost        \* the state a start reports as damaged

VARIABLES
    held,       \* the state that was made last
    flight,     \* the states under way, or whose last write failed
    up,         \* the service runs
    sure        \* "yes", "no" while the service goes on without knowing which
                \* state the disk holds, "lost" once that may have done harm

vars == <<held, flight, up, sure>>

Init == held = Blank /\ flight = {} /\ up = FALSE /\ sure = "yes"

\* A change of the store begins.
Try ==
    /\ up
    /\ \E s \in flight' : flight' = flight \cup {s}
    /\ UNCHANGED <<held, up, sure>>

\* The change is the store's state, and the client hears of it.
Made ==
    /\ up
    /\ held' \in flight
    /\ flight' = {} /\ sure' = "yes"
    /\ UNCHANGED up

\* The change is refused before it can be the medium's.
Refused ==
    /\ up
    /\ \E s \in flight : flight' = flight \ {s}
    /\ UNCHANGED <<held, up, sure>>

\* The service goes on although a change may be the medium's or not.
GoOn ==
    /\ up /\ flight # {}
    /\ sure' = "no"
    /\ UNCHANGED <<held, flight, up>>

Crash ==
    /\ up /\ up' = FALSE
    /\ sure' = IF sure = "yes" THEN "yes" ELSE "lost"
    /\ UNCHANGED <<held, flight>>

\* A start finds the old state or one under way. The one write of the first
\* superblock may be torn, with no older copy to fall back on.
Recover ==
    /\ ~up /\ up' = TRUE
    /\ held' \in {held} \cup flight \cup IF held = Blank THEN {Lost} ELSE {}
    /\ flight' = {}
    /\ UNCHANGED sure

\* A start that cannot read the disk leaves it as it is.
Blind == ~up /\ up' = TRUE /\ UNCHANGED <<held, flight, sure>>

\* A start that cannot read all of the disk may open an older state.
Older == ~up /\ up' = TRUE /\ sure' = "lost"

Next ==
    \/ sure # "lost" /\ (Try \/ Made \/ Refused \/ GoOn \/ Crash \/ Recover \/ Blind \/ Older)
    \/ sure = "lost" /\ sure' = "lost"

Spec == Init /\ [][Next]_vars
=============================================================================
