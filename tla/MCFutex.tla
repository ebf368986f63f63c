------------------------------ MODULE MCFutex ------------------------------
EXTENDS Futex

\* Two threads of one level and one above them.
MCLevel == [p |-> 1, q |-> 2, r |-> 1]

\* The thread the events come for has a call for its handler.
MCUses == [p |-> {"lock"}, q |-> {"lock", "wait"}, r |-> {"lock", "wake"}]

\* The calls of p, q and r, and the events that come.
Plan(i, j, k, n) == [ops |-> [p |-> i, q |-> j, r |-> k], signals |-> n]
MCPlans == {Plan(1, 1, 1, 1), Plan(0, 2, 1, 2), Plan(1, 2, 0, 1)}
============================================================================
