-------------------------- MODULE MCProcessControl --------------------------
EXTENDS ProcessControl, TLC

CONSTANTS c1, c2, t1, t2

\* A thread on each CPU.
MCHome == (t1 :> c1) @@ (t2 :> c2)
=============================================================================
