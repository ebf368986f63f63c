---------------------------- MODULE MCCommands ----------------------------
EXTENDS Commands
\* A thread on each CPU: each CPU is asked by the other while it asks it.
MCHome == [t \in Threads |-> t - 1]
=============================================================================
