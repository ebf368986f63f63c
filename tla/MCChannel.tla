----------------------------- MODULE MCChannel -----------------------------
EXTENDS Channel

\* A server and two clients, each a process of one thread, which share two
\* thread numbers: the second client takes the number of the first.
RequestOf == [r |-> "S", a |-> "P", b |-> "Q"]
RequestLevel == [r |-> 1, a |-> 1, b |-> 2, label0 |-> 1, session |-> 3]
RequestHeld == [S |-> {"rec"}, P |-> {"snd"}, Q |-> {"snd2"}]

\* A server and a client that makes sessions; the slot of a session stands
\* above every request.
SessionOf == [r |-> "S", a |-> "P"]
SessionLevel == [r |-> 1, a |-> 1, label0 |-> 1, session |-> 3]
SessionHeld == [S |-> {"rec"}, P |-> {"snd"}]
============================================================================
