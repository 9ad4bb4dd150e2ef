------------------------------ MODULE MCSignal -------------------------------
(* Model values for checking Signal with TLC: one connection of each kind.   *)
EXTENDS Signal

CONSTANTS c1, c2, u1, u2, v1, v2

MCConnections == {c1, c2}
MCAsync == {c2}
MCUsers == {u1, u2}
MCThreads == MCUsers \cup {Executor}
MCValues == {v1, v2}
=============================================================================
