------------------------------- MODULE MCWaits --------------------------------
(* Model values for checking the cancellable wait with TLC: one waiter and two*)
(* cancellers, of its own token or of the two that are joined.                *)
EXTENDS Waits

CONSTANTS w1, c1, c2

MCWaiters == {w1}
MCCancellers == {c1, c2}

MCSpec == WaitsSpec /\ WaitsFairness
=============================================================================
