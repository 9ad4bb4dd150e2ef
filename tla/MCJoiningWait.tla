--------------------------- MODULE MCJoiningWait ----------------------------
(* Model values for checking JoiningWait with TLC.                           *)
EXTENDS JoiningWait

CONSTANTS c1, c2

MCTokens == {First, Second}
MCCancellers == {c1, c2}
=============================================================================
