---------------------------- MODULE MCRingBuffers -----------------------------
(* Model values for checking RingBuffers with TLC: packets of up to half the   *)
(* storage, rounded up, and bytes in packets of two for the writers and of     *)
(* three for the reader.                                                       *)
EXTENDS RingBuffers

CONSTANTS w1, w2

MCWriters == {w1, w2}
MCSizes == {1, 2, 3}
MCDataSizes == {2, 4, 6}
MCThresholds == {3}
=============================================================================
