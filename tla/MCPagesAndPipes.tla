---------------------------- MODULE MCPagesAndPipes ----------------------------
(* Model values for checking PagesAndPipes with TLC: pages of two chunks of    *)
(* two bytes, and data that end within a chunk, within a page and beyond it;   *)
(* writes that fit in the buffer of the pipe and that do not, reads of a part  *)
(* of it; a future for one value.                                              *)
EXTENDS PagesAndPipes

CONSTANTS p1, p2, c1, c2, v1

MCPushers == {p1, p2}
MCSizes == {1, 3, 6}
MCClients == {c1, c2}
MCPipeSizes == {1, 3}
MCReadSizes == {1, 2}
MCValues == {v1}

MCSpec == ReadSpec /\ ReadFairness
=============================================================================
