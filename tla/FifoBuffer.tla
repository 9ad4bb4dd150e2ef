----------------------------- MODULE FifoBuffer ------------------------------
(***************************************************************************)
(* What a buffer between writers and one reader promises: items come out   *)
(* in the order they went in, each once, none is invented, and at most     *)
(* Capacity are held. Clear empties it. PacketBuffer (items are packets)   *)
(* and DataBuffer (items are bytes) are shown to implement it.             *)
(***************************************************************************)
EXTENDS Naturals, Sequences

CONSTANT
    Capacity

VARIABLES
    held,           \* the items in the buffer, numbered as they went in
    put             \* how many went in

vars == <<held, put>>

Init == held = <<>> /\ put = 0

Put(n) ==
    /\ Len(held) + n <= Capacity
    /\ held' = held \o [i \in 1..n |-> put + i]
    /\ put' = put + n

Take(n) ==
    /\ n <= Len(held)
    /\ held' = SubSeq(held, n + 1, Len(held))
    /\ UNCHANGED put

Clear == held' = <<>> /\ UNCHANGED put

Next == Clear \/ \E n \in 1..Capacity : Put(n) \/ Take(n)

Spec == Init /\ [][Next]_vars

=============================================================================
