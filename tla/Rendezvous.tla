------------------------------ MODULE Rendezvous ------------------------------
(***************************************************************************)
(* What a pipe between threads promises: the bytes of one write at a time  *)
(* reach the other end, in order, and a write returns when its last byte   *)
(* has. A write that throws may have sent any number of its bytes, but     *)
(* none is taken afterwards.                                               *)
(***************************************************************************)
EXTENDS Integers, Sequences

CONSTANTS Writes, NoWrite,
          BytesOf(_)    \* the bytes of a write

VARIABLES
    sending,    \* the write in progress
    rest,       \* its bytes that are still to be taken
    delivered,  \* the bytes that were taken
    returned    \* the writes that have returned

vars == <<sending, rest, delivered, returned>>

Init ==
    /\ sending = NoWrite /\ rest = <<>>
    /\ delivered = <<>>
    /\ returned = {}

Start(w) ==
    /\ sending = NoWrite
    /\ sending' = w /\ rest' = BytesOf(w)
    /\ UNCHANGED <<delivered, returned>>

Deliver(n) ==
    /\ delivered' = delivered \o SubSeq(rest, 1, n)
    /\ rest' = SubSeq(rest, n + 1, Len(rest))
    /\ UNCHANGED <<sending, returned>>

Return(w) ==
    /\ sending = w /\ rest = <<>>
    /\ sending' = NoWrite
    /\ returned' = returned \cup {w}
    /\ UNCHANGED <<rest, delivered>>

Throw(w) ==
    /\ sending = w
    /\ sending' = NoWrite /\ rest' = <<>>
    /\ UNCHANGED <<delivered, returned>>

Next ==
    \/ \E w \in Writes : Start(w) \/ Return(w) \/ Throw(w)
    \/ \E n \in 1..Len(rest) : Deliver(n)

Spec == Init /\ [][Next]_vars
=============================================================================
