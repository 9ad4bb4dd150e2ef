----------------------------- MODULE WrittenFile ------------------------------
(***************************************************************************)
(* What the user of a stream that is only written sees: writes take effect *)
(* at once and in order, each perhaps only in part. A file that has failed *)
(* has lost its content for good.                                          *)
(***************************************************************************)
EXTENDS Naturals

CONSTANTS
    Bytes,          \* what a write writes
    Old,            \* what it contains at first
    Lost,           \* the content of a file that has failed
    MaxPosition     \* bound of positions

VARIABLES contents, position

vars == <<contents, position>>

Places == 0 .. MaxPosition - 1

Init ==
    /\ contents = [p \in Places |-> Old]
    /\ position = 0

Write(b, n) ==
    /\ position' = position + n
    /\ contents # Lost
    /\ contents' = [p \in Places |-> IF p \in position .. position + n - 1
                                     THEN b ELSE contents[p]]

Seek(p) == position' = p /\ UNCHANGED contents

Fail == UNCHANGED position /\ contents' = Lost

Next ==
    \/ \E b \in Bytes, n \in 1 .. MaxPosition : Write(b, n)
    \/ \E p \in 0 .. MaxPosition : Seek(p)
    \/ Fail

Spec == Init /\ [][Next]_vars
=============================================================================
