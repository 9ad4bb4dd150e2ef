----------------------- MODULE MCTransactionalDictionary -----------------------
(* Model values for checking TransactionalDictionary with TLC: three keys, of *)
(* which the middle one takes two values.                                     *)
EXTENDS TransactionalDictionary, TLC

CONSTANTS c1, c2, e1, o1, v1, v2

MCClients == {c1, c2}
MCKeys == 1 .. 3
MCValues == {v1, v2}
MCEnumerators == {e1}
MCObservers == {o1}
MCWatchedKeys == {2}
MCOffers == {<<1, v1>>, <<2, v1>>, <<2, v2>>, <<3, v1>>}
MCSymmetry == Permutations(MCClients)

\* Snapshots and observers do not meet in the code: a state has one or the
\* other, and two keys while it has them, or three while an enumerator of a
\* transaction goes through maps that have not changed. A failed Commit is
\* followed further without a snapshot.
Held == \E e \in Enumerators : snaps[e] # NoSnapshot
Watched == \/ \E o \in Observers : told[o] # Absent
           \/ \E k \in WatchedKeys : keyTold[k] # Absent
TwoKeys == \A m \in MapNames : Current[m][3] = NoValue
Unchanged == \A e \in Enumerators, m \in MapNames : snaps[e][m] = Live
Focus ==
    /\ ~(Held /\ Watched)
    /\ Watched => TwoKeys
    /\ Held => TwoKeys \/ Unchanged
    /\ Held => ~torn
=============================================================================
