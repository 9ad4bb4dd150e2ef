--------------------------- MODULE DictionaryStore ----------------------------
(***************************************************************************)
(* What a TransactionalDictionary promises the threads that use it: one    *)
(* transaction at a time works on a view of its own, which begins as the   *)
(* store's content, and publishing puts the view in the store at once.     *)
(*                                                                         *)
(* A publication may also fail half way. Then any of the keys may have its *)
(* old value, its new one or none, and the view of that transaction is no  *)
(* longer reliable when edited; its reversal or its end makes it so again. *)
(***************************************************************************)
CONSTANTS Clients, Keys, Values, NoClient, NoValue

Maps == [Keys -> Values \cup {NoValue}]
Pairs == Keys \X Values

VARIABLES
    store,  \* what everybody sees
    owner,  \* the client with the transaction
    view,   \* what the owner sees
    torn    \* whether a publication of this transaction has failed

vars == <<store, owner, view, torn>>

Init ==
    /\ store = [k \in Keys |-> NoValue]
    /\ owner = NoClient
    /\ view = store
    /\ torn = FALSE

Start(c) ==
    /\ owner = NoClient
    /\ owner' = c /\ view' = store /\ torn' = FALSE
    /\ UNCHANGED store

End(c) ==
    /\ owner = c
    /\ owner' = NoClient /\ view' = store /\ torn' = FALSE
    /\ UNCHANGED store

\* An operation of the transaction gives some keys other values.
Put(c, k, v) == owner = c /\ view' = [view EXCEPT ![k] = v]

Erase(c, pairs) ==
    /\ owner = c
    /\ view' = [k \in Keys |->
                   IF <<k, view[k]>> \in pairs THEN NoValue ELSE view[k]]

Edit(c) ==
    /\ \/ \E k \in Keys, v \in Values : Put(c, k, v)
       \/ \E pairs \in SUBSET Pairs : Erase(c, pairs)
       \/ owner = c /\ torn /\ view' \in Maps
    /\ UNCHANGED <<store, owner, torn>>

Revert(c) ==
    /\ owner = c
    /\ view' = store /\ torn' = FALSE
    /\ UNCHANGED <<store, owner>>

Publish(c) ==
    /\ owner = c
    /\ store' = view
    /\ UNCHANGED <<owner, view, torn>>

Tear(c) ==
    /\ owner = c
    /\ store' \in Maps
    /\ \A k \in Keys : store'[k] \in {store[k], view[k], NoValue}
    /\ torn' = TRUE
    /\ UNCHANGED <<owner, view>>

Next == \E c \in Clients :
    Start(c) \/ End(c) \/ Edit(c) \/ Revert(c) \/ Publish(c) \/ Tear(c)

Spec == Init /\ [][Next]_vars
=============================================================================
