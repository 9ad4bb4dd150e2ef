----------------------------- MODULE Observable ------------------------------
(***************************************************************************)
(* What a value whose changes are signalled promises its subscribers       *)
(* (signal/signals.h with a populator, ObservableValue.h): a subscriber is *)
(* told the value it finds, unless it does not ask for that, and then      *)
(* every value that is set, each once and in order, and nothing after its  *)
(* connection has been cut.                                                *)
(***************************************************************************)
EXTENDS Sequences

CONSTANTS Subscribers, Values, Initial, NoValue

VARIABLES
    value,          \* the current value
    subscribed,     \* who is told of changes
    owed,           \* the values each subscriber has still to be told
    told,           \* the value each subscriber was told last
    cut             \* whose connection has been cut

vars == <<value, subscribed, owed, told, cut>>

Init ==
    /\ value = Initial
    /\ subscribed = {}
    /\ owed = [s \in Subscribers |-> <<>>]
    /\ told = [s \in Subscribers |-> NoValue]
    /\ cut = {}

\* The value found is told at once or owed.
Subscribe(s) ==
    /\ s \notin subscribed \cup cut
    /\ owed[s] = <<>> /\ told[s] = NoValue
    /\ subscribed' = subscribed \cup {s}
    /\ \/ told' = [told EXCEPT ![s] = value] /\ UNCHANGED owed
       \/ owed' = [owed EXCEPT ![s] = <<value>>] /\ UNCHANGED told
    /\ UNCHANGED <<value, cut>>

\* The value found is not asked for.
SubscribeSilently(s) ==
    /\ s \notin subscribed \cup cut
    /\ owed[s] = <<>> /\ told[s] = NoValue
    /\ subscribed' = subscribed \cup {s}
    /\ UNCHANGED <<value, owed, told, cut>>

Set(v) ==
    /\ v # value
    /\ value' = v
    /\ owed' = [s \in Subscribers |->
                   IF s \in subscribed THEN Append(owed[s], v) ELSE owed[s]]
    /\ UNCHANGED <<subscribed, told, cut>>

Tell(s) ==
    /\ s \notin cut
    /\ owed[s] # <<>>
    /\ told' = [told EXCEPT ![s] = Head(owed[s])]
    /\ owed' = [owed EXCEPT ![s] = Tail(@)]
    /\ UNCHANGED <<value, subscribed, cut>>

\* A disconnection ends the subscription first ...
Unsubscribe(s) ==
    /\ s \in subscribed
    /\ subscribed' = subscribed \ {s}
    /\ UNCHANGED <<value, owed, told, cut>>

\* ... and then what is still owed.
Cut(s) ==
    /\ s \notin subscribed \cup cut
    /\ cut' = cut \cup {s}
    /\ owed' = [owed EXCEPT ![s] = <<>>]
    /\ UNCHANGED <<value, subscribed, told>>

Next ==
    \/ \E v \in Values : Set(v)
    \/ \E s \in Subscribers :
        \/ Subscribe(s) \/ SubscribeSilently(s)
        \/ Tell(s) \/ Unsubscribe(s) \/ Cut(s)

Spec == Init /\ [][Next]_vars

=============================================================================
