-------------------------------- MODULE Future --------------------------------
(***************************************************************************)
(* future.h: the state that a promise shares with its futures. Threads get *)
(* the result or wait for it with a token; others set a value or an        *)
(* exception; the promise may be destroyed with neither.                   *)
(***************************************************************************)
CONSTANTS Getters, Values, Broken, NoResult

\* What the constants must satisfy.
ResultAssumption == NoResult \notin Values \cup {Broken}

VARIABLES
    result,     \* _result or _exception
    promised,   \* the promise exists
    pc          \* where each getter is

vars == <<result, promised, pc>>

Init ==
    /\ result = NoResult
    /\ promised = TRUE
    /\ pc = [g \in Getters |-> "idle"]

Asleep == {"getting", "waiting"}

Woken(g) == CASE pc[g] = "getting" -> "get" [] pc[g] = "waiting" -> "wait" [] OTHER -> pc[g]

\* set_value and set_exception; they throw when there is a result.
SetResult(v) ==
    /\ promised /\ result = NoResult
    /\ result' = v
    /\ pc' = [g \in Getters |-> Woken(g)]
    /\ UNCHANGED promised

\* The destructor of the promise.
Destroy ==
    /\ promised
    /\ promised' = FALSE
    /\ IF result = NoResult
       THEN result' = Broken /\ pc' = [g \in Getters |-> Woken(g)]
       ELSE UNCHANGED <<result, pc>>

\* The loops of get and wait: the caller is given the result or waits for it.
Look(g, get) ==
    /\ pc[g] \in {"idle", IF get THEN "get" ELSE "wait"}
    /\ pc' = [pc EXCEPT ![g] = IF result # NoResult THEN "idle"
                               ELSE IF get THEN "getting" ELSE "waiting"]
    /\ UNCHANGED <<result, promised>>

\* A wait ends for no reason.
WakeUp(g) ==
    /\ pc[g] \in Asleep
    /\ pc' = [pc EXCEPT ![g] = Woken(g)]
    /\ UNCHANGED <<result, promised>>

\* wait returns cancelled or timeout, perhaps with a result that is there.
CancelWait(g) ==
    /\ pc[g] \in {"waiting", "wait"}
    /\ pc' = [pc EXCEPT ![g] = "idle"]
    /\ UNCHANGED <<result, promised>>

Next ==
    \/ \E v \in Values : SetResult(v)
    \/ Destroy
    \/ \E g \in Getters :
        \/ \E get \in BOOLEAN : Look(g, get)
        \/ WakeUp(g) \/ CancelWait(g)

Fairness == \A g \in Getters : WF_vars(pc[g] # "idle" /\ \E get \in BOOLEAN : Look(g, get))

Spec == Init /\ [][Next]_vars /\ Fairness

\* Who gets or waits is answered when there is a result, which the destructor
\* of the promise sees to if nobody else does.
GetsEnd ==
    \A g \in Getters :
        (pc[g] # "idle" /\ (result # NoResult \/ ~promised)) ~> pc[g] = "idle"
=============================================================================
