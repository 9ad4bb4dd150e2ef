------------------------------ MODULE MCTimer -------------------------------
(* Model values for checking Timer with TLC. Who uses it is decided at the   *)
(* start: two clients that call it as they like, with an AddTask with a life *)
(* token, one without, and a timer that first fires after 1 and then at      *)
(* once; or an ExecutionDeferrer of two clients, with two deferrals before a *)
(* Cancel (such a timer and a timeout of 0) and one after it.                *)
EXTENDS ExecutionDeferrer

CONSTANTS d1, d2, d3, r1, r2, r3, a1, p1, l1, l2, q1, q2, q3, k1, c1, c2

MCDeferrals == {d1, d2, d3}
MCTaskOf == (d1 :> r1) @@ (d2 :> r2) @@ (d3 :> r3)
MCLifeTokens == {l1, l2}
MCTasks == MCDeferrals \cup {r1, r2, r3, a1, p1}
MCRemovable == {r1, r2, r3, p1}
MCTokens == MCLifeTokens \cup {q1, q2, q3, k1}
MCClients == {c1, c2}
MCThreads == MCClients \cup {Worker}
MCTesterOf ==
    (d1 :> l1) @@ (d2 :> l1) @@ (d3 :> l2) @@ (a1 :> NullTester)
        @@ (r1 :> q1) @@ (r2 :> q2) @@ (r3 :> q3) @@ (p1 :> k1)
MCDelay == [t \in MCTasks |-> IF t \in {r1, p1} THEN 1 ELSE 0]
MCPeriod == [t \in MCTasks |-> IF t \in {r1, p1} THEN 0 ELSE NoPeriod]

VARIABLE user   \* "anyone" or "deferrer"
mcVars == <<allVars, user>>

MCInit == user \in {"anyone", "deferrer"} /\ DeferrerInit

MCNext ==
    /\ UNCHANGED user
    /\ \/ /\ user = "anyone"
          /\ Next /\ UNCHANGED deferrerVars
          /\ \A c \in Threads : adding'[c] \in {d1, a1, p1, NoTask}
          /\ released' \subseteq {l1, k1}
       \/ user = "deferrer" /\ DeferrerNext

\* What each user is fair to does not hinder the other.
MCSpec == MCInit /\ [][MCNext]_mcVars /\ Fairness /\ DeferrerFairness

\* Whoever waits in the timer, and a Cancel of the deferrer, returns.
EverybodyReturns == NobodyWaitsForEver /\ CancelReturns
=============================================================================
