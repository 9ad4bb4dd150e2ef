---------------------------- MODULE MCTaskExecutors ----------------------------
(* Model values for checking the task executors with TLC. Two tasks share a   *)
(* token and a third has none; two outsiders contend for the token, or two    *)
(* threads execute and one releases it. The pool has five tasks of its own,   *)
(* and two clients.                                                           *)
EXTENDS TaskExecutors, TLC

CONSTANTS t1, t2, t3, t4, t5, l1, o1, o2, e1, e2, c1, c2

MCTasks == {t1, t2, t3}
MCTokens == {l1}
MCOutsiders == {o1, o2}
MCThreads == MCOutsiders \cup {Worker}
MCTesterOf == (t1 :> l1) @@ (t2 :> l1) @@ (t3 :> NullTester)
MCExecutors == {e1, e2}
MCReleasers == {o1}
MCPoolTasks == {t1, t2, t3, t4, t5}
MCClients == {c1, c2}
=============================================================================
