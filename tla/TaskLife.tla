------------------------------ MODULE TaskLife -------------------------------
(***************************************************************************)
(* The life token of executor/TaskLifeToken.cpp: a flag and a recursive    *)
(* mutex that a thread holds as long as it executes a function under the   *)
(* token (LocalExecutionGuard). Release() takes the same mutex to clear    *)
(* the flag, so it waits for an execution in another thread and not for    *)
(* one in its own. A null tester is no token and is not in Tokens.         *)
(***************************************************************************)
EXTENDS Naturals

CONSTANTS
    Tokens,     \* the life tokens
    Threads,    \* the threads that execute and release
    NoThread    \* the holder of a free mutex

ASSUME NoThreadAssumption == NoThread \notin Threads

VARIABLES
    alive,      \* [Tokens -> BOOLEAN], _alive
    holder,     \* the thread that holds _sync of each token
    depth       \* how many times the holder has locked it

lifeVars == <<alive, holder, depth>>

LifeTypeOK ==
    /\ alive \in [Tokens -> BOOLEAN]
    /\ holder \in [Tokens -> Threads \cup {NoThread}]
    /\ depth \in [Tokens -> Nat]
    /\ \A l \in Tokens : depth[l] = 0 <=> holder[l] = NoThread

LifeInit ==
    /\ alive = [l \in Tokens |-> TRUE]
    /\ holder = [l \in Tokens |-> NoThread]
    /\ depth = [l \in Tokens |-> 0]

\* _sync can be locked by th.
CanLock(l, th) == holder[l] \in {NoThread, th}

\* TryStartExecution() that returns true: the mutex stays locked.
TryStartExecution(l, th) ==
    /\ CanLock(l, th)
    /\ alive[l]
    /\ holder' = [holder EXCEPT ![l] = th]
    /\ depth' = [depth EXCEPT ![l] = @ + 1]
    /\ UNCHANGED alive

\* TryStartExecution() that returns false.
RefuseExecution(l, th) ==
    /\ CanLock(l, th)
    /\ ~alive[l]
    /\ UNCHANGED lifeVars

\* FinishExecution() unlocks one level.
FinishExecution(l, th) ==
    /\ holder[l] = th
    /\ holder' = [holder EXCEPT ![l] = IF depth[l] = 1 THEN NoThread ELSE th]
    /\ depth' = [depth EXCEPT ![l] = @ - 1]
    /\ UNCHANGED alive

\* Mutated form of Kill: the flag is cleared without the mutex.
KillAtOnce(l, th) ==
    /\ alive' = [alive EXCEPT ![l] = FALSE]
    /\ UNCHANGED <<holder, depth>>

\* Kill(), the body of Release() and of the first half of Reset().
Kill(l, th) ==
    /\ CanLock(l, th)
    /\ alive' = [alive EXCEPT ![l] = FALSE]
    /\ UNCHANGED <<holder, depth>>

=============================================================================
