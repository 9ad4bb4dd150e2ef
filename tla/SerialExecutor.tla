--------------------------- MODULE SerialExecutor ----------------------------
(***************************************************************************)
(* What an ITaskExecutor with one executing thread at a time promises to   *)
(* those who add tasks to it and release the tasks' life tokens: tasks     *)
(* start in the order of AddTask, one at a time, each at most once; one    *)
(* whose token is dead is passed over; and from the return of Release() on *)
(* no task of that token is running or will run. A task that releases its  *)
(* own token goes on to its end, but is the last one of that token.        *)
(* AsyncTaskExecutor and DeferredTaskExecutor are shown to implement it.   *)
(***************************************************************************)
EXTENDS Naturals, Sequences

CONSTANTS
    Tasks,          \* the tasks, each added at most once
    NoTask,
    LifeTokens,     \* the life tokens
    NullTester,     \* the tester of a task without a token
    TesterOf        \* [Tasks -> LifeTokens \cup {NullTester}]

VARIABLES
    pending,        \* the tasks added and not yet started or passed over
    current,        \* the running task, or NoTask
    dead,           \* the killed life tokens
    released,       \* those of them whose Release() by another thread returned
    history         \* the tasks ever added

vars == <<pending, current, dead, released, history>>

Init ==
    /\ pending = <<>>
    /\ current = NoTask
    /\ dead = {}
    /\ released = {}
    /\ history = {}

Add(t) ==
    /\ t \notin history
    /\ pending' = Append(pending, t)
    /\ history' = history \cup {t}
    /\ UNCHANGED <<current, dead, released>>

Start ==
    /\ current = NoTask
    /\ pending # <<>>
    /\ TesterOf[Head(pending)] \notin dead
    /\ current' = Head(pending)
    /\ pending' = Tail(pending)
    /\ UNCHANGED <<dead, released, history>>

PassOver ==
    /\ current = NoTask
    /\ pending # <<>>
    /\ TesterOf[Head(pending)] \in dead
    /\ pending' = Tail(pending)
    /\ UNCHANGED <<current, dead, released, history>>

Finish ==
    /\ current # NoTask
    /\ current' = NoTask
    /\ UNCHANGED <<pending, dead, released, history>>

RunsUnder(l) == current # NoTask /\ TesterOf[current] = l

Release(l) ==
    /\ ~RunsUnder(l)
    /\ dead' = dead \cup {l}
    /\ released' = released \cup {l}
    /\ UNCHANGED <<pending, current, history>>

ReleaseByTask(l) ==
    /\ RunsUnder(l)
    /\ dead' = dead \cup {l}
    /\ UNCHANGED <<pending, current, released, history>>

\* ClearTasks(); the task about to start may have been taken out already.
Clear ==
    /\ pending # <<>>
    /\ pending' = <<>> \/ pending' = <<Head(pending)>>
    /\ UNCHANGED <<current, dead, released, history>>

Next ==
    \/ \E t \in Tasks : Add(t)
    \/ Start \/ PassOver \/ Finish \/ Clear
    \/ \E l \in LifeTokens : Release(l) \/ ReleaseByTask(l)

Spec == Init /\ [][Next]_vars

=============================================================================
