------------------------ MODULE DeferredTaskExecutor -------------------------
(***************************************************************************)
(* executor/DeferredTaskExecutor.cpp: a queue that some thread empties by  *)
(* calling ExecuteTasks. Any thread may call it at any time, also a task   *)
(* that runs in it; all but one of the calls return at once. _syncRoot is  *)
(* held only for sections that block on nothing, each of them one action.  *)
(***************************************************************************)
EXTENDS TaskLife, Sequences

CONSTANTS
    Tasks,          \* the tasks, each added at most once
    NoTask,
    Executors,      \* the threads that call ExecuteTasks
    Outsiders,      \* the threads that release the life tokens
    NullTester,
    TesterOf        \* [Tasks -> Tokens \cup {NullTester}]

\* What the constants are.
DeferredAssumption ==
    /\ Threads = Outsiders \cup Executors
    /\ Executors \cap Outsiders = {} /\ NoThread \notin Threads
    /\ NoTask \notin Tasks
    /\ NullTester \notin Tokens
    /\ TesterOf \in [Tasks -> Tokens \cup {NullTester}]

VARIABLES
    queue,          \* _queue
    active,         \* the thread named by _activeExecutor, or NoThread
    pc,             \* where each executing thread is in ExecuteTasks
    top,            \* the task each of them has taken out
    released,       \* tokens whose Release() by another thread has returned
    added           \* history: the tasks ever added

vars == <<lifeVars, queue, active, pc, top, released, added>>

\* Types; whoever is inside the loop of ExecuteTasks is the active executor.
TypeOK ==
    /\ LifeTypeOK
    /\ queue \in Seq(Tasks)
    /\ active \in Executors \cup {NoThread}
    /\ pc \in [Executors -> {"idle", "loop", "guard", "run"}]
    /\ top \in [Executors -> Tasks \cup {NoTask}]
    /\ released \subseteq Tokens
    /\ added \subseteq Tasks
    /\ \A e \in Executors : pc[e] # "idle" <=> active = e

Init ==
    /\ LifeInit
    /\ queue = <<>>
    /\ active = NoThread
    /\ pc = [e \in Executors |-> "idle"]
    /\ top = [e \in Executors |-> NoTask]
    /\ released = {}
    /\ added = {}

Goto(e, l) == pc' = [pc EXCEPT ![e] = l]

AddTask(t) ==
    /\ t \notin added
    /\ queue' = Append(queue, t)
    /\ added' = added \cup {t}
    /\ UNCHANGED <<lifeVars, active, pc, top, released>>

ClearTasks ==
    /\ queue # <<>>
    /\ queue' = <<>>
    /\ UNCHANGED <<lifeVars, active, pc, top, released, added>>

\* Mutated form of ExecuteTasks: a second thread joins in.
ExecuteTasksTogether(e) ==
    /\ pc[e] = "idle"
    /\ active' = e
    /\ Goto(e, "loop")
    /\ UNCHANGED <<lifeVars, queue, top, released, added>>

\* ExecuteTasks; a call while another one is active returns and changes nothing.
ExecuteTasks(e) ==
    /\ pc[e] = "idle"
    /\ active = NoThread
    /\ active' = e
    /\ Goto(e, "loop")
    /\ UNCHANGED <<lifeVars, queue, top, released, added>>

\* Mutated form of Leave: the flag is left set.
LeaveUncleared(e) ==
    /\ pc[e] = "loop"
    /\ Goto(e, "idle")
    /\ UNCHANGED <<lifeVars, queue, active, top, released, added>>

\* The queue is empty, the token cancelled, or the interruption point threw.
Leave(e) ==
    /\ pc[e] = "loop"
    /\ active' = NoThread
    /\ Goto(e, "idle")
    /\ UNCHANGED <<lifeVars, queue, top, released, added>>

TakeTask(e) ==
    /\ pc[e] = "loop"
    /\ queue # <<>>
    /\ top' = [top EXCEPT ![e] = Head(queue)]
    /\ queue' = Tail(queue)
    /\ Goto(e, "guard")
    /\ UNCHANGED <<lifeVars, active, released, added>>

StartTask(e) ==
    /\ pc[e] = "guard"
    /\ IF TesterOf[top[e]] \in Tokens
       THEN TryStartExecution(TesterOf[top[e]], e)
       ELSE UNCHANGED lifeVars
    /\ Goto(e, "run")
    /\ UNCHANGED <<queue, active, top, released, added>>

SkipTask(e) ==
    /\ pc[e] = "guard"
    /\ TesterOf[top[e]] \in Tokens
    /\ RefuseExecution(TesterOf[top[e]], e)
    /\ top' = [top EXCEPT ![e] = NoTask]
    /\ Goto(e, "loop")
    /\ UNCHANGED <<queue, active, released, added>>

\* The task returns or throws; the guard ends.
FinishTask(e) ==
    /\ pc[e] = "run"
    /\ IF TesterOf[top[e]] \in Tokens
       THEN FinishExecution(TesterOf[top[e]], e)
       ELSE UNCHANGED lifeVars
    /\ top' = [top EXCEPT ![e] = NoTask]
    /\ Goto(e, "loop")
    /\ UNCHANGED <<queue, active, released, added>>

ReleaseByTask(e) ==
    /\ pc[e] = "run"
    /\ TesterOf[top[e]] \in Tokens
    /\ Kill(TesterOf[top[e]], e)
    /\ UNCHANGED <<queue, active, pc, top, released, added>>

\* Release() by another thread; it gets the token's mutex when no task holds it.
Release(o, l) ==
    /\ Kill(l, o)
    /\ released' = released \cup {l}
    /\ UNCHANGED <<queue, active, pc, top, added>>

Next ==
    \/ \E t \in Tasks : AddTask(t)
    \/ ClearTasks
    \/ \E e \in Executors :
        \/ ExecuteTasks(e) \/ Leave(e) \/ TakeTask(e)
        \/ StartTask(e) \/ SkipTask(e) \/ FinishTask(e) \/ ReleaseByTask(e)
    \/ \E o \in Outsiders, l \in Tokens : Release(o, l)

Spec == Init /\ [][Next]_vars

\* Threads inside ExecuteTasks are scheduled, and tasks end.
Fairness ==
    \A e \in Executors : WF_vars(\/ Leave(e) \/ TakeTask(e)
                                \/ StartTask(e) \/ SkipTask(e) \/ FinishTask(e))

-----------------------------------------------------------------------------
(* Properties *)

Running == {e \in Executors : pc[e] = "run"}
TakenOut == {e \in Executors : pc[e] = "guard"}
TopOf(threads) == top[CHOOSE e \in threads : TRUE]

\* What is still to be started, and what runs.
Pending == IF TakenOut = {} THEN queue ELSE <<TopOf(TakenOut)>> \o queue
Current == IF Running = {} THEN NoTask ELSE TopOf(Running)

\* The executor keeps the promises of SerialExecutor.
Promise == INSTANCE SerialExecutor WITH
    LifeTokens <- Tokens, pending <- Pending, current <- Current,
    dead <- {l \in Tokens : ~alive[l]},
    history <- added

(***************************************************************************)
(* Although every thread may call ExecuteTasks, tasks start in the order   *)
(* of AddTask, one at a time and once, and none runs past the release of   *)
(* its token.                                                              *)
(***************************************************************************)
ImplementsSerialExecutor == Promise!Spec

(***************************************************************************)
(* Whoever executes tasks lets the next one do so at last: _activeExecutor *)
(* is reset however the loop of ExecuteTasks is left.                      *)
(***************************************************************************)
OthersMayExecute == \A e \in Executors : active = e ~> active = NoThread

=============================================================================
