-------------------------- MODULE AsyncTaskExecutor --------------------------
(***************************************************************************)
(* executor/AsyncTaskExecutor.cpp: a queue under _syncRoot and a worker    *)
(* thread that takes tasks from its front and executes them, unlocked,     *)
(* under the task's life token. _syncRoot is only ever held for sections   *)
(* that block on nothing, so each of them is one action; the mutex of a    *)
(* life token is held during the execution and is explicit (TaskLife).     *)
(* _condVar.Wait(_syncRoot, token) is the wait of CancellableWait, taken   *)
(* here as what is shown there: it ends after a broadcast, after a         *)
(* cancellation, or for no reason.                                         *)
(***************************************************************************)
EXTENDS TaskLife, Sequences, FiniteSets

CONSTANTS
    Tasks,          \* the tasks, each added at most once
    NoTask,
    Worker,         \* the worker thread
    Outsiders,      \* threads that use and release the same life tokens
    NullTester,     \* the tester of a task without a token
    TesterOf        \* [Tasks -> Tokens \cup {NullTester}]

ASSUME ExecutorThreads == Threads = Outsiders \cup {Worker} /\ Worker \notin Outsiders
ASSUME TasksAssumption == NoTask \notin Tasks
ASSUME TestersAssumption ==
    /\ NullTester \notin Tokens
    /\ TesterOf \in [Tasks -> Tokens \cup {NullTester}]

VARIABLES
    queue,          \* _queue
    pc,             \* where the worker is in ThreadFunc
    top,            \* the task the worker has taken out
    cancelled,      \* the destructor of the executor cancelled the worker
    joined,         \* and has joined it
    outPc,          \* what each outsider does with its token
    outToken,
    released,       \* tokens whose Release() by another thread has returned
    added,          \* history: the tasks ever added
    executed        \* history: the tasks that ran, in order

executorVars == <<queue, pc, top, cancelled, joined>>
outVars == <<outPc, outToken, released>>
historyVars == <<added, executed>>
vars == <<lifeVars, executorVars, outVars, historyVars>>

\* Types; a worker that executes holds the task's token, and nothing else.
TypeOK ==
    /\ LifeTypeOK
    /\ queue \in Seq(Tasks)
    /\ pc \in {"loop", "asleep", "guard", "run", "exit"}
    /\ top \in Tasks \cup {NoTask}
    /\ top = NoTask <=> pc \notin {"guard", "run"}
    /\ cancelled \in BOOLEAN
    /\ joined \in BOOLEAN
    /\ outPc \in [Outsiders -> {"idle", "run", "release"}]
    /\ outToken \in [Outsiders -> Tokens]
    /\ released \subseteq Tokens
    /\ added \subseteq Tasks
    /\ executed \in Seq(Tasks)
    /\ \A l \in Tokens : holder[l] = Worker <=> pc = "run" /\ TesterOf[top] = l

Init ==
    /\ LifeInit
    /\ queue = <<>>
    /\ pc = "loop"
    /\ top = NoTask
    /\ cancelled = FALSE
    /\ joined = FALSE
    /\ outPc = [o \in Outsiders |-> "idle"]
    /\ outToken \in [Outsiders -> Tokens]
    /\ released = {}
    /\ added = {}
    /\ executed = <<>>

-----------------------------------------------------------------------------
(* DoAddTask *)

\* Mutated form of AddTask: the task goes to the wrong end of the queue.
AddTaskInFront(t) ==
    /\ t \notin added
    /\ pc = "run" \/ ~cancelled
    /\ queue' = <<t>> \o queue
    /\ pc' = IF pc = "asleep" THEN "loop" ELSE pc
    /\ added' = added \cup {t}
    /\ UNCHANGED <<lifeVars, outVars, top, cancelled, joined, executed>>

\* Anyone adds while the executor is in use; while it is destroyed, only the
\* task that runs can still do so.
AddTask(t) ==
    /\ t \notin added
    /\ pc = "run" \/ ~cancelled
    /\ queue' = Append(queue, t)
    /\ pc' = IF pc = "asleep" THEN "loop" ELSE pc
    /\ added' = added \cup {t}
    /\ UNCHANGED <<lifeVars, outVars, top, cancelled, joined, executed>>

-----------------------------------------------------------------------------
(* ThreadFunc and ExecuteTask *)

\* while (token || !_queue.empty()): nothing to do, wait.
WaitForTask ==
    /\ pc = "loop"
    /\ queue = <<>>
    /\ ~cancelled
    /\ pc' = "asleep"
    /\ UNCHANGED <<lifeVars, outVars, historyVars, queue, top, cancelled, joined>>

\* The wait ends: the token is cancelled, or a spurious wake up.
WakeUp ==
    /\ pc = "asleep"
    /\ pc' = "loop"
    /\ UNCHANGED <<lifeVars, outVars, historyVars, queue, top, cancelled, joined>>

TakeTask ==
    /\ pc = "loop"
    /\ queue # <<>>
    /\ top' = Head(queue)
    /\ queue' = Tail(queue)
    /\ pc' = "guard"
    /\ UNCHANGED <<lifeVars, outVars, historyVars, cancelled, joined>>

\* LocalExecutionGuard lets the task run.
StartTask ==
    /\ pc = "guard"
    /\ IF TesterOf[top] \in Tokens
       THEN TryStartExecution(TesterOf[top], Worker)
       ELSE UNCHANGED lifeVars
    /\ pc' = "run"
    /\ executed' = Append(executed, top)
    /\ UNCHANGED <<outVars, queue, top, cancelled, joined, added>>

\* The task's token is dead: the task is destroyed, not run.
SkipTask ==
    /\ pc = "guard"
    /\ TesterOf[top] \in Tokens
    /\ RefuseExecution(TesterOf[top], Worker)
    /\ pc' = "loop"
    /\ top' = NoTask
    /\ UNCHANGED <<outVars, historyVars, queue, cancelled, joined>>

\* Mutated form of FinishTask: a task that throws leaves its token locked.
FinishTaskLocked ==
    /\ pc = "run"
    /\ pc' = "loop"
    /\ top' = NoTask
    /\ UNCHANGED <<lifeVars, outVars, historyVars, queue, cancelled, joined>>

\* The task returns or throws, which the exception handler gets: the guard ends.
FinishTask ==
    /\ pc = "run"
    /\ IF TesterOf[top] \in Tokens
       THEN FinishExecution(TesterOf[top], Worker)
       ELSE UNCHANGED lifeVars
    /\ pc' = "loop"
    /\ top' = NoTask
    /\ UNCHANGED <<outVars, historyVars, queue, cancelled, joined>>

\* The running task releases its own token.
ReleaseByTask ==
    /\ pc = "run"
    /\ TesterOf[top] \in Tokens
    /\ Kill(TesterOf[top], Worker)
    /\ UNCHANGED <<executorVars, outVars, historyVars>>

\* Mutated form of Exit: a cancelled worker leaves its tasks.
ExitAtOnce ==
    /\ pc = "loop"
    /\ cancelled
    /\ pc' = "exit"
    /\ UNCHANGED <<lifeVars, outVars, historyVars, queue, top, cancelled, joined>>

\* The loop ends only with the queue empty.
Exit ==
    /\ pc = "loop"
    /\ cancelled
    /\ queue = <<>>
    /\ pc' = "exit"
    /\ UNCHANGED <<lifeVars, outVars, historyVars, queue, top, cancelled, joined>>

-----------------------------------------------------------------------------
(* The destructor: ~Thread cancels the worker and joins it *)

CancelWorker ==
    /\ ~cancelled
    /\ cancelled' = TRUE
    /\ UNCHANGED <<lifeVars, outVars, historyVars, queue, pc, top, joined>>

JoinWorker ==
    /\ cancelled
    /\ pc = "exit"
    /\ joined' = TRUE
    /\ UNCHANGED <<lifeVars, outVars, historyVars, queue, pc, top, cancelled>>

-----------------------------------------------------------------------------
(* Other threads with the same life tokens *)

\* Another executor, or a signal, executes something under token l.
StartOutside(o, l) ==
    /\ outPc[o] = "idle"
    /\ TryStartExecution(l, o)
    /\ outPc' = [outPc EXCEPT ![o] = "run"]
    /\ outToken' = [outToken EXCEPT ![o] = l]
    /\ UNCHANGED <<executorVars, historyVars, released>>

FinishOutside(o) ==
    /\ outPc[o] = "run"
    /\ FinishExecution(outToken[o], o)
    /\ outPc' = [outPc EXCEPT ![o] = "idle"]
    /\ UNCHANGED <<executorVars, historyVars, outToken, released>>

CallRelease(o, l) ==
    /\ outPc[o] = "idle"
    /\ l \notin released
    /\ outPc' = [outPc EXCEPT ![o] = "release"]
    /\ outToken' = [outToken EXCEPT ![o] = l]
    /\ UNCHANGED <<lifeVars, executorVars, historyVars, released>>

\* Release() gets the token's mutex, clears the flag and returns.
ReturnFromRelease(o) ==
    /\ outPc[o] = "release"
    /\ Kill(outToken[o], o)
    /\ outPc' = [outPc EXCEPT ![o] = "idle"]
    /\ released' = released \cup {outToken[o]}
    /\ UNCHANGED <<executorVars, historyVars, outToken>>

-----------------------------------------------------------------------------

WorkerStep ==
    \/ WaitForTask \/ TakeTask \/ StartTask \/ SkipTask \/ FinishTask \/ Exit

OutsiderStep(o) ==
    \/ FinishOutside(o) \/ ReturnFromRelease(o)
    \/ \E l \in Tokens : StartOutside(o, l) \/ CallRelease(o, l)

Next ==
    \/ WorkerStep \/ WakeUp \/ ReleaseByTask
    \/ CancelWorker \/ JoinWorker
    \/ \E t \in Tasks : AddTask(t)
    \/ \E o \in Outsiders : OutsiderStep(o)

Spec == Init /\ [][Next]_vars

(***************************************************************************)
(* The worker runs, tasks and other guarded executions end, and a thread   *)
(* that waits for a life token's mutex gets it. A sleeping worker wakes    *)
(* when it was cancelled (CancelEndsWait of CancellableWait).              *)
(***************************************************************************)
Fairness ==
    /\ WF_vars(WorkerStep)
    /\ WF_vars(WakeUp /\ cancelled)
    /\ WF_vars(JoinWorker)
    /\ SF_vars(StartTask \/ SkipTask)
    /\ \A o \in Outsiders :
        WF_vars(FinishOutside(o)) /\ SF_vars(ReturnFromRelease(o))

FairSpec == Spec /\ Fairness

-----------------------------------------------------------------------------
(* Properties *)

(***************************************************************************)
(* From the return of Release() in another thread on, no task guarded by   *)
(* the token runs in the executor and nothing runs under it elsewhere:     *)
(* what the task refers to may be destroyed.                               *)
(***************************************************************************)
NothingRunsAfterRelease ==
    \A l \in released :
        /\ ~(pc = "run" /\ TesterOf[top] = l)
        /\ \A o \in Outsiders : ~(outPc[o] = "run" /\ outToken[o] = l)

\* The executor keeps the promises of SerialExecutor.
Promise == INSTANCE SerialExecutor WITH
    LifeTokens <- Tokens,
    pending <- IF pc = "guard" THEN <<top>> \o queue ELSE queue,
    current <- IF pc = "run" THEN top ELSE NoTask,
    dead <- {l \in Tokens : ~alive[l]},
    history <- added

(***************************************************************************)
(* Tasks start in the order of AddTask, one at a time and once, and none   *)
(* starts or goes on past the release of its token: SerialExecutor.        *)
(***************************************************************************)
ImplementsSerialExecutor == Promise!Spec

EveryTaskIsServed ==
    \A t \in Tasks :
        (t \in added) ~> (\A i \in 1..Len(queue) : queue[i] # t)

DestructorReturns == cancelled ~> joined

ReleaseReturns ==
    \A o \in Outsiders : (outPc[o] = "release") ~> (outPc[o] # "release")

(***************************************************************************)
(* Every added task is taken from the queue in the end, also when the      *)
(* executor is destroyed meanwhile, and the destructor and Release()       *)
(* return, both of which wait for running tasks.                           *)
(***************************************************************************)
NobodyWaitsForEver == EveryTaskIsServed /\ DestructorReturns /\ ReleaseReturns

=============================================================================
