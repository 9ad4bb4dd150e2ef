----------------------------- MODULE TaskExecutors -----------------------------
(***************************************************************************)
(* Who executes tasks: an AsyncTaskExecutor, a DeferredTaskExecutor or a   *)
(* ThreadPool; which of them is decided at the start.                      *)
(***************************************************************************)
EXTENDS AsyncTaskExecutor

CONSTANTS
    Executors,      \* the threads that call ExecuteTasks
    Releasers,      \* other threads that release the life tokens then
    MaxThreads, IdleTimeout, PoolTasks, Clients     \* of the pool

VARIABLES
    kind,           \* "async", "deferred" or "pool"
    dAlive, dHolder, dDepth, dQueue, dActive, dPc, dTop, dReleased, dAdded,
    pSize, pLive, pTask, pCompleted, pIdle, pPc, pWoken, pCancelled, pChecked,
    pWaits, pNotified, pDtor, pAccepted, pStarted

deferredVars == <<dAlive, dHolder, dDepth, dQueue, dActive, dPc, dTop, dReleased, dAdded>>
poolVars == <<pSize, pLive, pTask, pCompleted, pIdle, pPc, pWoken, pCancelled, pChecked,
              pWaits, pNotified, pDtor, pAccepted, pStarted>>
allVars == <<vars, deferredVars, poolVars, kind>>

DeferredThreads == Executors \cup Releasers

Deferred == INSTANCE DeferredTaskExecutor WITH
    Threads <- DeferredThreads, Outsiders <- Releasers,
    alive <- dAlive, holder <- dHolder, depth <- dDepth, queue <- dQueue,
    active <- dActive, pc <- dPc, top <- dTop, released <- dReleased, added <- dAdded

Pool == INSTANCE ThreadPool WITH
    Tasks <- PoolTasks,
    size <- pSize, live <- pLive, task <- pTask, completed <- pCompleted,
    idle <- pIdle, pc <- pPc, woken <- pWoken, cancelled <- pCancelled,
    checked <- pChecked, waits <- pWaits, notified <- pNotified, dtor <- pDtor,
    accepted <- pAccepted, started <- pStarted

ASSUME DeferredConstants == Deferred!DeferredAssumption
ASSUME PoolAssumptions ==
    Pool!MaxThreadsAssumption /\ Pool!IdleTimeoutAssumption /\ Pool!TasksAssumption

ExecutorsInit ==
    /\ kind \in {"async", "deferred", "pool"}
    /\ Init /\ Deferred!Init /\ Pool!Init

ExecutorsNext ==
    \/ kind = "async" /\ Next /\ UNCHANGED <<deferredVars, poolVars, kind>>
    \/ kind = "deferred" /\ Deferred!Next /\ UNCHANGED <<vars, poolVars, kind>>
    \/ kind = "pool" /\ Pool!Next /\ UNCHANGED <<vars, deferredVars, kind>>

ExecutorsSpec == ExecutorsInit /\ [][ExecutorsNext]_allVars

\* One executing thread at a time, or the pool.
SerialStart == ExecutorsInit /\ kind # "pool"
PoolStart == ExecutorsInit /\ kind = "pool"

SerialFairSpec ==
    /\ SerialStart /\ [][ExecutorsNext]_allVars
    /\ (kind = "async" => Fairness) /\ (kind = "deferred" => Deferred!Fairness)
PoolFairSpec == PoolStart /\ [][ExecutorsNext]_allVars /\ Pool!Fairness

-----------------------------------------------------------------------------
(* Properties *)

\* The deferred executor keeps the promises of SerialExecutor, too.
DeferredImplementsSerialExecutor == Deferred!ImplementsSerialExecutor

\* Nobody waits for ever: for the thread of the asynchronous executor, or for the
\* flag of the deferred one.
SerialExecutorsGoOn == NobodyWaitsForEver /\ Deferred!OthersMayExecute

\* Each task that the pool has accepted, and each client that waits for room,
\* is in the hands of a worker that will see to it.
NobodyIsForgotten == Pool!NobodyIsForgotten

\* A worker that the pool joins under its mutex does not need that to end.
JoinsOnlySleepers == Pool!JoinsOnlySleepers

\* The pool starts the tasks, and calls of it return.
NobodyWaitsForThePool == Pool!NobodyWaitsForEver
=============================================================================
