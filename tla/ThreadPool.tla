------------------------------ MODULE ThreadPool -----------------------------
(***************************************************************************)
(* executor/ThreadPool.cpp: a main worker (0) and up to MaxThreads - 1     *)
(* further ones in the slots of _workers. A worker holds at most one task, *)
(* waiting or being executed. The pool's mutex is held for sections that   *)
(* block on nothing, save one: the main worker, when its idle timeout is   *)
(* over, destroys idle workers under it and so waits for their threads.    *)
(* Each worker has a mutex of its own and gives it up to wait, to execute  *)
(* and to call the pool's TaskCompletedHandler; what it does in between is *)
(* one action.                                                             *)
(*                                                                         *)
(* Outside the model: a task that itself waits for room in the pool.       *)
(***************************************************************************)
EXTENDS Integers, FiniteSets

CONSTANTS
    MaxThreads,     \* _maxThreads
    IdleTimeout,    \* whether _idleTimeout is set
    Tasks,          \* the tasks; each is accepted at most once
    NoTask,
    Clients         \* the threads that queue

MaxThreadsAssumption == MaxThreads \in Nat \ {0}
IdleTimeoutAssumption == IdleTimeout \in BOOLEAN
TasksAssumption == NoTask \notin Tasks

Slots == 1..(MaxThreads - 1)
Workers == 0..(MaxThreads - 1)

VARIABLES
    size,           \* _workers.size()
    live,           \* the slots that hold a worker
    task,           \* _task of each worker
    completed,      \* _completed of the workers in slots
    idle,           \* _idle of the workers in slots
    pc,             \* where each worker's thread is, "none" if there is none
    woken,          \* the sleeping workers that a broadcast has reached
    cancelled,      \* the workers whose token is cancelled
    checked,        \* the slot the main worker has come to in its idle sweep
    waits,          \* the task that each client in WaitQueue waits to queue
    notified,       \* the waiting clients that a broadcast has reached
    dtor,           \* how far ~ThreadPool is
    accepted,       \* history: the tasks ever queued
    started         \* history: the tasks ever executed

slotVars == <<size, live>>
workerVars == <<task, completed, idle, pc, woken, cancelled>>
clientVars == <<waits, notified>>
histVars == <<accepted, started>>
vars == <<slotVars, workerVars, checked, clientVars, dtor, histVars>>

Init ==
    /\ size = 0
    /\ live = {}
    /\ task = [w \in Workers |-> NoTask]
    /\ completed = [w \in Workers |-> FALSE]
    /\ idle = [w \in Workers |-> FALSE]
    /\ pc = [w \in Workers |-> "none"]
    /\ woken = {}
    /\ cancelled = {}
    /\ checked = 0
    /\ waits = [c \in Clients |-> NoTask]
    /\ notified = {}
    /\ dtor = "alive"
    /\ accepted = {}
    /\ started = {}

\* The main worker holds the pool's mutex while it sweeps.
Locked == pc[0] \in {"sweep", "join"}

Asleep(w) == pc[w] \in {"nap", "sleep"}
Goto(w, l) == pc' = [pc EXCEPT ![w] = l]

-----------------------------------------------------------------------------
(* Clients *)

\* Mutated form of Free: a task that waits is not seen, only one that runs.
FreeUnlessRunning(w) == w \notin live \/ pc[w] # "run"

Free(w) == w \notin live \/ task[w] = NoTask

\* DoTryQueue finds no place.
Full ==
    /\ task[0] # NoTask
    /\ \A w \in 1..size : ~Free(w)
    /\ size + 1 >= MaxThreads

\* The worker DoTryQueue chooses otherwise: the main one, the first slot that is
\* empty or has no task, or a new slot.
Place(w) ==
    IF task[0] = NoTask THEN w = 0
    ELSE /\ w \in 1..(size + 1)
         /\ w = size + 1 \/ Free(w)
         /\ \A v \in 1..(w - 1) : ~Free(v)

\* Mutated form of Accept: the worker is not woken.
AcceptSilently(t) ==
    \E w \in Workers :
        /\ Place(w)
        /\ task' = [task EXCEPT ![w] = t]
        /\ completed' = [completed EXCEPT ![w] = FALSE]
        /\ idle' = [idle EXCEPT ![w] = FALSE]
        /\ pc' = IF pc[w] = "none" THEN [pc EXCEPT ![w] = "begin"] ELSE pc
        /\ live' = live \cup ({w} \ {0})
        /\ size' = IF w > size THEN w ELSE size
        /\ accepted' = accepted \cup {t}
        /\ UNCHANGED <<woken, cancelled, checked, dtor, started>>

\* DoTryQueue that returns true: the task is stored and its worker created or
\* woken. If the pool is full there is no place.
Accept(t) ==
    \E w \in Workers :
        /\ Place(w)
        /\ task' = [task EXCEPT ![w] = t]
        /\ completed' = [completed EXCEPT ![w] = FALSE]
        /\ idle' = [idle EXCEPT ![w] = FALSE]
        /\ pc' = IF pc[w] = "none" THEN [pc EXCEPT ![w] = "begin"] ELSE pc
        /\ woken' = IF Asleep(w) THEN woken \cup {w} ELSE woken
        /\ live' = live \cup ({w} \ {0})
        /\ size' = IF w > size THEN w ELSE size
        /\ accepted' = accepted \cup {t}
        /\ UNCHANGED <<cancelled, checked, dtor, started>>

\* Nothing in the pool tells one task from another, so the next one queued may
\* as well be the first that is left.
Unused == Tasks \ (accepted \cup {waits[c] : c \in Clients})

\* A client begins a call; calling a pool that is being destroyed is no
\* behaviour of a correct program.
CanCall(c, t) ==
    /\ ~Locked /\ dtor = "alive"
    /\ waits[c] = NoTask
    /\ Unused # {} /\ t = CHOOSE u \in Unused : TRUE

\* TryQueue and Queue; when the pool is full they return false, or throw.
TryQueue(c, t) ==
    /\ CanCall(c, t)
    /\ Accept(t)
    /\ UNCHANGED clientVars

\* WaitQueue, up to its return or its wait on _completedCond.
WaitQueue(c, t) ==
    /\ CanCall(c, t)
    /\ \/ Accept(t) /\ UNCHANGED clientVars
       \/ /\ Full
          /\ waits' = [waits EXCEPT ![c] = t]
          /\ UNCHANGED <<slotVars, workerVars, checked, notified, dtor, histVars>>

\* WaitQueue tries again after a broadcast.
Retry(c) ==
    /\ c \in notified /\ ~Locked
    /\ notified' = notified \ {c}
    /\ \/ /\ Accept(waits[c])
          /\ waits' = [waits EXCEPT ![c] = NoTask]
       \/ /\ Full
          /\ UNCHANGED <<slotVars, workerVars, checked, waits, dtor, histVars>>

\* Its token is cancelled or times out: WaitQueue throws.
GiveUp(c) ==
    /\ waits[c] # NoTask /\ ~Locked
    /\ waits' = [waits EXCEPT ![c] = NoTask]
    /\ notified' = notified \ {c}
    /\ UNCHANGED <<slotVars, workerVars, checked, dtor, histVars>>

\* Mutated form of NotifyClients: one waiting client is woken, not all of them.
NotifyOne ==
    notified' = notified \cup
        (IF \A c \in Clients : waits[c] = NoTask THEN {}
         ELSE {CHOOSE c \in Clients : waits[c] # NoTask})

\* _completedCond.Broadcast()
NotifyClients == notified' = {c \in Clients : waits[c] # NoTask}

-----------------------------------------------------------------------------
(* Workers: WorkerWrapper::ThreadFunc in the slots *)

\* The wait a worker without a task goes to.
WaitOf(isIdle) == IF ~isIdle /\ IdleTimeout THEN "nap" ELSE "sleep"

\* From the head of the loop to where the worker's mutex is given up next.
Proceed(w, t, isCompleted, isIdle) ==
    /\ Goto(w, CASE w \in cancelled -> "exit"
                 [] w \notin cancelled /\ t # NoTask -> "run"
                 [] w \notin cancelled /\ t = NoTask /\ ~isCompleted -> "handler"
                 [] OTHER -> WaitOf(isIdle))
    /\ started' = IF w \notin cancelled /\ t # NoTask THEN started \cup {t} ELSE started

Begin(w) ==
    /\ w \in Slots /\ pc[w] = "begin"
    /\ Proceed(w, task[w], completed[w], idle[w])
    /\ UNCHANGED <<slotVars, task, completed, idle, woken, cancelled, checked,
                   clientVars, dtor, accepted>>

\* The task returns or throws. Only now is it taken from _task.
FinishTask(w) ==
    /\ w \in Slots /\ pc[w] = "run"
    /\ task' = [task EXCEPT ![w] = NoTask]
    /\ Proceed(w, NoTask, completed[w], idle[w])
    /\ UNCHANGED <<slotVars, completed, idle, woken, cancelled, checked,
                   clientVars, dtor, accepted>>

\* Mutated form of CompletedHandler: it is not called.
NoHandler(w) ==
    /\ w \in Slots /\ pc[w] = "handler" /\ ~Locked
    /\ Goto(w, "handled")
    /\ UNCHANGED <<slotVars, task, completed, idle, woken, cancelled, checked,
                   clientVars, dtor, histVars>>

\* _completedHandler(), without the worker's mutex and with the pool's.
CompletedHandler(w) ==
    /\ w \in Slots /\ pc[w] = "handler" /\ ~Locked
    /\ NotifyClients
    /\ Goto(w, "handled")
    /\ UNCHANGED <<slotVars, task, completed, idle, woken, cancelled, checked,
                   waits, dtor, histVars>>

\* The worker's mutex is locked again: a task may have come, or there is none
\* and the worker waits.
Handled(w) ==
    /\ pc[w] = "handled"
    /\ IF task[w] # NoTask
       THEN /\ Proceed(w, task[w], completed[w], idle[w])
            /\ UNCHANGED completed
       ELSE /\ completed' = [completed EXCEPT ![w] = TRUE]
            /\ Goto(w, WaitOf(idle[w]))
            /\ UNCHANGED started
    /\ UNCHANGED <<slotVars, task, idle, woken, cancelled, checked,
                   clientVars, dtor, accepted>>

\* The wait ends, though not by its timeout.
EndWait(w) ==
    LET isIdle == IF pc[w] = "nap" THEN FALSE ELSE idle[w] IN
    /\ w \in Slots /\ Asleep(w)
    /\ idle' = [idle EXCEPT ![w] = isIdle]
    /\ woken' = woken \ {w}
    /\ Proceed(w, task[w], completed[w], isIdle)
    /\ UNCHANGED <<slotVars, task, completed, cancelled, checked,
                   clientVars, dtor, accepted>>

\* The timed wait returns TimedOut. So it may although it was broadcast to, if
\* its time is over before it has locked the mutex again.
TimeOut(w) ==
    /\ w \in Slots /\ pc[w] = "nap"
    /\ idle' = [idle EXCEPT ![w] = TRUE]
    /\ woken' = woken \ {w}
    /\ Proceed(w, task[w], completed[w], TRUE)
    /\ UNCHANGED <<slotVars, task, completed, cancelled, checked,
                   clientVars, dtor, accepted>>

WakeUp(w) == (w \in woken \/ w \in cancelled) /\ EndWait(w)
WakeSpuriously(w) == w \notin woken /\ EndWait(w)

-----------------------------------------------------------------------------
(* The main worker: ThreadPool::ThreadFunc *)

\* while (!_workers.empty() && !_workers.back()) _workers.pop_back();
Trimmed(n) ==
    /\ n \in 0..size
    /\ n = 0 \/ n \in live
    /\ \A w \in live : w <= n

\* From the head of the loop, with n slots, to where the mutex is given up.
ProceedMain(t, n) ==
    /\ Goto(0, CASE 0 \in cancelled -> "exit"
                 [] 0 \notin cancelled /\ t # NoTask -> "run"
                 [] 0 \notin cancelled /\ t = NoTask /\ n > 0 /\ IdleTimeout -> "nap"
                 [] OTHER -> "sleep")
    /\ IF 0 \notin cancelled /\ t = NoTask THEN NotifyClients ELSE UNCHANGED notified
    /\ started' = IF 0 \notin cancelled /\ t # NoTask THEN started \cup {t} ELSE started

BeginMain ==
    /\ pc[0] = "begin"
    /\ ProceedMain(task[0], size)
    /\ UNCHANGED <<slotVars, task, completed, idle, woken, cancelled, checked,
                   waits, dtor, accepted>>

\* The task returns or throws, and the pool's mutex is locked.
FinishMain ==
    /\ pc[0] = "run"
    /\ task' = [task EXCEPT ![0] = NoTask]
    /\ ProceedMain(NoTask, size)
    /\ UNCHANGED <<slotVars, completed, idle, woken, cancelled, checked,
                   waits, dtor, accepted>>

\* The wait ends, though not by its timeout; empty slots at the end go if it
\* was the timed one.
EndMainWait ==
    /\ Asleep(0)
    /\ size' \in 0..size
    /\ IF pc[0] = "nap" THEN Trimmed(size') ELSE size' = size
    /\ woken' = woken \ {0}
    /\ ProceedMain(task[0], size')
    /\ UNCHANGED <<live, task, completed, idle, cancelled, checked,
                   waits, dtor, accepted>>

WakeMain == 0 \in woken \cup cancelled /\ EndMainWait
WakeMainSpuriously == 0 \notin woken /\ EndMainWait

\* The timed wait returns TimedOut: the sweep begins.
TimeOutMain ==
    /\ pc[0] = "nap"
    /\ woken' = woken \ {0}
    /\ checked' = 1
    /\ Goto(0, "sweep")
    /\ UNCHANGED <<slotVars, task, completed, idle, cancelled, clientVars, dtor, histVars>>

\* Mutated form of IsIdle: without the test of _completed.
IsIdleUnheard(w) == w \in live /\ task[w] = NoTask /\ idle[w]

IsIdle(w) == w \in live /\ task[w] = NoTask /\ completed[w] /\ idle[w]

\* A worker that is not idle is passed over ...
PassOver ==
    /\ pc[0] = "sweep" /\ checked <= size
    /\ ~IsIdle(checked)
    /\ checked' = checked + 1
    /\ UNCHANGED <<slotVars, workerVars, clientVars, dtor, histVars>>

\* ... an idle one is destroyed: its token is cancelled ...
CancelIdle ==
    /\ pc[0] = "sweep" /\ checked <= size
    /\ IsIdle(checked)
    /\ cancelled' = cancelled \cup {checked}
    /\ Goto(0, "join")
    /\ UNCHANGED <<slotVars, task, completed, idle, woken, checked,
                   clientVars, dtor, histVars>>

\* The slot of a worker whose thread has ended is emptied.
Vacate(w, mainPc) ==
    /\ pc[w] = "exit"
    /\ live' = live \ {w}
    /\ pc' = [pc EXCEPT ![w] = "none", ![0] = mainPc]
    /\ cancelled' = cancelled \ {w}
    /\ woken' = woken \ {w}
    /\ task' = [task EXCEPT ![w] = NoTask]
    /\ completed' = [completed EXCEPT ![w] = FALSE]
    /\ idle' = [idle EXCEPT ![w] = FALSE]

\* ... and its thread joined, with the pool's mutex held.
JoinIdle ==
    /\ pc[0] = "join"
    /\ Vacate(checked, "sweep")
    /\ checked' = checked + 1
    /\ UNCHANGED <<size, clientVars, dtor, histVars>>

EndSweep ==
    /\ pc[0] = "sweep" /\ checked > size
    /\ size' \in 0..size /\ Trimmed(size')
    /\ checked' = 0
    /\ ProceedMain(task[0], size')
    /\ UNCHANGED <<live, task, completed, idle, woken, cancelled, waits, dtor, accepted>>

-----------------------------------------------------------------------------
(* ~ThreadPool: the main worker and then the others are cancelled and joined. *)

Destroy ==
    /\ dtor = "alive"
    /\ \A c \in Clients : waits[c] = NoTask
    /\ dtor' = "main"
    /\ cancelled' = cancelled \cup {0}
    /\ UNCHANGED <<slotVars, task, completed, idle, pc, woken, checked,
                   clientVars, histVars>>

JoinMain ==
    /\ dtor = "main"
    /\ pc[0] \in {"none", "exit"}
    /\ dtor' = "slots"
    /\ UNCHANGED <<slotVars, workerVars, checked, clientVars, histVars>>

CancelSlot(w) ==
    /\ dtor = "slots"
    /\ w \in live \ cancelled
    /\ \A v \in live : w <= v
    /\ cancelled' = cancelled \cup {w}
    /\ UNCHANGED <<slotVars, task, completed, idle, pc, woken, checked,
                   clientVars, dtor, histVars>>

JoinSlot(w) ==
    /\ dtor = "slots"
    /\ w \in live \cap cancelled
    /\ Vacate(w, pc[0])
    /\ UNCHANGED <<size, checked, clientVars, dtor, histVars>>

Destroyed ==
    /\ dtor = "slots" /\ live = {}
    /\ UNCHANGED vars

-----------------------------------------------------------------------------
MainStep == BeginMain \/ WakeMain \/ PassOver \/ CancelIdle \/ JoinIdle \/ EndSweep
WorkerStep(w) == Begin(w) \/ Handled(w) \/ WakeUp(w)
Finish == FinishMain \/ \E w \in Slots : FinishTask(w)
DtorStep == JoinMain \/ \E w \in Slots : CancelSlot(w) \/ JoinSlot(w)

Next ==
    \/ \E c \in Clients :
        \/ \E t \in Tasks : TryQueue(c, t) \/ WaitQueue(c, t)
        \/ Retry(c) \/ GiveUp(c)
    \/ MainStep \/ WakeMainSpuriously \/ TimeOutMain
    \/ \E w \in Slots :
        WorkerStep(w) \/ CompletedHandler(w) \/ WakeSpuriously(w) \/ TimeOut(w)
    \/ Finish
    \/ Destroy \/ DtorStep \/ Destroyed

Spec == Init /\ [][Next]_vars

\* Every thread is scheduled, but a task may take for ever. The pool's mutex is
\* free for a whole idle timeout between two sweeps, so whoever waits for it gets
\* it: strong fairness.
Fairness ==
    /\ WF_vars(MainStep)
    /\ \A w \in Slots : WF_vars(WorkerStep(w)) /\ SF_vars(CompletedHandler(w))
    /\ \A c \in Clients : SF_vars(Retry(c))
    /\ WF_vars(DtorStep)

-----------------------------------------------------------------------------
(* Properties *)

\* Types; a task is in one worker at most, within the limit of threads.
TypeOK ==
    /\ size \in 0..(MaxThreads - 1) /\ live \subseteq 1..size
    /\ task \in [Workers -> Tasks \cup {NoTask}]
    /\ completed \in [Workers -> BOOLEAN] /\ idle \in [Workers -> BOOLEAN]
    /\ pc \in [Workers -> {"none", "begin", "run", "handler", "handled",
                           "nap", "sleep", "sweep", "join", "exit"}]
    /\ woken \subseteq Workers /\ cancelled \subseteq Workers
    /\ checked \in 0..MaxThreads
    /\ waits \in [Clients -> Tasks \cup {NoTask}]
    /\ notified \subseteq {c \in Clients : waits[c] # NoTask}
    /\ dtor \in {"alive", "main", "slots"}
    /\ started \subseteq accepted /\ accepted \subseteq Tasks
    /\ \A w \in Slots : w \in live <=> pc[w] # "none"
    /\ \A v, w \in Workers : v # w /\ task[v] # NoTask => task[v] # task[w]

(***************************************************************************)
(* A task that was accepted is not dropped before the pool's destruction:  *)
(* it is in the hands of a worker that will run it, in spite of idle       *)
(* workers being destroyed (ThreadPool.cpp:275-278).                       *)
(***************************************************************************)
NothingDropped ==
    dtor = "alive" =>
        \A t \in accepted \ started : \E w \in {0} \cup live :
            task[w] = t /\ w \notin cancelled /\ pc[w] \notin {"none", "run", "exit"}

(***************************************************************************)
(* A worker that is joined under the pool's mutex does not need it to end: *)
(* it sleeps, or has ended, and is not on its way to TaskCompletedHandler  *)
(* nor in a task that may call the pool (ThreadPool.cpp:51-55, 277).       *)
(***************************************************************************)
JoinsOnlySleepers ==
    pc[0] = "join" => pc[checked] \in {"sleep", "exit"} /\ task[checked] = NoTask

(***************************************************************************)
(* A client waits in WaitQueue only as long as the pool is full: otherwise *)
(* a broadcast has reached it, or a worker is on its way to one. And each  *)
(* task is in the hands of one worker, within the limit of threads.        *)
(***************************************************************************)
WaitsOnlyForRoom ==
    /\ TypeOK
    /\ \A c \in Clients :
            waits[c] # NoTask /\ c \notin notified =>
                \/ Full
                \/ \E w \in live : pc[w] = "handler"

\* Both: each accepted task, and each client that waits for room, is in the
\* hands of a worker that will see to it.
NobodyIsForgotten == NothingDropped /\ WaitsOnlyForRoom

(***************************************************************************)
(* An accepted task is started although all others may run for ever: it is *)
(* given to a worker of its own, never queued behind another.              *)
(***************************************************************************)
TaskIsStarted ==
    \A t \in Tasks : t \in accepted ~> t \in started \/ dtor # "alive"

\* Every task that is executed in a slot ends; so does every other.
SlotTasksEnd == \A w \in Slots : WF_vars(FinishTask(w))
TasksEnd == SlotTasksEnd /\ WF_vars(FinishMain)

\* WaitQueue returns if the tasks in the slots end, though the main worker's,
\* whose end is a broadcast of its own, may not.
WaitQueueReturns ==
    SlotTasksEnd => \A c \in Clients : waits[c] # NoTask ~> waits[c] = NoTask

\* If all tasks end, the destructor has joined every worker at last.
DestructorReturns ==
    TasksEnd => (dtor = "main" ~> dtor = "slots" /\ live = {})

(***************************************************************************)
(* Who calls the pool returns as long as the tasks do: the client in       *)
(* WaitQueue and the destructor.                                           *)
(***************************************************************************)
CallsReturn == WaitQueueReturns /\ DestructorReturns

\* Tasks are started and calls return.
NobodyWaitsForEver == TaskIsStarted /\ CallsReturn

=============================================================================
