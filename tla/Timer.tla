-------------------------------- MODULE Timer --------------------------------
(***************************************************************************)
(* executor/Timer.cpp: a worker thread runs callbacks at their times, from *)
(* a multimap ordered by time and, within a time, by insertion. The mutex  *)
(* of the queue is held by the worker from the head of its loop to the     *)
(* wait or to the execution, and by clients for sections that block on     *)
(* nothing: each such section is one action. A client reads the clock      *)
(* before it locks, and a removal erases the callback under the mutex and  *)
(* then, without it, kills its life token, which waits for an execution.   *)
(*                                                                         *)
(* The worker may call the timer from inside a callback. That a callback   *)
(* that removes itself destroys the function being executed (_task.reset() *)
(* in CallbackInfo::Release) is outside the model.                         *)
(***************************************************************************)
EXTENDS TaskLife, Sequences, SequencesExt

CONSTANTS
    Worker,         \* the timer's thread
    Clients,        \* the threads that use the timer
    Tasks,          \* the callbacks, each added at most once
    NoTask,
    NullTester,     \* the tester of an AddTask without a life token
    TesterOf,       \* the life token a callback runs under
    Removable,      \* callbacks of SetTimeout and SetTimer: a token of their own
    Delay,          \* time from the call to the first execution, 0 for AddTask
    Period,         \* interval of a SetTimer, NoPeriod for the others
    NoPeriod,
    Never,          \* no deadline
    MaxTime         \* bound of the clock

ASSUME ThreadsAssumption == Worker \notin Clients /\ Threads = Clients \cup {Worker}
ASSUME TasksAssumption == NoTask \notin Tasks /\ Removable \subseteq Tasks
ASSUME TestersAssumption ==
    /\ NullTester \notin Tokens
    /\ TesterOf \in [Tasks -> Tokens \cup {NullTester}]
    /\ \A t \in Removable : /\ TesterOf[t] \in Tokens
                            /\ \A u \in Tasks \ {t} : TesterOf[u] # TesterOf[t]
ASSUME TimesAssumption ==
    /\ MaxTime \in Nat /\ NoPeriod \notin Nat /\ Never \notin Nat
    /\ Delay \in [Tasks -> Nat]
    /\ Period \in [Tasks -> Nat \cup {NoPeriod}]
    /\ \A t \in Tasks \ Removable : Delay[t] = 0 /\ Period[t] = NoPeriod

VARIABLES
    now,            \* _monotonic.Elapsed()
    queue,          \* _queue, in the order of the multimap
    at,             \* _timeToTrigger of each callback
    erased,         \* callbacks with _erased set
    pc,             \* where the worker is
    wakeAt,         \* the deadline of its wait
    top,            \* the callback it has popped
    stamp,          \* the time read before a periodic callback is executed
    currentTime,    \* the time read before the last callbacks are executed
    cancelled,      \* the worker's token
    draining,       \* the worker is in the second loop of ThreadFunc
    adding,         \* the callback a thread has stamped and not yet pushed
    removing,       \* the callback a thread has erased and not yet killed
    added,          \* history: callbacks whose add has returned
    earlier,        \* history: the immediate callbacks added when an add began
    served,         \* history: callbacks executed, or refused by their token
    released,       \* history: tokens whose Release() by a client has returned
    cancelTime      \* history: the time of the cancellation

timeVars == <<at, stamp, currentTime, wakeAt, draining>>
callVars == <<adding, removing, erased>>
histVars == <<added, earlier, served, released, cancelTime>>
vars == <<lifeVars, now, queue, pc, top, cancelled, timeVars, callVars, histVars>>

Immediate == Tasks \ Removable
IsPeriodic(t) == Period[t] # NoPeriod
Queued == ToSet(queue)

Init ==
    /\ LifeInit
    /\ now = 0
    /\ queue = <<>>
    /\ at = [t \in Tasks |-> 0]
    /\ erased = {}
    /\ pc = "loop"
    /\ wakeAt = Never
    /\ top = NoTask
    /\ stamp = 0
    /\ currentTime = 0
    /\ cancelled = FALSE
    /\ draining = FALSE
    /\ adding = [c \in Threads |-> NoTask]
    /\ removing = [c \in Threads |-> NoTask]
    /\ added = {}
    /\ earlier = [t \in Tasks |-> {}]
    /\ served = {}
    /\ released = {}
    /\ cancelTime = MaxTime + 1

Tick ==
    /\ now < MaxTime
    /\ now' = now + 1
    /\ UNCHANGED <<lifeVars, queue, pc, top, cancelled, timeVars, callVars, histVars>>

-----------------------------------------------------------------------------
(* Clients, and the callback that the worker is in. *)

\* A thread that may start a call: a client outside the timer's destructor, or
\* the worker inside a callback.
CanCall(c) ==
    /\ adding[c] = NoTask /\ removing[c] = NoTask
    /\ IF c = Worker THEN pc = "run" ELSE ~cancelled

\* Mutated form of Emplace: a callback goes before the others of its time.
EmplaceBeforeEquals(t, time) == \E k \in 0..Len(queue) :
    /\ k > 0 => at[queue[k]] < time
    /\ k < Len(queue) => at[queue[k + 1]] >= time
    /\ queue' = InsertAt(queue, k + 1, t)

\* t is emplaced at a time: behind all that are not later.
Emplace(t, time) == \E k \in 0..Len(queue) :
    /\ k > 0 => at[queue[k]] <= time
    /\ k < Len(queue) => at[queue[k + 1]] > time
    /\ queue' = InsertAt(queue, k + 1, t)

Broadcast == pc' = IF pc = "asleep" THEN "loop" ELSE pc

\* AddTask, SetTimeout, SetTimer up to the lock: the time is computed.
Stamp(c, t) ==
    /\ CanCall(c)
    /\ t \notin added
    /\ \A d \in Threads : adding[d] # t
    /\ at' = [at EXCEPT ![t] = now + Delay[t]]
    /\ adding' = [adding EXCEPT ![c] = t]
    /\ earlier' = [earlier EXCEPT ![t] = added \cap Immediate]
    /\ UNCHANGED <<lifeVars, now, queue, pc, top, cancelled, stamp, currentTime, wakeAt,
                   draining, removing, erased, added, served, released, cancelTime>>

\* Mutated form of PushNew: the worker is not woken.
PushSilently(c) ==
    /\ adding[c] # NoTask
    /\ Emplace(adding[c], at[adding[c]])
    /\ adding' = [adding EXCEPT ![c] = NoTask]
    /\ added' = added \cup {adding[c]}
    /\ UNCHANGED <<lifeVars, now, pc, top, cancelled, timeVars, removing, erased,
                   earlier, served, released, cancelTime>>

\* ... and the rest under the mutex.
PushNew(c) ==
    /\ adding[c] # NoTask
    /\ Emplace(adding[c], at[adding[c]])
    /\ Broadcast
    /\ adding' = [adding EXCEPT ![c] = NoTask]
    /\ added' = added \cup {adding[c]}
    /\ UNCHANGED <<lifeVars, now, top, cancelled, timeVars, removing, erased,
                   earlier, served, released, cancelTime>>

\* RemoveTask, called when the token of the callback is reset: the queue's part.
\* The token shares the queue, so a client may do it during and after ~Timer.
Erase(c, t) ==
    /\ c = Worker => pc = "run"
    /\ adding[c] = NoTask /\ removing[c] = NoTask
    /\ t \in (added \cap Removable) \ erased
    /\ erased' = erased \cup {t}
    /\ \/ t \notin Queued /\ UNCHANGED queue
       \/ \E i \in DOMAIN queue : queue[i] = t /\ queue' = RemoveAt(queue, i)
    /\ removing' = [removing EXCEPT ![c] = t]
    /\ UNCHANGED <<lifeVars, now, pc, top, cancelled, timeVars, adding, histVars>>

\* RemoveTask's second half: CallbackInfo::Release().
ReleaseCallback(c) ==
    /\ removing[c] # NoTask
    /\ Kill(TesterOf[removing[c]], c)
    /\ removing' = [removing EXCEPT ![c] = NoTask]
    /\ released' = IF c = Worker THEN released ELSE released \cup {TesterOf[removing[c]]}
    /\ UNCHANGED <<now, queue, pc, top, cancelled, timeVars, adding, erased,
                   added, earlier, served, cancelTime>>

\* A client releases the token of its own that AddTask was given.
ReleaseTester(c, l) ==
    /\ c \in Clients /\ adding[c] = NoTask /\ removing[c] = NoTask
    /\ l \notin {TesterOf[t] : t \in Removable}
    /\ l \notin released
    /\ Kill(l, c)
    /\ released' = released \cup {l}
    /\ UNCHANGED <<now, queue, pc, top, cancelled, timeVars, callVars,
                   added, earlier, served, cancelTime>>

\* ~Timer destroys the worker's thread first: its token is cancelled. Destroying
\* a timer that another thread is calling is no behaviour of a correct program.
CancelWorker ==
    /\ ~cancelled
    /\ \A c \in Clients : adding[c] = NoTask
    /\ cancelled' = TRUE
    /\ cancelTime' = now
    /\ UNCHANGED <<lifeVars, now, queue, pc, top, timeVars, callVars,
                   added, earlier, served, released>>

-----------------------------------------------------------------------------
(* ThreadFunc *)

SleepOnEmpty ==
    /\ pc = "loop" /\ ~draining /\ ~cancelled
    /\ queue = <<>>
    /\ pc' = "asleep"
    /\ wakeAt' = Never
    /\ UNCHANGED <<lifeVars, now, queue, top, cancelled, at, stamp, currentTime,
                   draining, callVars, histVars>>

\* The first callback is not due. (If it has become due before the second
\* reading of the clock, the loop is repeated.)
SleepUntilTop ==
    /\ pc = "loop" /\ ~draining /\ ~cancelled
    /\ queue # <<>> /\ at[Head(queue)] > now
    /\ pc' = "asleep"
    /\ wakeAt' = at[Head(queue)]
    /\ UNCHANGED <<lifeVars, now, queue, top, cancelled, at, stamp, currentTime,
                   draining, callVars, histVars>>

\* The wait ends at its deadline or with the cancellation ...
WakeUp ==
    /\ pc = "asleep"
    /\ cancelled \/ (wakeAt # Never /\ now >= wakeAt)
    /\ pc' = "loop"
    /\ UNCHANGED <<lifeVars, now, queue, top, cancelled, timeVars, callVars, histVars>>

\* ... or for no reason.
WakeSpuriously ==
    /\ pc = "asleep"
    /\ pc' = "loop"
    /\ UNCHANGED <<lifeVars, now, queue, top, cancelled, timeVars, callVars, histVars>>

\* The first callback is due: it is popped and the mutex unlocked.
PopDue ==
    /\ pc = "loop" /\ ~draining /\ ~cancelled
    /\ queue # <<>> /\ at[Head(queue)] <= now
    /\ top' = Head(queue)
    /\ queue' = Tail(queue)
    /\ pc' = "popped"
    /\ UNCHANGED <<lifeVars, now, cancelled, timeVars, callVars, histVars>>

\* The time from which a periodic callback's next time is counted.
ReadClock ==
    /\ pc = "popped"
    /\ stamp' = IF IsPeriodic(top) THEN now ELSE stamp
    /\ pc' = "guard"
    /\ UNCHANGED <<lifeVars, now, queue, top, cancelled, at, currentTime, wakeAt,
                   draining, callVars, histVars>>

\* ExecuteTask: the guard admits the execution ...
StartTask ==
    /\ pc = "guard"
    /\ IF TesterOf[top] \in Tokens
       THEN TryStartExecution(TesterOf[top], Worker)
       ELSE UNCHANGED lifeVars
    /\ served' = served \cup {top}
    /\ pc' = "run"
    /\ UNCHANGED <<now, queue, top, cancelled, timeVars, callVars,
                   added, earlier, released, cancelTime>>

\* ... or refuses it.
SkipTask ==
    /\ pc = "guard"
    /\ TesterOf[top] \in Tokens
    /\ RefuseExecution(TesterOf[top], Worker)
    /\ served' = served \cup {top}
    /\ pc' = "executed"
    /\ UNCHANGED <<now, queue, top, cancelled, timeVars, callVars,
                   added, earlier, released, cancelTime>>

\* The callback returns or throws; the guard ends.
FinishTask ==
    /\ pc = "run"
    /\ adding[Worker] = NoTask /\ removing[Worker] = NoTask
    /\ IF TesterOf[top] \in Tokens
       THEN FinishExecution(TesterOf[top], Worker)
       ELSE UNCHANGED lifeVars
    /\ pc' = "executed"
    /\ UNCHANGED <<now, queue, top, cancelled, timeVars, callVars, histVars>>

\* Mutated form of Restart: an erased callback is pushed again.
RestartErased ==
    /\ pc = "executed"
    /\ IF IsPeriodic(top) /\ ~draining
       THEN /\ at' = [at EXCEPT ![top] = stamp + Period[top]]
            /\ Emplace(top, stamp + Period[top])
       ELSE UNCHANGED <<at, queue>>
    /\ top' = NoTask
    /\ pc' = "loop"
    /\ UNCHANGED <<lifeVars, now, cancelled, stamp, currentTime, wakeAt, draining,
                   callVars, histVars>>

\* Mutated form of Restart: the last callbacks are restarted, too.
RestartAlways ==
    /\ pc = "executed"
    /\ IF IsPeriodic(top)
       THEN /\ at' = [at EXCEPT ![top] = stamp + Period[top]]
            /\ IF top \in erased THEN UNCHANGED queue
                                ELSE Emplace(top, stamp + Period[top])
       ELSE UNCHANGED <<at, queue>>
    /\ top' = NoTask
    /\ pc' = "loop"
    /\ UNCHANGED <<lifeVars, now, cancelled, stamp, currentTime, wakeAt, draining,
                   callVars, histVars>>

\* A periodic callback is pushed again unless it has been erased; the last
\* callbacks are not. The worker locks the mutex for its next round.
Restart ==
    /\ pc = "executed"
    /\ IF IsPeriodic(top) /\ ~draining
       THEN /\ at' = [at EXCEPT ![top] = stamp + Period[top]]
            /\ IF top \in erased THEN UNCHANGED queue
                                ELSE Emplace(top, stamp + Period[top])
       ELSE UNCHANGED <<at, queue>>
    /\ top' = NoTask
    /\ pc' = "loop"
    /\ UNCHANGED <<lifeVars, now, cancelled, stamp, currentTime, wakeAt, draining,
                   callVars, histVars>>

\* The token is cancelled: the time is read for the callbacks due by then.
BeginDrain ==
    /\ pc = "loop" /\ ~draining /\ cancelled
    /\ draining' = TRUE
    /\ currentTime' = now
    /\ UNCHANGED <<lifeVars, now, queue, pc, top, cancelled, at, stamp, wakeAt,
                   callVars, histVars>>

\* Mutated form of DrainNext: the bound is taken to be excluded.
DrainEarlier ==
    /\ pc = "loop" /\ draining
    /\ IF queue # <<>> /\ at[Head(queue)] < currentTime
       THEN /\ top' = Head(queue)
            /\ queue' = Tail(queue)
            /\ pc' = "guard"
       ELSE /\ pc' = "exit"
            /\ UNCHANGED <<top, queue>>
    /\ UNCHANGED <<lifeVars, now, cancelled, timeVars, callVars, histVars>>

\* The next of them is popped, or the thread ends.
DrainNext ==
    /\ pc = "loop" /\ draining
    /\ IF queue # <<>> /\ at[Head(queue)] <= currentTime
       THEN /\ top' = Head(queue)
            /\ queue' = Tail(queue)
            /\ pc' = "guard"
       ELSE /\ pc' = "exit"
            /\ UNCHANGED <<top, queue>>
    /\ UNCHANGED <<lifeVars, now, cancelled, timeVars, callVars, histVars>>

WorkerStep ==
    \/ SleepOnEmpty \/ SleepUntilTop \/ WakeUp \/ PopDue \/ ReadClock
    \/ StartTask \/ SkipTask \/ FinishTask \/ Restart
    \/ BeginDrain \/ DrainNext

Finished ==
    /\ pc = "exit"
    /\ UNCHANGED vars

Next ==
    \/ Tick
    \/ \E c \in Threads :
        \/ \E t \in Tasks : Stamp(c, t) \/ Erase(c, t)
        \/ PushNew(c) \/ ReleaseCallback(c)
        \/ \E l \in Tokens : ReleaseTester(c, l)
    \/ CancelWorker
    \/ WorkerStep \/ WakeSpuriously
    \/ Finished

Spec == Init /\ [][Next]_vars

\* The clock goes on; the worker is scheduled and its callbacks end; a client
\* in a call is scheduled, and gets a mutex that stays free.
Fairness ==
    /\ WF_vars(Tick)
    /\ WF_vars(WorkerStep)
    /\ \A c \in Threads : WF_vars(PushNew(c)) /\ WF_vars(ReleaseCallback(c))

-----------------------------------------------------------------------------
(* Properties *)

\* The queue holds each callback once and in the order of their times.
Sorted ==
    \A i, j \in DOMAIN queue :
        i < j => queue[i] # queue[j] /\ at[queue[i]] <= at[queue[j]]

\* Types; the queue is sorted and a callback is in it, in the worker's hands,
\* or neither, and the worker holds a token's mutex while it executes.
TypeOK ==
    /\ LifeTypeOK
    /\ now \in 0..MaxTime
    /\ queue \in Seq(Tasks)
    /\ at \in [Tasks -> Nat]
    /\ erased \subseteq added \cap Removable
    /\ pc \in {"loop", "asleep", "popped", "guard", "run", "executed", "exit"}
    /\ wakeAt \in Nat \cup {Never}
    /\ top \in Tasks \cup {NoTask}
    /\ stamp \in 0..MaxTime /\ currentTime \in 0..MaxTime
    /\ cancelled \in BOOLEAN /\ draining \in BOOLEAN
    /\ adding \in [Threads -> Tasks \cup {NoTask}]
    /\ removing \in [Threads -> Removable \cup {NoTask}]
    /\ added \subseteq Tasks /\ served \subseteq added
    /\ earlier \in [Tasks -> SUBSET Immediate]
    /\ released \subseteq Tokens
    /\ cancelTime \in 0..MaxTime + 1
    /\ Sorted
    /\ top \notin Queued
    /\ pc \in {"popped", "guard", "run", "executed"} <=> top # NoTask
    /\ \A l \in Tokens : holder[l] = Worker <=> pc = "run" /\ TesterOf[top] = l

(***************************************************************************)
(* Once the token of a callback has been reset in another thread, the      *)
(* callback is not running, not waiting and does not come back, also if    *)
(* the worker was restarting it meanwhile (Timer.cpp:248-255, 279-283).    *)
(***************************************************************************)
NothingRunsAfterRemoval ==
    \A l \in released :
        /\ ~alive[l]
        /\ ~(pc = "run" /\ TesterOf[top] = l)
        /\ \A t \in Removable : TesterOf[t] = l => t \notin Queued

(***************************************************************************)
(* The worker never sleeps past a callback: the queue is sorted, and no    *)
(* callback in it is due before the deadline of the wait                   *)
(* (Timer.cpp:264-294).                                                    *)
(***************************************************************************)
NeverOversleeps ==
    /\ TypeOK
    /\ pc = "asleep" => \A t \in Queued : wakeAt # Never /\ wakeAt <= at[t]

(***************************************************************************)
(* Functions given to AddTask start in the order of the calls, also within *)
(* one reading of the clock: those added before the call of another began  *)
(* are taken before it (SameTimeScheduleOrder in TimerTest.cpp).           *)
(***************************************************************************)
StartedInOrder ==
    \A t \in served \cap Immediate : earlier[t] \subseteq served

(***************************************************************************)
(* The destructor executes what was due: when the worker has ended, each   *)
(* callback that had been added and was due at the cancellation has been   *)
(* executed or removed, and only later ones are left (Timer.cpp:298-312).  *)
(***************************************************************************)
DrainedAtExit ==
    pc = "exit" =>
        /\ \A t \in Queued : at[t] > cancelTime
        /\ \A t \in added \ (served \cup erased) : t \in Queued

(***************************************************************************)
(* A callback whose time comes is executed, removed or left to the         *)
(* destructor, whatever sleeps, spurious wakes and other callbacks are     *)
(* between.                                                                *)
(***************************************************************************)
DueTaskIsTaken ==
    \A t \in Tasks :
        t \in Queued /\ at[t] <= MaxTime ~> t \notin Queued \/ pc = "exit"

\* The destructor joins the worker, also with a callback of period 0.
DestructorReturns == cancelled ~> pc = "exit"

(***************************************************************************)
(* A removal returns, although it waits for the mutex that the worker      *)
(* takes for each execution: an erased callback is not restarted.          *)
(***************************************************************************)
RemovalReturns ==
    \A c \in Threads : removing[c] # NoTask ~> removing[c] = NoTask

(***************************************************************************)
(* All waiting in the timer ends: that of a callback for its time, of the  *)
(* destructor for the worker, and of a removal for an execution.           *)
(***************************************************************************)
NobodyWaitsForEver == DueTaskIsTaken /\ DestructorReturns /\ RemovalReturns

=============================================================================
