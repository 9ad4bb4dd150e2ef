------------------------- MODULE TaskExecutors_proofs --------------------------
(***************************************************************************)
(* Proofs about both executors and the pool, for any tasks, life tokens    *)
(* and threads.                                                            *)
(*                                                                         *)
(* AsyncTaskExecutor: types, NothingRunsAfterRelease, and that every step  *)
(* is one of SerialExecutor or changes nothing there. The invariant says   *)
(* who holds the mutex of a life token: exactly the thread that executes   *)
(* under it, once. So a Release() that gets the mutex finds nobody         *)
(* executing, and afterwards the cleared flag lets nobody in.              *)
(*                                                                         *)
(* DeferredTaskExecutor: it implements SerialExecutor although any thread  *)
(* may call ExecuteTasks, because at most one of them is past its first    *)
(* lines (active in Deferred!TypeOK): the one that has the task that is    *)
(* taken out (SomebodyActive), or nobody has one (NobodyActive).           *)
(*                                                                         *)
(* ThreadPool: NobodyIsForgotten and JoinsOnlySleepers. The flags that     *)
(* IsIdle looks at tell where a worker is (PoolPositions), and only the    *)
(* one that is being joined is cancelled (PoolCancels).                    *)
(***************************************************************************)
EXTENDS TaskExecutors, SequenceTheorems, TLAPS

HolderInv ==
    /\ \A l \in Tokens : depth[l] \in {0, 1}
    /\ \A l \in Tokens, o \in Outsiders :
           holder[l] = o <=> outPc[o] = "run" /\ outToken[o] = l

ReleasedInv == \A l \in released : ~alive[l]

IInv ==
    /\ TypeOK
    /\ HolderInv
    /\ ReleasedInv
    /\ NothingRunsAfterRelease

\* The invariant holds at the start ...
LEMMA InitInv == Init => IInv
<1> SUFFICES ASSUME Init PROVE IInv
  OBVIOUS
<1> USE ExecutorThreads, NoThreadAssumption DEF Init, LifeInit
<1>1. LifeTypeOK
  BY DEF LifeTypeOK
<1>2. TypeOK
  <2>1. queue \in Seq(Tasks) /\ executed \in Seq(Tasks)
    OBVIOUS
  <2>2. /\ top = NoTask <=> pc \notin {"guard", "run"}
        /\ \A l \in Tokens : holder[l] = Worker <=> pc = "run" /\ TesterOf[top] = l
    OBVIOUS
  <2>3. outPc \in [Outsiders -> {"idle", "run", "release"}]
    OBVIOUS
  <2> QED
    BY <1>1, <2>1, <2>2, <2>3 DEF TypeOK
<1>3. HolderInv /\ ReleasedInv /\ NothingRunsAfterRelease
  BY DEF HolderInv, ReleasedInv, NothingRunsAfterRelease
<1> QED
  BY <1>2, <1>3 DEF IInv

\* The steps of the worker, and the additions that may wake it.
LEMMA WorkerInv ==
  ASSUME IInv,
         WorkerStep \/ WakeUp \/ ReleaseByTask \/ CancelWorker \/ JoinWorker
                    \/ \E t \in Tasks : AddTask(t)
  PROVE  IInv'
<1> USE ExecutorThreads, NoThreadAssumption, TasksAssumption, TestersAssumption
    DEF IInv, TypeOK, LifeTypeOK, HolderInv, ReleasedInv, NothingRunsAfterRelease,
        lifeVars, outVars, historyVars, executorVars, CanLock
<1>1. CASE WaitForTask
  BY <1>1 DEF WaitForTask
<1>2. CASE TakeTask
  BY <1>2 DEF TakeTask
<1>3. CASE StartTask
  <2>1. CASE TesterOf[top] \in Tokens
    <3> DEFINE l == TesterOf[top]
    <3>1. /\ holder[l] = NoThread
          /\ depth[l] = 0
          /\ alive[l]
          /\ holder' = [holder EXCEPT ![l] = Worker]
          /\ depth' = [depth EXCEPT ![l] = 1]
          /\ alive' = alive
      BY <1>3, <2>1 DEF StartTask, TryStartExecution
    <3>2. LifeTypeOK'
      BY <3>1, <2>1
    <3>3. TypeOK'
      BY <3>1, <3>2, <2>1, <1>3 DEF StartTask
    <3>4. HolderInv'
      BY <3>1, <2>1, <1>3 DEF StartTask
    <3>5. (ReleasedInv /\ NothingRunsAfterRelease)'
      BY <3>1, <2>1, <1>3 DEF StartTask
    <3> QED
      BY <3>3, <3>4, <3>5
  <2>2. CASE TesterOf[top] \notin Tokens
    BY <1>3, <2>2 DEF StartTask
  <2> QED
    BY <2>1, <2>2
<1>4. CASE SkipTask
  BY <1>4 DEF SkipTask, RefuseExecution
<1>5. CASE FinishTask
  <2>1. CASE TesterOf[top] \in Tokens
    <3> DEFINE l == TesterOf[top]
    <3>1. /\ holder[l] = Worker
          /\ depth[l] = 1
          /\ holder' = [holder EXCEPT ![l] = NoThread]
          /\ depth' = [depth EXCEPT ![l] = 0]
          /\ alive' = alive
      BY <1>5, <2>1 DEF FinishTask, FinishExecution
    <3>2. LifeTypeOK'
      BY <3>1, <2>1
    <3>3. TypeOK'
      BY <3>1, <3>2, <2>1, <1>5 DEF FinishTask
    <3>4. HolderInv'
      BY <3>1, <2>1, <1>5 DEF FinishTask
    <3>5. (ReleasedInv /\ NothingRunsAfterRelease)'
      BY <3>1, <2>1, <1>5 DEF FinishTask
    <3> QED
      BY <3>3, <3>4, <3>5
  <2>2. CASE TesterOf[top] \notin Tokens
    BY <1>5, <2>2 DEF FinishTask
  <2> QED
    BY <2>1, <2>2
<1>6. CASE Exit
  BY <1>6 DEF Exit
<1>7. CASE WakeUp
  BY <1>7 DEF WakeUp
<1>8. CASE ReleaseByTask
  BY <1>8 DEF ReleaseByTask, Kill
<1>9. CASE CancelWorker
  BY <1>9 DEF CancelWorker
<1>10. CASE JoinWorker
  BY <1>10 DEF JoinWorker
<1>11. ASSUME NEW t \in Tasks, AddTask(t) PROVE IInv'
  BY <1>11 DEF AddTask
<1> QED
  BY <1>1, <1>2, <1>3, <1>4, <1>5, <1>6, <1>7, <1>8, <1>9, <1>10, <1>11,
     WorkerStep \/ WakeUp \/ ReleaseByTask \/ CancelWorker \/ JoinWorker
                \/ \E t \in Tasks : AddTask(t)
     DEF WorkerStep

\* The steps of the other users of the life tokens.
LEMMA OutsiderInv ==
  ASSUME IInv, NEW o \in Outsiders, OutsiderStep(o)
  PROVE  IInv'
<1> USE ExecutorThreads, NoThreadAssumption, TasksAssumption, TestersAssumption
    DEF IInv, TypeOK, LifeTypeOK, HolderInv, ReleasedInv, NothingRunsAfterRelease,
        lifeVars, outVars, historyVars, executorVars, CanLock
<1>1. CASE FinishOutside(o)
  BY <1>1 DEF FinishOutside, FinishExecution
<1>2. CASE ReturnFromRelease(o)
  BY <1>2 DEF ReturnFromRelease, Kill
<1>3. ASSUME NEW l \in Tokens, StartOutside(o, l) PROVE IInv'
  BY <1>3 DEF StartOutside, TryStartExecution
<1>4. ASSUME NEW l \in Tokens, CallRelease(o, l) PROVE IInv'
  BY <1>4 DEF CallRelease
<1> QED
  BY <1>1, <1>2, <1>3, <1>4, OutsiderStep(o) DEF OutsiderStep

\* ... is kept by every step ...
LEMMA NextInv == IInv /\ [Next]_vars => IInv'
<1> SUFFICES ASSUME IInv, [Next]_vars PROVE IInv'
  OBVIOUS
<1>1. CASE WorkerStep \/ WakeUp \/ ReleaseByTask \/ CancelWorker \/ JoinWorker
                      \/ \E t \in Tasks : AddTask(t)
  BY <1>1, WorkerInv
<1>2. CASE \E o \in Outsiders : OutsiderStep(o)
  BY <1>2, OutsiderInv
<1>3. CASE UNCHANGED vars
  BY <1>3 DEF vars, lifeVars, executorVars, outVars, historyVars, IInv, TypeOK,
      LifeTypeOK, HolderInv, ReleasedInv, NothingRunsAfterRelease
<1> QED
  BY <1>1, <1>2, <1>3 DEF Next

\* Whatever the executor is, each of them takes its own steps or none.
LEMMA EitherExecutor == ExecutorsSpec => Spec /\ Deferred!Spec /\ Pool!Spec
<1>1. ExecutorsInit => Init /\ Deferred!Init /\ Pool!Init
  BY Zenon DEF ExecutorsInit
<1>2. [ExecutorsNext]_allVars => [Next]_vars
  BY Zenon DEF ExecutorsNext, allVars
<1>3. [ExecutorsNext]_allVars => [Deferred!Next]_(Deferred!vars)
  <2>1. UNCHANGED deferredVars => UNCHANGED Deferred!vars
    BY DEF deferredVars, Deferred!vars, Deferred!lifeVars
  <2> QED
    BY <2>1, Zenon DEF ExecutorsNext, allVars
<1>4. [ExecutorsNext]_allVars => [Pool!Next]_(Pool!vars)
  <2>1. UNCHANGED poolVars => UNCHANGED Pool!vars
    BY DEF poolVars, Pool!vars, Pool!slotVars, Pool!workerVars, Pool!clientVars, Pool!histVars
  <2> QED
    BY <2>1, Zenon DEF ExecutorsNext, allVars
<1> QED
  BY <1>1, <1>2, <1>3, <1>4, PTL DEF ExecutorsSpec, Spec, Deferred!Spec, Pool!Spec

\* ... and so always holds.
LEMMA Invariance == ExecutorsSpec => []IInv
<1> QED
  BY InitInv, NextInv, EitherExecutor, PTL DEF Spec

-----------------------------------------------------------------------------

\* Every reachable state is well typed, and the worker holds a life token
\* exactly while it executes a task of that token.
THEOREM TypeCorrect == ExecutorsSpec => []TypeOK
<1>1. IInv => TypeOK
  BY DEF IInv
<1> QED
  BY <1>1, Invariance, PTL

\* When Release() has returned in another thread, nothing runs under its token.
THEOREM NothingRunsAfterReleaseAlways == ExecutorsSpec => []NothingRunsAfterRelease
<1>1. IInv => NothingRunsAfterRelease
  BY DEF IInv
<1> QED
  BY <1>1, Invariance, PTL

-----------------------------------------------------------------------------
(* The refinement: the taken-out task is still at the head of what is pending *)

\* A task put in front of a sequence is its head, the sequence its tail.
LEMMA PutBack ==
  ASSUME NEW q \in Seq(Tasks), NEW t \in Tasks
  PROVE  /\ <<t>> \o q \in Seq(Tasks)
         /\ <<t>> \o q # <<>>
         /\ Head(<<t>> \o q) = t
         /\ Tail(<<t>> \o q) = q
         /\ \A u \in Tasks : <<t>> \o Append(q, u) = Append(<<t>> \o q, u)
<1>1. <<t>> \in Seq(Tasks)
  OBVIOUS
<1>2. <<t>> \o q \in Seq(Tasks) /\ Len(<<t>> \o q) = Len(q) + 1
  BY <1>1
<1>3. <<t>> \o q # <<>> /\ Head(<<t>> \o q) = t
  BY <1>1, <1>2
<1>4. Tail(<<t>> \o q) = q
  BY <1>1, <1>2, <1>3
<1>5. ASSUME NEW u \in Tasks PROVE <<t>> \o Append(q, u) = Append(<<t>> \o q, u)
  BY <1>1, <1>2
<1> QED
  BY <1>2, <1>3, <1>4, <1>5

\* A sequence is its head put in front of its tail.
LEMMA TakeOut ==
  ASSUME NEW q \in Seq(Tasks), q # <<>>
  PROVE  Head(q) \in Tasks /\ Tail(q) \in Seq(Tasks) /\ <<Head(q)>> \o Tail(q) = q
<1>1. Head(q) \in Tasks /\ Tail(q) \in Seq(Tasks) /\ Len(Tail(q)) = Len(q) - 1
  OBVIOUS
<1>2. <<Head(q)>> \o Tail(q) \in Seq(Tasks) /\ Len(<<Head(q)>> \o Tail(q)) = Len(q)
  BY <1>1
<1>3. \A i \in 1..Len(q) : (<<Head(q)>> \o Tail(q))[i] = q[i]
  BY <1>1
<1> QED
  BY <1>1, <1>2, <1>3

\* The executor starts as the abstract one.
LEMMA InitRefines == Init => Promise!Init
  BY NoThreadAssumption DEF Init, LifeInit, Promise!Init

\* A step of the worker is a step of the abstract executor or none;
LEMMA WorkerRefines ==
  ASSUME IInv, WorkerStep
  PROVE  Promise!Next \/ UNCHANGED Promise!vars
<1> USE TasksAssumption, TestersAssumption
    DEF IInv, TypeOK, LifeTypeOK, outVars, historyVars, Promise!vars
<1>1. CASE WaitForTask \/ Exit
  BY <1>1 DEF WaitForTask, Exit, lifeVars
<1>2. CASE TakeTask
  BY <1>2, TakeOut DEF TakeTask, lifeVars
<1>3. CASE StartTask
  <2>1. top \in Tasks /\ top' = top /\ queue' = queue /\ alive' = alive
        /\ released' = released /\ added' = added /\ pc = "guard" /\ pc' = "run"
    BY <1>3 DEF StartTask, TryStartExecution, lifeVars
  <2>2. TesterOf[top] \notin {l \in Tokens : ~alive[l]}
    BY <1>3 DEF StartTask, TryStartExecution
  <2>3. Promise!Start
    BY <2>1, <2>2, PutBack DEF Promise!Start
  <2> QED
    BY <2>3 DEF Promise!Next
<1>4. CASE SkipTask
  <2>1. top \in Tasks /\ queue' = queue /\ alive' = alive
        /\ released' = released /\ added' = added /\ pc = "guard" /\ pc' = "loop"
        /\ TesterOf[top] \in {l \in Tokens : ~alive[l]}
    BY <1>4 DEF SkipTask, RefuseExecution, lifeVars
  <2>2. Promise!PassOver
    BY <2>1, PutBack DEF Promise!PassOver
  <2> QED
    BY <2>2 DEF Promise!Next
<1>5. CASE FinishTask
  <2>1. top \in Tasks /\ queue' = queue /\ alive' = alive
        /\ released' = released /\ added' = added /\ pc = "run" /\ pc' = "loop"
    BY <1>5 DEF FinishTask, FinishExecution, lifeVars
  <2>2. Promise!Finish
    BY <2>1 DEF Promise!Finish
  <2> QED
    BY <2>2 DEF Promise!Next
<1> QED
  BY <1>1, <1>2, <1>3, <1>4, <1>5 DEF WorkerStep

\* so is what clients, the destructor and the running task do,
LEMMA OthersRefine ==
  ASSUME IInv,
         WakeUp \/ ReleaseByTask \/ CancelWorker \/ JoinWorker
                \/ \E t \in Tasks : AddTask(t)
  PROVE  Promise!Next \/ UNCHANGED Promise!vars
<1> USE TasksAssumption, TestersAssumption
    DEF IInv, TypeOK, LifeTypeOK, outVars, historyVars, executorVars, Promise!vars
<1>1. CASE WakeUp \/ CancelWorker \/ JoinWorker
  BY <1>1 DEF WakeUp, CancelWorker, JoinWorker, lifeVars
<1>2. CASE ReleaseByTask
  <2>1. PICK l \in Tokens : l = TesterOf[top]
    BY <1>2 DEF ReleaseByTask
  <2>2. Promise!ReleaseByTask(l)
    BY <1>2, <2>1 DEF ReleaseByTask, Kill, Promise!ReleaseByTask, Promise!RunsUnder
  <2> QED
    BY <2>2 DEF Promise!Next
<1>3. ASSUME NEW t \in Tasks, AddTask(t) PROVE Promise!Add(t)
  <2>1. pc' = "guard" <=> pc = "guard"
    BY <1>3 DEF AddTask
  <2>2. pc' = "run" <=> pc = "run"
    BY <1>3 DEF AddTask
  <2>3. CASE pc = "guard"
    BY <1>3, <2>1, <2>2, <2>3, PutBack DEF AddTask, lifeVars, Promise!Add
  <2>4. CASE pc # "guard"
    BY <1>3, <2>1, <2>2, <2>4 DEF AddTask, lifeVars, Promise!Add
  <2> QED
    BY <2>3, <2>4
<1> QED
  BY <1>1, <1>2, <1>3,
     WakeUp \/ ReleaseByTask \/ CancelWorker \/ JoinWorker
            \/ \E t \in Tasks : AddTask(t)
     DEF Promise!Next

\* and what other threads do under the life tokens;
LEMMA OutsiderRefines ==
  ASSUME IInv, NEW o \in Outsiders, OutsiderStep(o)
  PROVE  Promise!Next \/ UNCHANGED Promise!vars
<1> USE ExecutorThreads, NoThreadAssumption, TasksAssumption, TestersAssumption
    DEF IInv, TypeOK, LifeTypeOK, HolderInv, historyVars, executorVars, Promise!vars
<1>1. CASE FinishOutside(o)
  BY <1>1 DEF FinishOutside, FinishExecution
<1>2. CASE ReturnFromRelease(o)
  <2>1. PICK l \in Tokens : l = outToken[o]
    OBVIOUS
  <2>2. ~Promise!RunsUnder(l)
    BY <1>2, <2>1 DEF ReturnFromRelease, Kill, CanLock, Promise!RunsUnder
  <2>3. Promise!Release(l)
    BY <1>2, <2>1, <2>2 DEF ReturnFromRelease, Kill, Promise!Release
  <2> QED
    BY <2>3 DEF Promise!Next
<1>3. ASSUME NEW l \in Tokens, StartOutside(o, l) PROVE UNCHANGED Promise!vars
  BY <1>3 DEF StartOutside, TryStartExecution
<1>4. ASSUME NEW l \in Tokens, CallRelease(o, l) PROVE UNCHANGED Promise!vars
  BY <1>4 DEF CallRelease, lifeVars
<1> QED
  BY <1>1, <1>2, <1>3, <1>4, OutsiderStep(o) DEF OutsiderStep

\* so every step is.
LEMMA NextRefines == IInv /\ [Next]_vars => [Promise!Next]_Promise!vars
<1> SUFFICES ASSUME IInv, [Next]_vars PROVE Promise!Next \/ UNCHANGED Promise!vars
  OBVIOUS
<1>1. CASE WorkerStep
  BY <1>1, WorkerRefines
<1>2. CASE WakeUp \/ ReleaseByTask \/ CancelWorker \/ JoinWorker
                  \/ \E t \in Tasks : AddTask(t)
  BY <1>2, OthersRefine
<1>3. CASE \E o \in Outsiders : OutsiderStep(o)
  BY <1>3, OutsiderRefines
<1>4. CASE UNCHANGED vars
  BY <1>4 DEF vars, lifeVars, executorVars, outVars, historyVars, Promise!vars
<1> QED
  BY <1>1, <1>2, <1>3, <1>4 DEF Next

\* The executor implements SerialExecutor: order, one at a time, once each, and
\* nothing past a release.
THEOREM Implements == ExecutorsSpec => ImplementsSerialExecutor
<1> QED
  BY InitRefines, NextRefines, Invariance, EitherExecutor, PTL DEF Spec, Promise!Spec, ImplementsSerialExecutor

-----------------------------------------------------------------------------
(* DeferredTaskExecutor *)

\* Whoever executes has a task, and holds its token's mutex, once, while it runs.
DeferredInv ==
    /\ Deferred!TypeOK
    /\ \A e \in Executors : dTop[e] = NoTask <=> dPc[e] \in {"idle", "loop"}
    /\ \A l \in Tokens : dDepth[l] \in {0, 1} /\ dHolder[l] \in Executors \cup {NoThread}
    /\ \A l \in Tokens, e \in Executors :
           dHolder[l] = e <=> dPc[e] = "run" /\ TesterOf[dTop[e]] = l

\* The constants of the deferred executor.
LEMMA DeferredThreadsApart ==
  /\ DeferredThreads = Executors \cup Releasers /\ Executors \cap Releasers = {}
  /\ NoThread \notin DeferredThreads /\ NoTask \notin Tasks /\ NullTester \notin Tokens
  /\ TesterOf \in [Tasks -> Tokens \cup {NullTester}]
  BY DeferredConstants DEF Deferred!DeferredAssumption, DeferredThreads

\* The executor that is past the first lines of ExecuteTasks is alone there: what is
\* taken out, or runs, is its task; before a step ...
LEMMA SomebodyActive ==
  ASSUME DeferredInv, NEW e \in Executors, dPc[e] # "idle"
  PROVE  /\ \A d \in Executors : d # e => dPc[d] = "idle"
         /\ dPc[e] = "guard" => Deferred!Pending = <<dTop[e]>> \o dQueue
         /\ dPc[e] # "guard" => Deferred!Pending = dQueue
         /\ dPc[e] = "run" => Deferred!Current = dTop[e]
         /\ dPc[e] # "run" => Deferred!Current = NoTask
<1>1. \A d \in Executors : d # e => dPc[d] = "idle"
  BY DEF DeferredInv, Deferred!TypeOK
<1>2. /\ dPc[e] = "guard" => Deferred!TakenOut = {e}
      /\ dPc[e] # "guard" => Deferred!TakenOut = {}
      /\ dPc[e] = "run" => Deferred!Running = {e}
      /\ dPc[e] # "run" => Deferred!Running = {}
  BY <1>1 DEF Deferred!TakenOut, Deferred!Running
<1>3. Deferred!TopOf({e}) = dTop[e] /\ {e} # {}
  BY DEF Deferred!TopOf
<1> QED
  BY <1>1, <1>2, <1>3 DEF Deferred!Pending, Deferred!Current

\* ... and after it.
LEMMA SomebodyStaysActive ==
  ASSUME DeferredInv', NEW e \in Executors, dPc'[e] # "idle"
  PROVE  /\ dPc'[e] = "guard" => Deferred!Pending' = <<dTop'[e]>> \o dQueue'
         /\ dPc'[e] # "guard" => Deferred!Pending' = dQueue'
         /\ dPc'[e] = "run" => Deferred!Current' = dTop'[e]
         /\ dPc'[e] # "run" => Deferred!Current' = NoTask
<1>1. \A d \in Executors : d # e => dPc'[d] = "idle"
  BY DEF DeferredInv, Deferred!TypeOK
<1>2. /\ dPc'[e] = "guard" => Deferred!TakenOut' = {e}
      /\ dPc'[e] # "guard" => Deferred!TakenOut' = {}
      /\ dPc'[e] = "run" => Deferred!Running' = {e}
      /\ dPc'[e] # "run" => Deferred!Running' = {}
  BY <1>1 DEF Deferred!TakenOut, Deferred!Running
<1>3. Deferred!TopOf({e})' = dTop'[e] /\ {e} # {}
  BY DEF Deferred!TopOf
<1> QED
  BY <1>1, <1>2, <1>3 DEF Deferred!Pending, Deferred!Current, Deferred!TopOf

\* If nobody is there, all that is pending is in the queue.
LEMMA NobodyActive ==
  /\ (\A e \in Executors : dPc[e] = "idle") =>
        Deferred!Pending = dQueue /\ Deferred!Current = NoTask
  /\ (\A e \in Executors : dPc'[e] = "idle") =>
        Deferred!Pending' = dQueue' /\ Deferred!Current' = NoTask
<1>1. (\A e \in Executors : dPc[e] = "idle") =>
          Deferred!TakenOut = {} /\ Deferred!Running = {}
  BY DEF Deferred!TakenOut, Deferred!Running
<1>2. (\A e \in Executors : dPc'[e] = "idle") =>
          Deferred!TakenOut' = {} /\ Deferred!Running' = {}
  BY DEF Deferred!TakenOut, Deferred!Running
<1> QED
  BY <1>1, <1>2 DEF Deferred!Pending, Deferred!Current

\* The deferred executor starts as the abstract one.
LEMMA DeferredInit == Deferred!Init => DeferredInv /\ Deferred!Promise!Init
<1> SUFFICES ASSUME Deferred!Init PROVE DeferredInv /\ Deferred!Promise!Init
  OBVIOUS
<1> USE DeferredThreadsApart DEF Deferred!Init, Deferred!LifeInit
<1>1. Deferred!TypeOK
  BY DEF Deferred!TypeOK, Deferred!LifeTypeOK
<1>2. DeferredInv
  BY <1>1 DEF DeferredInv
<1>3. Deferred!Pending = dQueue /\ Deferred!Current = NoTask
  BY NobodyActive
<1> QED
  BY <1>2, <1>3 DEF Deferred!Promise!Init

\* One step of the abstract executor, or none.
Promised == [Deferred!Promise!Next]_(Deferred!Promise!vars)

\* A step that its clients do not see.
LEMMA NotSeen ==
  ASSUME Deferred!Pending' = Deferred!Pending, Deferred!Current' = Deferred!Current,
         UNCHANGED <<dAlive, dReleased, dAdded>>
  PROVE  Promised
  BY DEF Promised, Deferred!Promise!vars

\* A task is added behind the others, or those still in the queue are cleared.
LEMMA QueuePromised ==
  ASSUME DeferredInv, (\E t \in Tasks : Deferred!AddTask(t)) \/ Deferred!ClearTasks
  PROVE  DeferredInv' /\ Promised
<1>1. UNCHANGED <<dAlive, dHolder, dDepth, dActive, dPc, dTop, dReleased>>
  BY DEF Deferred!AddTask, Deferred!ClearTasks, Deferred!lifeVars
<1>2. dQueue \in Seq(Tasks)
  BY DEF DeferredInv, Deferred!TypeOK
<1>3. DeferredInv'
  <2>1. dQueue' \in Seq(Tasks) /\ dAdded' \subseteq Tasks
    <3>1. CASE Deferred!ClearTasks
      BY <3>1, EmptySeq DEF Deferred!ClearTasks, DeferredInv, Deferred!TypeOK
    <3>2. ASSUME NEW t \in Tasks, Deferred!AddTask(t)
          PROVE  dQueue' \in Seq(Tasks) /\ dAdded' \subseteq Tasks
      BY <1>2, <3>2, AppendProperties DEF Deferred!AddTask, DeferredInv, Deferred!TypeOK
    <3> QED
      BY <3>1, <3>2
  <2> QED
    BY <1>1, <2>1, ZenonT(40) DEF DeferredInv, Deferred!TypeOK, Deferred!LifeTypeOK
<1>4. \/ /\ Deferred!Pending = dQueue /\ Deferred!Pending' = dQueue'
         /\ Deferred!Current' = Deferred!Current
      \/ \E t \in Tasks :
            /\ Deferred!Pending = <<t>> \o dQueue /\ Deferred!Pending' = <<t>> \o dQueue'
            /\ Deferred!Current' = Deferred!Current
  <2>1. CASE \A e \in Executors : dPc[e] = "idle"
    BY <1>1, <2>1, NobodyActive
  <2>2. CASE \E e \in Executors : dPc[e] # "idle"
    <3>1. PICK e \in Executors : dPc[e] # "idle"
      BY <2>2
    <3>2. dPc'[e] = dPc[e] /\ dTop'[e] = dTop[e]
      BY <1>1
    <3>3. /\ dPc[e] = "guard" => Deferred!Pending = <<dTop[e]>> \o dQueue
          /\ dPc[e] # "guard" => Deferred!Pending = dQueue
          /\ dPc[e] = "run" => Deferred!Current = dTop[e]
          /\ dPc[e] # "run" => Deferred!Current = NoTask
      BY <3>1, SomebodyActive
    <3>4. /\ dPc[e] = "guard" => Deferred!Pending' = <<dTop[e]>> \o dQueue'
          /\ dPc[e] # "guard" => Deferred!Pending' = dQueue'
          /\ dPc[e] = "run" => Deferred!Current' = dTop[e]
          /\ dPc[e] # "run" => Deferred!Current' = NoTask
      BY <1>3, <3>1, <3>2, SomebodyStaysActive
    <3>5. dPc[e] = "guard" => dTop[e] \in Tasks
      BY DEF DeferredInv, Deferred!TypeOK
    <3> QED
      BY <3>3, <3>4, <3>5
  <2> QED
    BY <2>1, <2>2
<1>5. ASSUME NEW t \in Tasks, Deferred!AddTask(t) PROVE Promised
  <2>1. dQueue' = Append(dQueue, t) /\ dAdded' = dAdded \cup {t} /\ t \notin dAdded
    BY <1>5 DEF Deferred!AddTask
  <2>2. Deferred!Pending' = Append(Deferred!Pending, t)
        /\ Deferred!Current' = Deferred!Current
    <3>1. CASE Deferred!Pending = dQueue /\ Deferred!Pending' = dQueue'
               /\ Deferred!Current' = Deferred!Current
      BY <2>1, <3>1
    <3>2. ASSUME NEW u \in Tasks, Deferred!Pending = <<u>> \o dQueue,
                 Deferred!Pending' = <<u>> \o dQueue', Deferred!Current' = Deferred!Current
          PROVE  /\ Deferred!Pending' = Append(Deferred!Pending, t)
                 /\ Deferred!Current' = Deferred!Current
      <4>1. <<u>> \o Append(dQueue, t) = Append(<<u>> \o dQueue, t)
        BY <1>2, PutBack
      <4> QED
        BY <2>1, <3>2, <4>1
    <3> QED
      BY <1>4, <3>1, <3>2
  <2>3. Deferred!Promise!Add(t)
    BY <1>1, <2>1, <2>2 DEF Deferred!Promise!Add
  <2>4. \E u \in Tasks : Deferred!Promise!Add(u)
    BY <2>3
  <2> QED
    BY <2>4, Zenon DEF Promised, Deferred!Promise!Next
<1>6. CASE Deferred!ClearTasks
  <2>1. dQueue # <<>> /\ dQueue' = <<>> /\ dAdded' = dAdded
    BY <1>6 DEF Deferred!ClearTasks
  <2>2. /\ Deferred!Pending # <<>> /\ Deferred!Current' = Deferred!Current
        /\ Deferred!Pending' = <<>> \/ Deferred!Pending' = <<Head(Deferred!Pending)>>
    <3>1. CASE Deferred!Pending = dQueue /\ Deferred!Pending' = dQueue'
      BY <1>4, <2>1, <3>1
    <3>2. ASSUME NEW t \in Tasks, Deferred!Current' = Deferred!Current,
                 Deferred!Pending = <<t>> \o dQueue, Deferred!Pending' = <<t>> \o dQueue'
          PROVE  /\ Deferred!Pending # <<>> /\ Deferred!Current' = Deferred!Current
                 /\ Deferred!Pending' = <<Head(Deferred!Pending)>>
      <4>1. <<t>> \in Seq(Tasks)
        OBVIOUS
      <4>2. <<t>> \o <<>> = <<t>>
        BY <4>1, ConcatEmptySeq
      <4>3. <<t>> \o dQueue # <<>> /\ Head(<<t>> \o dQueue) = t
        BY <1>2, PutBack
      <4> QED
        BY <2>1, <3>2, <4>2, <4>3
    <3> QED
      BY <1>4, <3>1, <3>2
  <2>3. Deferred!Promise!Clear
    BY <1>1, <2>1, <2>2 DEF Deferred!Promise!Clear
  <2> QED
    BY <1>3, <2>3 DEF Promised, Deferred!Promise!Next
<1> QED
  BY <1>3, <1>5, <1>6

\* A thread becomes the executor, takes a task out, or leaves: nothing is seen.
LEMMA LoopPromised ==
  ASSUME DeferredInv, NEW e \in Executors,
         Deferred!ExecuteTasks(e) \/ Deferred!Leave(e) \/ Deferred!TakeTask(e)
  PROVE  DeferredInv' /\ Promised
<1> USE DeferredThreadsApart DEF Deferred!Goto
<1>1. UNCHANGED <<dAlive, dHolder, dDepth, dReleased, dAdded>>
  BY DEF Deferred!ExecuteTasks, Deferred!Leave, Deferred!TakeTask, Deferred!lifeVars
<1>2. dQueue \in Seq(Tasks) /\ e # NoThread
  BY DEF DeferredInv, Deferred!TypeOK
<1>3. CASE Deferred!ExecuteTasks(e)
  <2>1. DeferredInv'
    BY <1>1, <1>2, <1>3
       DEF Deferred!ExecuteTasks, DeferredInv, Deferred!TypeOK, Deferred!LifeTypeOK
  <2>2. (\A d \in Executors : dPc[d] = "idle") /\ dPc'[e] = "loop" /\ dQueue' = dQueue
    BY <1>2, <1>3 DEF Deferred!ExecuteTasks, DeferredInv, Deferred!TypeOK
  <2> QED
    BY <1>1, <2>1, <2>2, NobodyActive, SomebodyStaysActive, NotSeen
<1>4. CASE Deferred!Leave(e)
  <2>1. DeferredInv'
    BY <1>1, <1>2, <1>4
       DEF Deferred!Leave, DeferredInv, Deferred!TypeOK, Deferred!LifeTypeOK
  <2>2. (\A d \in Executors : dPc'[d] = "idle") /\ dPc[e] = "loop" /\ dQueue' = dQueue
    BY <1>2, <1>4 DEF Deferred!Leave, DeferredInv, Deferred!TypeOK
  <2> QED
    BY <1>1, <2>1, <2>2, NobodyActive, SomebodyActive, NotSeen
<1>5. CASE Deferred!TakeTask(e)
  <2>1. /\ dPc[e] = "loop" /\ dPc'[e] = "guard" /\ dTop'[e] = Head(dQueue)
        /\ dQueue' = Tail(dQueue) /\ dQueue # <<>>
    BY <1>5 DEF Deferred!TakeTask, DeferredInv, Deferred!TypeOK
  <2>2. Head(dQueue) \in Tasks /\ dQueue' \in Seq(Tasks) /\ <<Head(dQueue)>> \o dQueue' = dQueue
    BY <1>2, <2>1, TakeOut
  <2>3. DeferredInv'
    BY <1>1, <1>5, <2>1, <2>2
       DEF Deferred!TakeTask, DeferredInv, Deferred!TypeOK, Deferred!LifeTypeOK
  <2> QED
    BY <1>1, <2>1, <2>2, <2>3, SomebodyActive, SomebodyStaysActive, NotSeen
<1> QED
  BY <1>3, <1>4, <1>5

\* The task is executed under its token, or passed over; it ends.
LEMMA ExecutePromised ==
  ASSUME DeferredInv, NEW e \in Executors,
         Deferred!StartTask(e) \/ Deferred!SkipTask(e) \/ Deferred!FinishTask(e)
  PROVE  DeferredInv' /\ Promised
<1> USE DeferredThreadsApart DEF Deferred!Goto
<1> DEFINE t == dTop[e]
           l == TesterOf[t]
<1>1. /\ UNCHANGED <<dAlive, dReleased, dAdded, dQueue, dActive>>
      /\ dPc[e] \in {"guard", "run"} /\ dQueue \in Seq(Tasks) /\ t \in Tasks
      /\ l \in Tokens \cup {NullTester}
  BY DEF Deferred!StartTask, Deferred!SkipTask, Deferred!FinishTask, Deferred!lifeVars,
     Deferred!TryStartExecution, Deferred!RefuseExecution, Deferred!FinishExecution,
     DeferredInv, Deferred!TypeOK
<1>2. /\ <<t>> \o dQueue # <<>> /\ Head(<<t>> \o dQueue) = t /\ Tail(<<t>> \o dQueue) = dQueue
  BY <1>1, PutBack
<1>3. CASE Deferred!StartTask(e)
  <2>1. /\ dPc[e] = "guard" /\ dPc' = [dPc EXCEPT ![e] = "run"] /\ dTop' = dTop
        /\ l \in Tokens =>
              /\ dHolder[l] \in {NoThread, e} /\ dAlive[l]
              /\ dHolder' = [dHolder EXCEPT ![l] = e]
              /\ dDepth' = [dDepth EXCEPT ![l] = @ + 1]
        /\ l \notin Tokens => UNCHANGED <<dHolder, dDepth>>
    BY <1>3 DEF Deferred!StartTask, Deferred!TryStartExecution, Deferred!CanLock,
       Deferred!lifeVars
  <2>2. DeferredInv'
    <3>1. CASE l \in Tokens
      <4>1. dHolder[l] = NoThread /\ dDepth[l] = 0
        BY <2>1, <3>1 DEF DeferredInv, Deferred!TypeOK, Deferred!LifeTypeOK
      <4>2. dDepth' = [dDepth EXCEPT ![l] = 1] /\ dHolder' = [dHolder EXCEPT ![l] = e]
        BY <2>1, <3>1, <4>1
      <4>3. Deferred!TypeOK'
        BY <1>1, <2>1, <3>1, <4>2 DEF DeferredInv, Deferred!TypeOK, Deferred!LifeTypeOK
      <4> QED
        BY <1>1, <2>1, <3>1, <4>2, <4>3 DEF DeferredInv, Deferred!TypeOK, Deferred!LifeTypeOK
    <3>2. CASE l \notin Tokens
      BY <1>1, <2>1, <3>2 DEF DeferredInv, Deferred!TypeOK, Deferred!LifeTypeOK
    <3> QED
      BY <3>1, <3>2
  <2>3. dPc'[e] = "run" /\ dTop'[e] = t
    BY <2>1 DEF DeferredInv, Deferred!TypeOK
  <2>4. /\ Deferred!Pending = <<t>> \o dQueue /\ Deferred!Current = NoTask
        /\ Deferred!Pending' = dQueue /\ Deferred!Current' = t
    BY <1>1, <2>1, <2>2, <2>3, SomebodyActive, SomebodyStaysActive
  <2>5. l \notin {k \in Tokens : ~dAlive[k]}
    BY <2>1
  <2>6. Deferred!Promise!Start
    BY <1>1, <1>2, <2>4, <2>5 DEF Deferred!Promise!Start
  <2> QED
    BY <2>2, <2>6 DEF Promised, Deferred!Promise!Next
<1>4. CASE Deferred!SkipTask(e)
  <2>1. /\ dPc[e] = "guard" /\ dPc' = [dPc EXCEPT ![e] = "loop"]
        /\ dTop' = [dTop EXCEPT ![e] = NoTask]
        /\ l \in Tokens /\ ~dAlive[l] /\ UNCHANGED <<dHolder, dDepth>>
    BY <1>4 DEF Deferred!SkipTask, Deferred!RefuseExecution, Deferred!lifeVars
  <2>2. DeferredInv'
    BY <1>1, <2>1 DEF DeferredInv, Deferred!TypeOK, Deferred!LifeTypeOK
  <2>3. dPc'[e] = "loop"
    BY <2>1 DEF DeferredInv, Deferred!TypeOK
  <2>4. /\ Deferred!Pending = <<t>> \o dQueue /\ Deferred!Current = NoTask
        /\ Deferred!Pending' = dQueue /\ Deferred!Current' = NoTask
    BY <1>1, <2>1, <2>2, <2>3, SomebodyActive, SomebodyStaysActive
  <2>5. l \in {k \in Tokens : ~dAlive[k]}
    BY <2>1
  <2>6. Deferred!Promise!PassOver
    BY <1>1, <1>2, <2>4, <2>5 DEF Deferred!Promise!PassOver
  <2> QED
    BY <2>2, <2>6 DEF Promised, Deferred!Promise!Next
<1>5. CASE Deferred!FinishTask(e)
  <2>1. /\ dPc[e] = "run" /\ dPc' = [dPc EXCEPT ![e] = "loop"]
        /\ dTop' = [dTop EXCEPT ![e] = NoTask]
        /\ l \in Tokens =>
              /\ dHolder[l] = e
              /\ dHolder' = [dHolder EXCEPT ![l] = IF dDepth[l] = 1 THEN NoThread ELSE e]
              /\ dDepth' = [dDepth EXCEPT ![l] = @ - 1]
        /\ l \notin Tokens => UNCHANGED <<dHolder, dDepth>>
    BY <1>5 DEF Deferred!FinishTask, Deferred!FinishExecution, Deferred!lifeVars
  <2>2. DeferredInv'
    <3>1. CASE l \in Tokens
      <4>1. dHolder[l] = e /\ dDepth[l] = 1
        BY <2>1, <3>1 DEF DeferredInv, Deferred!TypeOK, Deferred!LifeTypeOK
      <4>2. dDepth' = [dDepth EXCEPT ![l] = 0] /\ dHolder' = [dHolder EXCEPT ![l] = NoThread]
        BY <2>1, <3>1, <4>1
      <4>3. Deferred!TypeOK'
        BY <1>1, <2>1, <3>1, <4>2 DEF DeferredInv, Deferred!TypeOK, Deferred!LifeTypeOK
      <4> QED
        BY <1>1, <2>1, <3>1, <4>2, <4>3 DEF DeferredInv, Deferred!TypeOK, Deferred!LifeTypeOK
    <3>2. CASE l \notin Tokens
      BY <1>1, <2>1, <3>2 DEF DeferredInv, Deferred!TypeOK, Deferred!LifeTypeOK
    <3> QED
      BY <3>1, <3>2
  <2>3. dPc'[e] = "loop"
    BY <2>1 DEF DeferredInv, Deferred!TypeOK
  <2>4. /\ Deferred!Pending = dQueue /\ Deferred!Current = t
        /\ Deferred!Pending' = dQueue /\ Deferred!Current' = NoTask
    BY <1>1, <2>1, <2>2, <2>3, SomebodyActive, SomebodyStaysActive
  <2>5. Deferred!Promise!Finish
    BY <1>1, <2>4 DEF Deferred!Promise!Finish
  <2> QED
    BY <2>2, <2>5 DEF Promised, Deferred!Promise!Next
<1> QED
  BY <1>3, <1>4, <1>5

\* A token is released: by the task that runs under it, or while none does.
LEMMA ReleasePromised ==
  ASSUME DeferredInv,
         \/ \E e \in Executors : Deferred!ReleaseByTask(e)
         \/ \E o \in Releasers, l \in Tokens : Deferred!Release(o, l)
  PROVE  DeferredInv' /\ Promised
<1> USE DeferredThreadsApart
<1>1. PICK l \in Tokens :
        /\ dAlive' = [dAlive EXCEPT ![l] = FALSE]
        /\ UNCHANGED <<dHolder, dDepth, dQueue, dActive, dPc, dTop, dAdded>>
        /\ \/ /\ dReleased' = dReleased
              /\ \E e \in Executors : dPc[e] = "run" /\ TesterOf[dTop[e]] = l
           \/ dReleased' = dReleased \cup {l} /\ dHolder[l] \notin Executors
  <2>1. ASSUME NEW e \in Executors, Deferred!ReleaseByTask(e)
        PROVE  LET l == TesterOf[dTop[e]] IN
               /\ l \in Tokens /\ dAlive' = [dAlive EXCEPT ![l] = FALSE]
               /\ UNCHANGED <<dHolder, dDepth, dQueue, dActive, dPc, dTop, dAdded>>
               /\ dReleased' = dReleased /\ dPc[e] = "run"
    BY <2>1 DEF Deferred!ReleaseByTask, Deferred!Kill
  <2>2. ASSUME NEW o \in Releasers, NEW l \in Tokens, Deferred!Release(o, l)
        PROVE  /\ dAlive' = [dAlive EXCEPT ![l] = FALSE]
               /\ UNCHANGED <<dHolder, dDepth, dQueue, dActive, dPc, dTop, dAdded>>
               /\ dReleased' = dReleased \cup {l} /\ dHolder[l] \notin Executors
    BY <2>2 DEF Deferred!Release, Deferred!Kill, Deferred!CanLock
  <2> QED
    BY <2>1, <2>2
<1>2. DeferredInv'
  BY <1>1 DEF DeferredInv, Deferred!TypeOK, Deferred!LifeTypeOK
<1>3. Deferred!Pending' = Deferred!Pending /\ Deferred!Current' = Deferred!Current
  BY <1>1 DEF Deferred!Pending, Deferred!Current, Deferred!TopOf, Deferred!TakenOut,
     Deferred!Running
<1>4. {k \in Tokens : ~dAlive[k]}' = {k \in Tokens : ~dAlive[k]} \cup {l}
  BY <1>1 DEF DeferredInv, Deferred!TypeOK, Deferred!LifeTypeOK
<1>5. CASE \E e \in Executors : dPc[e] = "run" /\ TesterOf[dTop[e]] = l
  <2>1. PICK e \in Executors : dPc[e] = "run" /\ TesterOf[dTop[e]] = l
    BY <1>5
  <2>2. Deferred!Current = dTop[e] /\ dTop[e] # NoTask
    BY <2>1, SomebodyActive DEF DeferredInv
  <2>3. dReleased' = dReleased
    BY <1>1, <2>1 DEF DeferredInv
  <2>4. Deferred!Promise!ReleaseByTask(l)
    BY <1>1, <1>3, <1>4, <2>1, <2>2, <2>3
       DEF Deferred!Promise!ReleaseByTask, Deferred!Promise!RunsUnder
  <2> QED
    BY <1>2, <2>4 DEF Promised, Deferred!Promise!Next
<1>6. CASE ~\E e \in Executors : dPc[e] = "run" /\ TesterOf[dTop[e]] = l
  <2>1. dReleased' = dReleased \cup {l}
    BY <1>1, <1>6
  <2>2. ~Deferred!Promise!RunsUnder(l)
    <3>1. CASE \A e \in Executors : dPc[e] = "idle"
      BY <3>1, NobodyActive DEF Deferred!Promise!RunsUnder
    <3>2. ASSUME NEW e \in Executors, dPc[e] # "idle" PROVE ~Deferred!Promise!RunsUnder(l)
      BY <1>6, <3>2, SomebodyActive DEF Deferred!Promise!RunsUnder
    <3> QED
      BY <3>1, <3>2
  <2>3. Deferred!Promise!Release(l)
    BY <1>1, <1>3, <1>4, <2>1, <2>2 DEF Deferred!Promise!Release
  <2> QED
    BY <1>2, <2>3 DEF Promised, Deferred!Promise!Next
<1> QED
  BY <1>5, <1>6

\* Every step keeps the invariant and is one of the abstract executor, or none.
LEMMA DeferredStep ==
  ASSUME DeferredInv, [Deferred!Next]_(Deferred!vars)
  PROVE  DeferredInv' /\ Promised
<1>1. CASE UNCHANGED Deferred!vars
  <2>1. UNCHANGED <<dAlive, dHolder, dDepth, dQueue, dActive, dPc, dTop, dReleased, dAdded>>
    BY <1>1 DEF Deferred!vars, Deferred!lifeVars
  <2>2. DeferredInv'
    BY <2>1, ZenonT(40) DEF DeferredInv, Deferred!TypeOK, Deferred!LifeTypeOK
  <2>3. Deferred!Pending' = Deferred!Pending /\ Deferred!Current' = Deferred!Current
    BY <2>1 DEF Deferred!Pending, Deferred!Current, Deferred!TopOf, Deferred!TakenOut,
       Deferred!Running
  <2> QED
    BY <2>1, <2>2, <2>3, NotSeen
<1> QED
  BY <1>1, QueuePromised, LoopPromised, ExecutePromised, ReleasePromised DEF Deferred!Next

(***************************************************************************)
(* The deferred executor implements SerialExecutor, for any tasks, tokens  *)
(* and threads, whoever calls ExecuteTasks and ClearTasks when.            *)
(***************************************************************************)
THEOREM DeferredImplements == ExecutorsSpec => DeferredImplementsSerialExecutor
<1>1. Deferred!Init => DeferredInv /\ Deferred!Promise!Init
  BY DeferredInit
<1>2. DeferredInv /\ [Deferred!Next]_(Deferred!vars) => DeferredInv' /\ Promised
  BY DeferredStep
<1> QED
  BY <1>1, <1>2, EitherExecutor, PTL
     DEF Deferred!Spec, DeferredImplementsSerialExecutor, Deferred!ImplementsSerialExecutor,
         Deferred!Promise!Spec, Promised

-----------------------------------------------------------------------------
(***************************************************************************)
(* ThreadPool, for any number of threads, tasks and clients: each accepted *)
(* task and each client that waits for room is in the hands of a worker    *)
(* that will see to it, and the main worker joins under the pool's mutex   *)
(* only workers that can end without it.                                   *)
(*                                                                         *)
(* What IsIdle asks of a worker (no task, completed, idle) has to tell     *)
(* where the worker is, though it was set at different moments:            *)
(* PoolPositions. PoolCancels says that before the destructor only the     *)
(* worker that is joined is cancelled, so no task is given to one that     *)
(* will not run it.                                                        *)
(***************************************************************************)

LEMMA PoolConstants == MaxThreads \in Nat \ {0} /\ NoTask \notin PoolTasks
  BY PoolAssumptions DEF Pool!MaxThreadsAssumption, Pool!TasksAssumption


\* What the flags of a worker say of the place where it is.
PoolPositions ==
    /\ \A w \in Pool!Workers :
        /\ pTask[w] \in pAccepted \cup {NoTask}
        /\ pPc[w] = "run" => pTask[w] \in pStarted
        /\ pPc[w] = "none" => pTask[w] = NoTask
        /\ pPc[w] = "exit" => w \in pCancelled
    /\ \A w \in Pool!Slots :
        /\ pTask[w] # NoTask => ~pCompleted[w]
        /\ pPc[w] \in {"begin", "run", "handler", "handled"} => ~pCompleted[w]
        /\ pPc[w] = "nap" => ~pIdle[w]
        /\ pPc[w] \notin {"sweep", "join"}
    /\ pPc[0] \notin {"handler", "handled"}

\* Who is cancelled, and when.
PoolCancels ==
    /\ pDtor = "alive" => 0 \notin pCancelled
    /\ pDtor = "slots" => pPc[0] \in {"none", "exit"}
    /\ \A w \in Pool!Slots :
        /\ w \in pCancelled => w \in pLive
        /\ w \in pCancelled /\ pDtor # "slots" => pPc[0] = "join" /\ w = pChecked

\* Where the sweep is; a worker that is joined can end by itself.
PoolSweeping ==
    /\ pPc[0] = "sweep" => pChecked \in 1..(pSize + 1)
    /\ pPc[0] = "join" => /\ pChecked \in pLive \cap pCancelled
                         /\ pPc[pChecked] \in {"sleep", "exit"}
                         /\ pTask[pChecked] = NoTask

\* What clients wait to queue is still to be accepted.
PoolWaiting ==
    /\ pDtor # "alive" => \A c \in Clients : pWaits[c] = NoTask
    /\ \A c \in Clients : pWaits[c] \notin pAccepted
    /\ \A c, d \in Clients : pWaits[c] = pWaits[d] => c = d \/ pWaits[c] = NoTask

PoolInv ==
    /\ Pool!TypeOK
    /\ PoolPositions
    /\ PoolCancels
    /\ PoolSweeping
    /\ PoolWaiting
    /\ Pool!NothingDropped
    /\ Pool!WaitsOnlyForRoom
-----------------------------------------------------------------------------

\* The invariant holds at the start ...
LEMMA PoolInit == Pool!Init => PoolInv
  BY PoolConstants
     DEF Pool!Init, PoolInv, Pool!TypeOK, PoolPositions, PoolCancels, PoolSweeping,
         PoolWaiting, Pool!NothingDropped,
         Pool!WaitsOnlyForRoom, Pool!Slots, Pool!Workers

\* The worker that is given a task has none, and is not cancelled.
LEMMA PlaceIsFree ==
  ASSUME PoolInv, pDtor = "alive", ~Pool!Locked, NEW w \in Pool!Workers, Pool!Place(w)
  PROVE  /\ pTask[w] = NoTask
         /\ w \notin pCancelled
         /\ pPc[w] \notin {"run", "exit"}
         /\ w <= pSize + 1
         /\ w \in pLive => pPc[w] # "none"
<1> USE PoolConstants DEF Pool!Slots, Pool!Workers
<1>1. w <= pSize + 1 /\ w \in 0..(MaxThreads - 1) /\ pSize \in Nat
  BY DEF PoolInv, Pool!TypeOK, Pool!Place
<1>2. pTask[w] = NoTask
  <2>1. CASE w = 0
    BY <2>1, <1>1 DEF Pool!Place, PoolInv, Pool!TypeOK
  <2>2. CASE w # 0
    <3>1. w \in Pool!Slots
      BY <2>2, <1>1
    <3>2. w \notin pLive => pTask[w] = NoTask
      BY <3>1 DEF PoolInv, Pool!TypeOK, PoolPositions
    <3>3. w \notin pLive \/ pTask[w] = NoTask
      <4>1. w = pSize + 1 \/ Pool!Free(w)
        BY <2>2 DEF Pool!Place
      <4>2. w = pSize + 1 => w \notin pLive
        BY <1>1 DEF PoolInv, Pool!TypeOK
      <4> QED
        BY <4>1, <4>2 DEF Pool!Free
    <3> QED
      BY <3>2, <3>3
  <2> QED
    BY <2>1, <2>2
<1>3. w \notin pCancelled
  BY <1>1 DEF PoolInv, PoolCancels, Pool!Locked
<1>4. pPc[w] \notin {"run", "exit"}
  BY <1>2, <1>3 DEF PoolInv, PoolPositions, Pool!TypeOK
<1>5. w \in pLive => pPc[w] # "none"
  BY <1>1 DEF PoolInv, Pool!TypeOK
<1> QED
  BY <1>1, <1>2, <1>3, <1>4, <1>5

\* What the clients do when a task t is accepted.
ClientsAt(t) ==
    /\ pWaits' \in [Clients -> PoolTasks \cup {NoTask}]
    /\ \A c \in Clients : /\ pWaits'[c] = pWaits[c] \/ pWaits'[c] = NoTask
                          /\ pWaits'[c] # t
                          /\ pWaits'[c] # NoTask /\ c \in pNotified => c \in pNotified'
    /\ pNotified' \subseteq {c \in Clients : pWaits'[c] # NoTask}

\* ... and is kept when a task is accepted, by one client or another, ...
LEMMA AcceptKeeps ==
  ASSUME PoolInv, pDtor = "alive", ~Pool!Locked,
         NEW t \in PoolTasks \ pAccepted, Pool!Accept(t), ClientsAt(t)
  PROVE  PoolInv'
<1> USE PoolConstants DEF Pool!Slots, Pool!Workers
<1> PICK w \in Pool!Workers :
        /\ Pool!Place(w)
        /\ pTask' = [pTask EXCEPT ![w] = t]
        /\ pCompleted' = [pCompleted EXCEPT ![w] = FALSE]
        /\ pIdle' = [pIdle EXCEPT ![w] = FALSE]
        /\ pPc' = IF pPc[w] = "none" THEN [pPc EXCEPT ![w] = "begin"] ELSE pPc
        /\ pWoken' = IF Pool!Asleep(w) THEN pWoken \cup {w} ELSE pWoken
        /\ pLive' = pLive \cup ({w} \ {0})
        /\ pSize' = IF w > pSize THEN w ELSE pSize
        /\ pAccepted' = pAccepted \cup {t}
        /\ UNCHANGED <<pCancelled, pChecked, pDtor, pStarted>>
  BY DEF Pool!Accept
<1>1. /\ pTask[w] = NoTask /\ w \notin pCancelled /\ pPc[w] \notin {"run", "exit"}
      /\ w <= pSize + 1 /\ (w \in pLive => pPc[w] # "none")
  BY PlaceIsFree
<1>2. Pool!TypeOK'
  BY <1>1 DEF PoolInv, Pool!TypeOK, PoolPositions, ClientsAt
<1>3. PoolPositions'
  BY <1>1 DEF PoolInv, Pool!TypeOK, PoolPositions
<1>4. PoolCancels'
  BY <1>1 DEF PoolInv, Pool!TypeOK, PoolCancels, Pool!Locked
<1>5. PoolSweeping'
  BY <1>1 DEF PoolInv, Pool!TypeOK, PoolSweeping, Pool!Locked
<1>6. PoolWaiting'
  BY DEF PoolInv, Pool!TypeOK, PoolWaiting, ClientsAt
<1>7. Pool!NothingDropped'
  <2>1. ASSUME NEW u \in pAccepted \ pStarted
        PROVE  \E v \in {0} \cup pLive' : /\ pTask'[v] = u /\ v \notin pCancelled'
                                         /\ pPc'[v] \notin {"none", "run", "exit"}
    <3>1. PICK v \in {0} \cup pLive : /\ pTask[v] = u /\ v \notin pCancelled
                                     /\ pPc[v] \notin {"none", "run", "exit"}
      BY DEF PoolInv, Pool!NothingDropped
    <3>2. v # w /\ v \in Pool!Workers
      BY <1>1, <3>1 DEF PoolInv, Pool!TypeOK
    <3> QED
      BY <3>1, <3>2 DEF PoolInv, Pool!TypeOK
  <2>2. /\ w \in {0} \cup pLive' /\ pTask'[w] = t /\ w \notin pCancelled'
        /\ pPc'[w] \notin {"none", "run", "exit"}
    BY <1>1 DEF PoolInv, Pool!TypeOK
  <2> QED
    BY <2>1, <2>2 DEF Pool!NothingDropped
<1>8. Pool!WaitsOnlyForRoom'
  <2>1. Pool!Full => Pool!Full'
    BY <1>1 DEF Pool!Full, Pool!Free, PoolInv, Pool!TypeOK
  <2>2. ASSUME NEW v \in pLive, pPc[v] = "handler" PROVE v \in pLive' /\ pPc'[v] = "handler"
    BY <2>2 DEF PoolInv, Pool!TypeOK
  <2> QED
    BY <1>2, <2>1, <2>2 DEF PoolInv, Pool!WaitsOnlyForRoom, ClientsAt
<1> QED
  BY <1>2, <1>3, <1>4, <1>5, <1>6, <1>7, <1>8 DEF PoolInv

-----------------------------------------------------------------------------
(* The workers in slots *)

Pcs == {"none", "begin", "run", "handler", "handled", "nap", "sleep", "sweep", "join",
        "exit"}

\* What a worker in a slot does in any of its steps.
Moves(w) ==
    /\ pPc[w] \notin {"none", "exit"}
    /\ \A v \in Pool!Workers \ {w} :
        /\ pPc'[v] = pPc[v] /\ pTask'[v] = pTask[v]
        /\ pCompleted'[v] = pCompleted[v] /\ pIdle'[v] = pIdle[v]
    /\ pPc' \in [Pool!Workers -> Pcs]
    /\ pPc'[w] \in {"run", "handler", "handled", "nap", "sleep", "exit"}
    /\ pTask' \in [Pool!Workers -> PoolTasks \cup {NoTask}]
    /\ pTask'[w] \in {pTask[w], NoTask}
    /\ pCompleted' \in [Pool!Workers -> BOOLEAN] /\ pIdle' \in [Pool!Workers -> BOOLEAN]
    /\ pWoken' \subseteq pWoken
    /\ pPc'[w] = "exit" => w \in pCancelled
    /\ pPc[w] = "sleep" /\ w \in pCancelled => pPc'[w] = "exit"
    /\ pPc'[w] \in {"run", "handler", "handled"} => ~pCompleted'[w]
    /\ pPc'[w] = "nap" => ~pIdle'[w]
    /\ pTask'[w] # NoTask => ~pCompleted'[w]
    /\ IF pPc'[w] = "run"
       THEN pTask'[w] # NoTask /\ pStarted' = pStarted \cup {pTask[w]}
       ELSE pStarted' = pStarted
    /\ pTask'[w] # pTask[w] => pPc[w] = "run" /\ pPc'[w] \in {"handler", "exit"}
    /\ IF pPc[w] = "handler" THEN Pool!NotifyClients ELSE pNotified' = pNotified
    /\ UNCHANGED <<pSize, pLive, pCancelled, pChecked, pWaits, pDtor, pAccepted>>

\* Where Proceed gets the worker.
Goes(w, t, isCompleted, isIdle) ==
    /\ pPc' \in [Pool!Workers -> Pcs]
    /\ \A v \in Pool!Workers \ {w} : pPc'[v] = pPc[v]
    /\ IF w \in pCancelled THEN pPc'[w] = "exit"
       ELSE IF t # NoTask THEN pPc'[w] = "run"
       ELSE IF ~isCompleted THEN pPc'[w] = "handler"
       ELSE pPc'[w] = "sleep" \/ (pPc'[w] = "nap" /\ ~isIdle)
    /\ pStarted' = IF w \notin pCancelled /\ t # NoTask THEN pStarted \cup {t} ELSE pStarted

\* From the head of the loop a worker goes where its flags say, ...
LEMMA ProceedGoes ==
  ASSUME Pool!TypeOK, NEW w \in Pool!Slots, NEW t, NEW isCompleted \in BOOLEAN,
         NEW isIdle \in BOOLEAN, Pool!Proceed(w, t, isCompleted, isIdle)
  PROVE  Goes(w, t, isCompleted, isIdle)
<1> DEFINE next == CASE w \in pCancelled -> "exit"
                     [] w \notin pCancelled /\ t # NoTask -> "run"
                     [] w \notin pCancelled /\ t = NoTask /\ ~isCompleted -> "handler"
                     [] OTHER -> Pool!WaitOf(isIdle)
<1>1. pPc' = [pPc EXCEPT ![w] = next]
  BY DEF Pool!Proceed, Pool!Goto
<1>2. IF w \in pCancelled THEN next = "exit"
      ELSE IF t # NoTask THEN next = "run"
      ELSE IF ~isCompleted THEN next = "handler"
      ELSE next = Pool!WaitOf(isIdle)
  OBVIOUS
<1>3. Pool!WaitOf(isIdle) = "sleep" \/ (Pool!WaitOf(isIdle) = "nap" /\ ~isIdle)
  BY DEF Pool!WaitOf
<1>4. next \in Pcs
  BY <1>2, <1>3 DEF Pcs
<1> HIDE DEF next
<1>5. /\ pPc' \in [Pool!Workers -> Pcs] /\ pPc'[w] = next
      /\ \A v \in Pool!Workers \ {w} : pPc'[v] = pPc[v]
  BY <1>1, <1>4 DEF Pool!TypeOK, Pool!Slots, Pool!Workers, Pcs
<1> QED
  BY <1>2, <1>3, <1>5 DEF Pool!Proceed, Goes

\* ... so that each of its steps is a Moves, ...
LEMMA SlotMoves ==
  ASSUME PoolInv, NEW w \in Pool!Slots,
         Pool!WorkerStep(w) \/ Pool!CompletedHandler(w) \/ Pool!WakeSpuriously(w) \/ Pool!TimeOut(w)
             \/ Pool!FinishTask(w)
  PROVE  Moves(w)
<1> USE PoolConstants DEF Pool!Slots, Pool!Workers, Pool!clientVars, Pool!slotVars,
        Pool!histVars, Pool!workerVars, Pcs
<1> Pool!TypeOK /\ w \in Pool!Workers
  BY DEF PoolInv
<1> pCompleted[w] \in BOOLEAN /\ pIdle[w] \in BOOLEAN
  BY DEF Pool!TypeOK
<1>1. CASE Pool!Begin(w)
  <2>1. Goes(w, pTask[w], pCompleted[w], pIdle[w])
    BY <1>1, ProceedGoes DEF Pool!Begin
  <2> QED
    BY <1>1, <2>1 DEF Pool!Begin, Goes, Moves, PoolInv, Pool!TypeOK, PoolPositions
<1>2. CASE Pool!Handled(w)
  <2>1. CASE pTask[w] # NoTask
    <3>1. Goes(w, pTask[w], pCompleted[w], pIdle[w])
      BY <1>2, <2>1, ProceedGoes DEF Pool!Handled
    <3> QED
      BY <1>2, <2>1, <3>1 DEF Pool!Handled, Goes, Moves, PoolInv, Pool!TypeOK, PoolPositions
  <2>2. CASE pTask[w] = NoTask
    <3> DEFINE wait == Pool!WaitOf(pIdle[w])
    <3>1. /\ pPc[w] = "handled" /\ pPc' = [pPc EXCEPT ![w] = wait]
          /\ pCompleted' = [pCompleted EXCEPT ![w] = TRUE] /\ pStarted' = pStarted
          /\ UNCHANGED <<pTask, pIdle, pWoken, pCancelled, pChecked, pSize, pLive, pWaits,
                         pNotified, pDtor, pAccepted>>
      BY <1>2, <2>2 DEF Pool!Handled, Pool!Goto
    <3>2. wait = "sleep" \/ (wait = "nap" /\ ~pIdle[w])
      BY DEF Pool!WaitOf
    <3> HIDE DEF wait
    <3>3. /\ pPc' \in [Pool!Workers -> Pcs] /\ pPc'[w] = wait
          /\ \A v \in Pool!Workers \ {w} : pPc'[v] = pPc[v]
      BY <3>1, <3>2 DEF Pool!TypeOK
    <3>4. /\ pCompleted' \in [Pool!Workers -> BOOLEAN]
          /\ \A v \in Pool!Workers \ {w} : pCompleted'[v] = pCompleted[v]
      BY <3>1 DEF Pool!TypeOK
    <3> QED
      BY <2>2, <3>1, <3>2, <3>3, <3>4 DEF Moves, Pool!TypeOK
  <2> QED
    BY <2>1, <2>2
<1>3. CASE Pool!CompletedHandler(w)
  BY <1>3 DEF Pool!CompletedHandler, Pool!Goto, Moves, PoolInv, Pool!TypeOK, PoolPositions
<1>4. CASE Pool!EndWait(w)
  <2> DEFINE isIdle == IF pPc[w] = "nap" THEN FALSE ELSE pIdle[w]
  <2>1. Goes(w, pTask[w], pCompleted[w], isIdle)
    BY <1>4, ProceedGoes DEF Pool!EndWait
  <2> QED
    BY <1>4, <2>1 DEF Pool!EndWait, Pool!Asleep, Goes, Moves, PoolInv, Pool!TypeOK,
       PoolPositions
<1>5. CASE Pool!TimeOut(w)
  <2>1. Goes(w, pTask[w], pCompleted[w], TRUE)
    BY <1>5, ProceedGoes DEF Pool!TimeOut
  <2> QED
    BY <1>5, <2>1 DEF Pool!TimeOut, Goes, Moves, PoolInv, Pool!TypeOK, PoolPositions
<1>6. CASE Pool!FinishTask(w)
  <2>1. Goes(w, NoTask, pCompleted[w], pIdle[w])
    BY <1>6, ProceedGoes DEF Pool!FinishTask
  <2> QED
    BY <1>6, <2>1 DEF Pool!FinishTask, Goes, Moves, PoolInv, Pool!TypeOK, PoolPositions
<1> QED
  BY <1>1, <1>2, <1>3, <1>4, <1>5, <1>6 DEF Pool!WorkerStep, Pool!WakeUp,
     Pool!WakeSpuriously

\* ... and none disturbs the invariant.
LEMMA SlotKeeps ==
  ASSUME PoolInv, NEW w \in Pool!Slots, Moves(w)
  PROVE  PoolInv'
<1> USE PoolConstants DEF Pool!Slots, Pool!Workers
<1>1. Pool!TypeOK'
  <2>1. pPc' \in [Pool!Workers -> Pcs] /\ \A v \in Pool!Slots : v \in pLive' <=> pPc'[v] # "none"
    BY DEF PoolInv, Pool!TypeOK, Moves
  <2>2. /\ pNotified' \subseteq {c \in Clients : pWaits'[c] # NoTask}
        /\ pStarted' \subseteq pAccepted' /\ pWoken' \subseteq Pool!Workers
    BY DEF PoolInv, Pool!TypeOK, PoolPositions, Moves, Pool!NotifyClients
  <2>3. \A u, v \in Pool!Workers : u # v /\ pTask'[v] # NoTask => pTask'[v] # pTask'[u]
    BY DEF PoolInv, Pool!TypeOK, Moves
  <2> QED
    BY <2>1, <2>2, <2>3 DEF PoolInv, Pool!TypeOK, Moves, Pcs
<1>2. PoolPositions'
  <2>1. ASSUME NEW v \in Pool!Workers
        PROVE  /\ pTask'[v] \in pAccepted' \cup {NoTask}
               /\ pPc'[v] = "run" => pTask'[v] \in pStarted'
               /\ pPc'[v] = "none" => pTask'[v] = NoTask
               /\ pPc'[v] = "exit" => v \in pCancelled'
    <3>1. CASE v = w
      BY <3>1 DEF PoolInv, PoolPositions, Moves
    <3>2. CASE v # w
      BY <3>2 DEF PoolInv, PoolPositions, Moves
    <3> QED
      BY <3>1, <3>2
  <2>2. ASSUME NEW v \in Pool!Slots
        PROVE  /\ pTask'[v] # NoTask => ~pCompleted'[v]
               /\ pPc'[v] \in {"begin", "run", "handler", "handled"} => ~pCompleted'[v]
               /\ pPc'[v] = "nap" => ~pIdle'[v]
               /\ pPc'[v] \notin {"sweep", "join"}
    <3>1. CASE v = w
      BY <3>1 DEF PoolInv, PoolPositions, Moves
    <3>2. CASE v # w
      BY <3>2 DEF PoolInv, PoolPositions, Moves
    <3> QED
      BY <3>1, <3>2
  <2>3. pPc'[0] \notin {"handler", "handled"}
    BY DEF PoolInv, PoolPositions, Moves
  <2> QED
    BY <2>1, <2>2, <2>3 DEF PoolPositions
<1>3. PoolCancels'
  BY DEF PoolInv, Pool!TypeOK, PoolCancels, Moves
<1>4. PoolSweeping'
  BY DEF PoolInv, Pool!TypeOK, PoolSweeping, Moves
<1>5. PoolWaiting'
  BY DEF PoolInv, PoolWaiting, Moves
<1>6. Pool!NothingDropped'
  <2> SUFFICES ASSUME pDtor = "alive", NEW t \in pAccepted \ pStarted'
               PROVE  \E v \in {0} \cup pLive : /\ pTask'[v] = t /\ v \notin pCancelled
                                               /\ pPc'[v] \notin {"none", "run", "exit"}
    BY DEF Pool!NothingDropped, Moves
  <2>1. PICK v \in {0} \cup pLive : /\ pTask[v] = t /\ v \notin pCancelled
                                   /\ pPc[v] \notin {"none", "run", "exit"}
    BY DEF PoolInv, Pool!NothingDropped, Moves
  <2>2. CASE v # w
    BY <2>1, <2>2 DEF Moves, PoolInv, Pool!TypeOK
  <2>3. CASE v = w
    BY <2>1, <2>3 DEF Moves, PoolInv, Pool!TypeOK
  <2> QED
    BY <2>2, <2>3
<1>7. Pool!WaitsOnlyForRoom'
  <2> SUFFICES ASSUME NEW c \in Clients, pWaits[c] # NoTask, c \notin pNotified'
               PROVE  Pool!Full' \/ \E v \in pLive : pPc'[v] = "handler"
    BY <1>1 DEF Pool!WaitsOnlyForRoom, Moves
  <2>1. pPc[w] # "handler" /\ c \notin pNotified /\ pDtor = "alive"
    BY DEF Moves, Pool!NotifyClients, PoolInv, PoolWaiting
  <2>2. ASSUME NEW v \in pLive, pPc[v] = "handler" PROVE pPc'[v] = "handler"
    BY <2>1, <2>2 DEF Moves, PoolInv, Pool!TypeOK
  <2>3. CASE pTask' = pTask
    BY <2>1, <2>2, <2>3 DEF PoolInv, Pool!WaitsOnlyForRoom, Pool!Full, Pool!Free, Moves
  <2>4. CASE pTask'[w] # pTask[w]
    <3>1. w \notin pCancelled
      BY <2>1, <2>4 DEF PoolInv, PoolCancels, PoolSweeping, Moves
    <3>2. w \in pLive /\ pPc'[w] = "handler"
      BY <2>4, <3>1 DEF PoolInv, Pool!TypeOK, Moves
    <3> QED
      BY <3>2
  <2> QED
    BY <2>3, <2>4 DEF Moves, PoolInv, Pool!TypeOK
<1> QED
  BY <1>1, <1>2, <1>3, <1>4, <1>5, <1>6, <1>7 DEF PoolInv

-----------------------------------------------------------------------------
(* The main worker *)

\* What the main worker does from one wait, or task, to the next.
MainMoves ==
    /\ pPc[0] \in {"begin", "run", "nap", "sleep", "sweep"}
    /\ pPc' \in [Pool!Workers -> Pcs]
    /\ \A v \in Pool!Slots : pPc'[v] = pPc[v] /\ pTask'[v] = pTask[v]
    /\ pPc'[0] \in {"run", "nap", "sleep", "exit"}
    /\ pPc'[0] = "exit" => 0 \in pCancelled
    /\ pTask' \in [Pool!Workers -> PoolTasks \cup {NoTask}]
    /\ pTask'[0] \in {pTask[0], NoTask}
    /\ pTask'[0] # pTask[0] => pPc[0] = "run"
    /\ pSize' \in 0..pSize /\ pLive \subseteq 1..pSize'
    /\ pWoken' \subseteq Pool!Workers /\ pChecked' \in 0..MaxThreads
    /\ IF pPc'[0] = "run"
       THEN pTask'[0] # NoTask /\ pStarted' = pStarted \cup {pTask[0]}
       ELSE pStarted' = pStarted
    /\ IF 0 \notin pCancelled /\ pTask'[0] = NoTask
       THEN Pool!NotifyClients ELSE pNotified' = pNotified
    /\ UNCHANGED <<pLive, pCompleted, pIdle, pCancelled, pWaits, pDtor, pAccepted>>

\* Where ProceedMain gets it.
MainGoes(t) ==
    /\ pPc' \in [Pool!Workers -> Pcs]
    /\ \A v \in Pool!Slots : pPc'[v] = pPc[v]
    /\ IF 0 \in pCancelled THEN pPc'[0] = "exit"
       ELSE IF t # NoTask THEN pPc'[0] = "run" ELSE pPc'[0] \in {"nap", "sleep"}
    /\ pStarted' = IF 0 \notin pCancelled /\ t # NoTask THEN pStarted \cup {t} ELSE pStarted
    /\ IF 0 \notin pCancelled /\ t = NoTask THEN Pool!NotifyClients ELSE pNotified' = pNotified

\* The same of the main worker: where it goes, ...
LEMMA ProceedMainGoes ==
  ASSUME Pool!TypeOK, NEW t, NEW n, Pool!ProceedMain(t, n)
  PROVE  MainGoes(t)
<1> DEFINE next == CASE 0 \in pCancelled -> "exit"
                     [] 0 \notin pCancelled /\ t # NoTask -> "run"
                     [] 0 \notin pCancelled /\ t = NoTask /\ n > 0 /\ IdleTimeout -> "nap"
                     [] OTHER -> "sleep"
<1>1. pPc' = [pPc EXCEPT ![0] = next]
  BY DEF Pool!ProceedMain, Pool!Goto
<1>2. IF 0 \in pCancelled THEN next = "exit"
      ELSE IF t # NoTask THEN next = "run" ELSE next \in {"nap", "sleep"}
  <2>1. CASE n > 0 /\ IdleTimeout
    BY <2>1
  <2>2. CASE ~(n > 0 /\ IdleTimeout)
    BY <2>2
  <2> QED
    BY <2>1, <2>2
<1>3. next \in Pcs
  BY <1>2 DEF Pcs
<1> HIDE DEF next
<1>4. /\ pPc' \in [Pool!Workers -> Pcs] /\ pPc'[0] = next
      /\ \A v \in Pool!Slots : pPc'[v] = pPc[v]
  BY <1>1, <1>3, PoolConstants DEF Pool!TypeOK, Pool!Slots, Pool!Workers, Pcs
<1> QED
  BY <1>2, <1>4 DEF Pool!ProceedMain, MainGoes

\* ... what it does on the way, ...
LEMMA MainStepMoves ==
  ASSUME PoolInv, Pool!BeginMain \/ Pool!FinishMain \/ Pool!EndMainWait \/ Pool!EndSweep
  PROVE  MainMoves
<1> USE PoolConstants DEF Pool!Slots, Pool!Workers
<1> Pool!TypeOK
  BY DEF PoolInv
<1>1. CASE Pool!BeginMain
  <2>1. MainGoes(pTask[0])
    BY <1>1, ProceedMainGoes DEF Pool!BeginMain
  <2> QED
    BY <1>1, <2>1 DEF Pool!BeginMain, MainGoes, MainMoves, PoolInv, Pool!TypeOK,
       Pool!slotVars
<1>2. CASE Pool!FinishMain
  <2>1. MainGoes(NoTask)
    BY <1>2, ProceedMainGoes DEF Pool!FinishMain
  <2> QED
    BY <1>2, <2>1 DEF Pool!FinishMain, MainGoes, MainMoves, PoolInv, Pool!TypeOK,
       Pool!slotVars
<1>3. CASE Pool!EndMainWait
  <2>1. MainGoes(pTask[0])
    BY <1>3, ProceedMainGoes DEF Pool!EndMainWait
  <2>2. pLive \subseteq 1..pSize'
    BY <1>3 DEF Pool!EndMainWait, Pool!Trimmed, Pool!TypeOK
  <2> QED
    BY <1>3, <2>1, <2>2 DEF Pool!EndMainWait, Pool!Asleep, MainGoes, MainMoves, PoolInv,
       Pool!TypeOK
<1>4. CASE Pool!EndSweep
  <2>1. MainGoes(pTask[0])
    BY <1>4, ProceedMainGoes DEF Pool!EndSweep
  <2>2. pLive \subseteq 1..pSize'
    BY <1>4 DEF Pool!EndSweep, Pool!Trimmed, Pool!TypeOK
  <2> QED
    BY <1>4, <2>1, <2>2 DEF Pool!EndSweep, MainGoes, MainMoves, PoolInv, Pool!TypeOK
<1> QED
  BY <1>1, <1>2, <1>3, <1>4

\* ... and that it keeps the invariant: if it empties slots, there is room, and
\* it has told the clients.
LEMMA MainKeeps ==
  ASSUME PoolInv, MainMoves
  PROVE  PoolInv'
<1> USE PoolConstants DEF Pool!Slots, Pool!Workers
<1>1. Pool!TypeOK'
  <2>1. \A v \in Pool!Slots : v \in pLive' <=> pPc'[v] # "none"
    BY DEF PoolInv, Pool!TypeOK, MainMoves
  <2>2. /\ pNotified' \subseteq {c \in Clients : pWaits'[c] # NoTask}
        /\ pStarted' \subseteq pAccepted'
    BY DEF PoolInv, Pool!TypeOK, PoolPositions, MainMoves, Pool!NotifyClients
  <2>3. \A u, v \in Pool!Workers : u # v /\ pTask'[v] # NoTask => pTask'[v] # pTask'[u]
    BY DEF PoolInv, Pool!TypeOK, MainMoves
  <2> QED
    BY <2>1, <2>2, <2>3 DEF PoolInv, Pool!TypeOK, MainMoves, Pcs
<1>2. PoolPositions'
  <2>1. ASSUME NEW v \in Pool!Workers
        PROVE  /\ pTask'[v] \in pAccepted' \cup {NoTask}
               /\ pPc'[v] = "run" => pTask'[v] \in pStarted'
               /\ pPc'[v] = "none" => pTask'[v] = NoTask
               /\ pPc'[v] = "exit" => v \in pCancelled'
    <3>1. CASE v = 0
      BY <3>1 DEF PoolInv, PoolPositions, MainMoves
    <3>2. CASE v # 0
      <4>1. v \in Pool!Slots /\ pPc'[v] = pPc[v] /\ pTask'[v] = pTask[v]
        BY <3>2 DEF MainMoves
      <4> QED
        BY <4>1 DEF PoolInv, PoolPositions, MainMoves
    <3> QED
      BY <3>1, <3>2
  <2>2. ASSUME NEW v \in Pool!Slots
        PROVE  /\ pTask'[v] # NoTask => ~pCompleted'[v]
               /\ pPc'[v] \in {"begin", "run", "handler", "handled"} => ~pCompleted'[v]
               /\ pPc'[v] = "nap" => ~pIdle'[v]
               /\ pPc'[v] \notin {"sweep", "join"}
    BY DEF PoolInv, PoolPositions, MainMoves
  <2>3. pPc'[0] \notin {"handler", "handled"}
    BY DEF MainMoves
  <2> QED
    BY <2>1, <2>2, <2>3 DEF PoolPositions
<1>3. PoolCancels'
  BY DEF PoolInv, Pool!TypeOK, PoolCancels, MainMoves
<1>4. PoolSweeping'
  BY DEF PoolSweeping, MainMoves
<1>5. PoolWaiting'
  BY DEF PoolInv, PoolWaiting, MainMoves
<1>6. Pool!NothingDropped'
  <2> SUFFICES ASSUME pDtor = "alive", NEW t \in pAccepted \ pStarted'
               PROVE  \E v \in {0} \cup pLive : /\ pTask'[v] = t /\ v \notin pCancelled
                                               /\ pPc'[v] \notin {"none", "run", "exit"}
    BY DEF Pool!NothingDropped, MainMoves
  <2>1. PICK v \in {0} \cup pLive : /\ pTask[v] = t /\ v \notin pCancelled
                                   /\ pPc[v] \notin {"none", "run", "exit"}
    BY DEF PoolInv, Pool!NothingDropped, MainMoves
  <2>2. CASE v # 0
    BY <2>1, <2>2 DEF MainMoves, PoolInv, Pool!TypeOK
  <2>3. CASE v = 0
    BY <2>1, <2>3 DEF MainMoves, PoolInv, Pool!TypeOK
  <2> QED
    BY <2>2, <2>3
<1>7. Pool!WaitsOnlyForRoom'
  <2> SUFFICES ASSUME NEW c \in Clients, pWaits[c] # NoTask, c \notin pNotified'
               PROVE  Pool!Full' \/ \E v \in pLive : pPc'[v] = "handler"
    BY <1>1 DEF Pool!WaitsOnlyForRoom, MainMoves
  <2>1. pDtor = "alive" /\ 0 \notin pCancelled
    BY DEF PoolInv, PoolWaiting, PoolCancels
  <2>2. pTask'[0] # NoTask /\ pTask'[0] = pTask[0] /\ c \notin pNotified
    BY <2>1 DEF MainMoves, Pool!NotifyClients
  <2>3. \A v \in pLive : pPc'[v] = pPc[v]
    BY DEF MainMoves, PoolInv, Pool!TypeOK
  <2>4. ASSUME Pool!Full PROVE Pool!Full'
    <3>1. pSize' = pSize
      <4>1. CASE pSize = 0
        BY <4>1 DEF MainMoves
      <4>2. CASE pSize # 0
        BY <2>4, <4>2 DEF Pool!Full, Pool!Free, MainMoves, PoolInv, Pool!TypeOK
      <4> QED
        BY <4>1, <4>2
    <3> QED
      BY <2>2, <2>4, <3>1 DEF Pool!Full, Pool!Free, MainMoves, PoolInv, Pool!TypeOK
  <2> QED
    BY <2>2, <2>3, <2>4 DEF PoolInv, Pool!WaitsOnlyForRoom
<1> QED
  BY <1>1, <1>2, <1>3, <1>4, <1>5, <1>6, <1>7 DEF PoolInv

\* The sweep: the timeout, ...
LEMMA TimeOutMainKeeps ==
  ASSUME PoolInv, Pool!TimeOutMain
  PROVE  PoolInv'
<1> USE PoolConstants
        DEF Pool!Slots, Pool!Workers, Pool!TimeOutMain, Pool!Goto, Pool!slotVars,
            Pool!clientVars, Pool!histVars
<1>1. /\ \A v \in Pool!Slots : pPc'[v] = pPc[v]
      /\ pPc'[0] = "sweep" /\ pPc' \in [Pool!Workers -> Pcs]
  BY DEF PoolInv, Pool!TypeOK, Pcs
<1>2. Pool!TypeOK'
  BY <1>1 DEF PoolInv, Pool!TypeOK, Pcs
<1>3. PoolPositions' /\ PoolCancels' /\ PoolSweeping' /\ PoolWaiting'
  BY <1>1 DEF PoolInv, Pool!TypeOK, PoolPositions, PoolCancels, PoolSweeping, PoolWaiting
<1>4. Pool!NothingDropped'
  BY <1>1 DEF PoolInv, Pool!TypeOK, Pool!NothingDropped
<1>5. Pool!WaitsOnlyForRoom'
  BY <1>1, <1>2 DEF PoolInv, Pool!TypeOK, Pool!WaitsOnlyForRoom, Pool!Full, Pool!Free
<1> QED
  BY <1>2, <1>3, <1>4, <1>5 DEF PoolInv

\* ... a worker that is passed over, ...
LEMMA PassOverKeeps ==
  ASSUME PoolInv, Pool!PassOver
  PROVE  PoolInv'
<1> USE PoolConstants
        DEF Pool!Slots, Pool!Workers, Pool!PassOver, Pool!slotVars, Pool!workerVars,
            Pool!clientVars, Pool!histVars
<1>1. Pool!TypeOK'
  BY DEF PoolInv, Pool!TypeOK
<1>2. PoolPositions' /\ PoolCancels' /\ PoolSweeping' /\ PoolWaiting'
  BY DEF PoolInv, Pool!TypeOK, PoolPositions, PoolCancels, PoolSweeping, PoolWaiting
<1>3. Pool!NothingDropped'
  BY DEF PoolInv, Pool!NothingDropped
<1>4. Pool!WaitsOnlyForRoom'
  BY <1>1 DEF PoolInv, Pool!WaitsOnlyForRoom, Pool!Full, Pool!Free
<1> QED
  BY <1>1, <1>2, <1>3, <1>4 DEF PoolInv

\* ... and one that is idle: it sleeps, with no timeout, and has no task.
LEMMA CancelIdleKeeps ==
  ASSUME PoolInv, Pool!CancelIdle
  PROVE  PoolInv'
<1> USE PoolConstants
        DEF Pool!Slots, Pool!Workers, Pool!CancelIdle, Pool!Goto, Pool!slotVars,
            Pool!clientVars, Pool!histVars
<1>1. /\ \A v \in Pool!Slots : pPc'[v] = pPc[v]
      /\ pPc'[0] = "join" /\ pPc' \in [Pool!Workers -> Pcs]
  BY DEF PoolInv, Pool!TypeOK, Pcs
<1>2. /\ pChecked \in Pool!Slots /\ pChecked \in pLive /\ pTask[pChecked] = NoTask
      /\ pPc[pChecked] \in {"sleep", "exit"}
  <2>1. pChecked \in Pool!Slots
    BY DEF PoolInv, Pool!TypeOK, Pool!IsIdle
  <2>2. pPc[pChecked] \in Pcs \ {"none", "begin", "run", "handler", "handled", "nap",
                                "sweep", "join"}
    BY <2>1 DEF PoolInv, Pool!TypeOK, PoolPositions, Pool!IsIdle, Pcs
  <2> QED
    BY <2>1, <2>2 DEF Pool!IsIdle, Pcs
<1>3. Pool!TypeOK'
  BY <1>1, <1>2 DEF PoolInv, Pool!TypeOK, Pcs
<1>4. PoolPositions' /\ PoolCancels' /\ PoolSweeping' /\ PoolWaiting'
  BY <1>1, <1>2 DEF PoolInv, Pool!TypeOK, PoolPositions, PoolCancels, PoolSweeping,
     PoolWaiting
<1>5. Pool!NothingDropped'
  <2> SUFFICES ASSUME pDtor = "alive", NEW t \in pAccepted \ pStarted
               PROVE  \E v \in {0} \cup pLive : /\ pTask[v] = t /\ v \notin pCancelled'
                                               /\ pPc'[v] \notin {"none", "run", "exit"}
    BY DEF Pool!NothingDropped
  <2>1. PICK v \in {0} \cup pLive : /\ pTask[v] = t /\ v \notin pCancelled
                                   /\ pPc[v] \notin {"none", "run", "exit"}
    BY DEF PoolInv, Pool!NothingDropped
  <2>2. v # pChecked
    BY <1>2, <2>1 DEF PoolInv, Pool!TypeOK
  <2> QED
    BY <1>1, <2>1, <2>2 DEF PoolInv, Pool!TypeOK
<1>6. Pool!WaitsOnlyForRoom'
  BY <1>1, <1>3 DEF PoolInv, Pool!TypeOK, Pool!WaitsOnlyForRoom, Pool!Full, Pool!Free
<1> QED
  BY <1>3, <1>4, <1>5, <1>6 DEF PoolInv

\* A slot is emptied in the sweep or in the destructor.
LEMMA VacateKeeps ==
  ASSUME PoolInv, Pool!JoinIdle \/ \E v \in Pool!Slots : Pool!JoinSlot(v)
  PROVE  PoolInv'
<1> USE PoolConstants
        DEF Pool!Slots, Pool!Workers, Pool!clientVars, Pool!histVars
<1>1. PICK w \in pLive \cap pCancelled, m \in {"sweep", pPc[0]} :
        /\ Pool!Vacate(w, m)
        /\ \/ /\ pPc[0] = "join" /\ m = "sweep" /\ w = pChecked /\ pTask[w] = NoTask
              /\ pChecked' = pChecked + 1
           \/ pDtor = "slots" /\ m = pPc[0] /\ pChecked' = pChecked
        /\ UNCHANGED <<pSize, pWaits, pNotified, pDtor, pAccepted, pStarted>>
  <2>1. CASE Pool!JoinIdle
    BY <2>1 DEF Pool!JoinIdle, PoolInv, PoolSweeping
  <2>2. ASSUME NEW v \in Pool!Slots, Pool!JoinSlot(v)
        PROVE  Pool!Vacate(v, pPc[0]) /\ v \in pLive \cap pCancelled
               /\ pDtor = "slots" /\ pChecked' = pChecked
               /\ UNCHANGED <<pSize, pWaits, pNotified, pDtor, pAccepted, pStarted>>
    BY <2>2 DEF Pool!JoinSlot
  <2> QED
    BY <2>1, <2>2
<1>2. w \in 1..pSize /\ w \in Pool!Slots /\ pPc[w] = "exit"
  BY <1>1 DEF PoolInv, Pool!TypeOK, Pool!Vacate
<1>3. /\ pPc' \in [Pool!Workers -> Pcs] /\ pPc'[w] = "none" /\ pPc'[0] = m
      /\ \A v \in Pool!Slots \ {w} : pPc'[v] = pPc[v]
  <2>1. m \in Pcs /\ pPc \in [Pool!Workers -> Pcs]
    BY <1>1 DEF PoolInv, Pool!TypeOK, Pcs
  <2>2. pPc' = [pPc EXCEPT ![w] = "none", ![0] = m]
    BY <1>1 DEF Pool!Vacate
  <2>3. "none" \in Pcs
    BY DEF Pcs
  <2> HIDE DEF Pcs
  <2> QED
    BY <1>2, <2>1, <2>2, <2>3
<1>4. /\ pTask' \in [Pool!Workers -> PoolTasks \cup {NoTask}] /\ pTask'[w] = NoTask
      /\ pCompleted' \in [Pool!Workers -> BOOLEAN] /\ pIdle' \in [Pool!Workers -> BOOLEAN]
      /\ \A v \in Pool!Workers \ {w} :
            pTask'[v] = pTask[v] /\ pCompleted'[v] = pCompleted[v] /\ pIdle'[v] = pIdle[v]
      /\ pCompleted'[w] = FALSE
      /\ pLive' = pLive \ {w} /\ pCancelled' = pCancelled \ {w} /\ pWoken' = pWoken \ {w}
  BY <1>1, <1>2 DEF Pool!Vacate, PoolInv, Pool!TypeOK
<1>5. Pool!TypeOK'
  <2>1. pChecked' \in 0..MaxThreads
    BY <1>1, <1>2 DEF PoolInv, Pool!TypeOK
  <2>2. \A v \in Pool!Slots : v \in pLive' <=> pPc'[v] # "none"
    BY <1>3, <1>4 DEF PoolInv, Pool!TypeOK
  <2>3. \A u, v \in Pool!Workers : u # v /\ pTask'[v] # NoTask => pTask'[v] # pTask'[u]
    BY <1>4 DEF PoolInv, Pool!TypeOK
  <2> QED
    BY <1>1, <1>3, <1>4, <2>1, <2>2, <2>3 DEF PoolInv, Pool!TypeOK, Pcs
<1>6. PoolPositions'
  <2>1. ASSUME NEW v \in Pool!Workers
        PROVE  /\ pTask'[v] \in pAccepted' \cup {NoTask}
               /\ pPc'[v] = "run" => pTask'[v] \in pStarted'
               /\ pPc'[v] = "none" => pTask'[v] = NoTask
               /\ pPc'[v] = "exit" => v \in pCancelled'
    <3>1. CASE v = w
      BY <1>3, <1>4, <3>1
    <3>2. CASE v # w /\ v # 0
      <4>1. v \in Pool!Slots \ {w} /\ v \in Pool!Workers \ {w}
        BY <3>2
      <4>2. pPc'[v] = pPc[v] /\ pTask'[v] = pTask[v] /\ UNCHANGED <<pAccepted, pStarted>>
        BY <1>1, <1>3, <1>4, <4>1
      <4>3. v \in pCancelled => v \in pCancelled'
        BY <1>4, <3>2
      <4> QED
        BY <4>1, <4>2, <4>3 DEF PoolInv, PoolPositions
    <3>3. CASE v = 0
      BY <1>1, <1>2, <1>3, <1>4, <3>3 DEF PoolInv, PoolPositions
    <3> QED
      BY <3>1, <3>2, <3>3
  <2>2. ASSUME NEW v \in Pool!Slots
        PROVE  /\ pTask'[v] # NoTask => ~pCompleted'[v]
               /\ pPc'[v] \in {"begin", "run", "handler", "handled"} => ~pCompleted'[v]
               /\ pPc'[v] = "nap" => ~pIdle'[v]
               /\ pPc'[v] \notin {"sweep", "join"}
    <3>1. CASE v = w
      BY <1>3, <1>4, <3>1
    <3>2. CASE v # w
      BY <1>3, <1>4, <3>2 DEF PoolInv, PoolPositions
    <3> QED
      BY <3>1, <3>2
  <2>3. pPc'[0] \notin {"handler", "handled"}
    BY <1>1, <1>3 DEF PoolInv, PoolPositions
  <2> QED
    BY <2>1, <2>2, <2>3 DEF PoolPositions
<1>7. PoolCancels'
  BY <1>1, <1>2, <1>3, <1>4 DEF PoolInv, Pool!TypeOK, PoolCancels
<1>8. PoolSweeping'
  BY <1>1, <1>2, <1>3 DEF PoolInv, Pool!TypeOK, PoolCancels, PoolSweeping
<1>9. PoolWaiting'
  BY <1>1 DEF PoolInv, PoolWaiting
<1>10. Pool!NothingDropped'
  <2> SUFFICES ASSUME pDtor = "alive", NEW t \in pAccepted \ pStarted
               PROVE  \E v \in {0} \cup pLive' : /\ pTask'[v] = t /\ v \notin pCancelled'
                                                /\ pPc'[v] \notin {"none", "run", "exit"}
    BY <1>1 DEF Pool!NothingDropped
  <2>1. PICK v \in {0} \cup pLive : /\ pTask[v] = t /\ v \notin pCancelled
                                   /\ pPc[v] \notin {"none", "run", "exit"}
    BY DEF PoolInv, Pool!NothingDropped
  <2>2. v # w
    BY <1>2, <2>1
  <2>3. v \in Pool!Workers /\ (v # 0 => v \in Pool!Slots)
    BY DEF PoolInv, Pool!TypeOK
  <2>4. pPc'[v] \notin {"none", "run", "exit"}
    BY <1>1, <1>3, <2>1, <2>2, <2>3
  <2> QED
    BY <1>4, <2>1, <2>2, <2>3, <2>4
<1>11. Pool!WaitsOnlyForRoom'
  <2> SUFFICES ASSUME NEW c \in Clients, pWaits[c] # NoTask, c \notin pNotified
               PROVE  \E v \in pLive' : pPc'[v] = "handler"
    BY <1>1, <1>5 DEF Pool!WaitsOnlyForRoom
  <2>1. pTask[w] = NoTask
    BY <1>1 DEF PoolInv, PoolWaiting
  <2>2. ~Pool!Full
    BY <1>2, <2>1 DEF Pool!Full, Pool!Free
  <2>3. PICK v \in pLive : pPc[v] = "handler"
    BY <2>2 DEF PoolInv, Pool!WaitsOnlyForRoom
  <2>4. v # w /\ v \in Pool!Slots
    BY <1>2, <2>3 DEF PoolInv, Pool!TypeOK
  <2> QED
    BY <1>3, <1>4, <2>3, <2>4
<1> QED
  BY <1>5, <1>6, <1>7, <1>8, <1>9, <1>10, <1>11 DEF PoolInv

-----------------------------------------------------------------------------
(* The destructor and the clients *)

\* The destructor cancels workers only when nobody calls the pool any more.
LEMMA DtorKeeps ==
  ASSUME PoolInv, Pool!Destroy \/ Pool!JoinMain \/ \E w \in Pool!Slots : Pool!CancelSlot(w)
  PROVE  PoolInv'
<1> USE PoolConstants
        DEF Pool!Slots, Pool!Workers, Pool!slotVars, Pool!workerVars, Pool!clientVars,
            Pool!histVars
<1>1. /\ UNCHANGED <<pSize, pLive, pTask, pCompleted, pIdle, pPc, pWoken, pChecked, pWaits,
                     pNotified, pAccepted, pStarted>>
      /\ pCancelled \subseteq pCancelled' /\ pCancelled' \subseteq Pool!Workers
      /\ pDtor' \in {"main", "slots"}
      /\ \A c \in Clients : pWaits[c] = NoTask
  <2>1. pDtor = "slots" => \A c \in Clients : pWaits[c] = NoTask
    BY DEF PoolInv, PoolWaiting
  <2>2. pDtor = "main" => \A c \in Clients : pWaits[c] = NoTask
    BY DEF PoolInv, PoolWaiting
  <2>3. CASE Pool!Destroy
    BY <2>3 DEF Pool!Destroy, PoolInv, Pool!TypeOK
  <2>4. CASE Pool!JoinMain
    BY <2>2, <2>4 DEF Pool!JoinMain, PoolInv, Pool!TypeOK
  <2>5. CASE \E w \in Pool!Slots : Pool!CancelSlot(w)
    <3>1. PICK w \in Pool!Slots : Pool!CancelSlot(w)
      BY <2>5
    <3>2. /\ UNCHANGED <<pSize, pLive, pTask, pCompleted, pIdle, pPc, pWoken, pChecked,
                         pWaits, pNotified, pAccepted, pStarted>>
          /\ pDtor = "slots" /\ pDtor' = "slots" /\ pCancelled' = pCancelled \cup {w}
      BY <3>1 DEF Pool!CancelSlot
    <3>3. pCancelled \subseteq Pool!Workers /\ w \in Pool!Workers
      BY DEF PoolInv, Pool!TypeOK
    <3> QED
      BY <2>1, <3>2, <3>3
  <2> QED
    BY <2>3, <2>4, <2>5
<1>2. Pool!TypeOK'
  BY <1>1 DEF PoolInv, Pool!TypeOK
<1>3. PoolPositions' /\ PoolWaiting' /\ Pool!NothingDropped' /\ Pool!WaitsOnlyForRoom'
  BY <1>1, <1>2 DEF PoolInv, PoolPositions, PoolWaiting, Pool!NothingDropped,
     Pool!WaitsOnlyForRoom
<1>4. PoolCancels'
  BY <1>1 DEF Pool!Destroy, Pool!JoinMain, Pool!CancelSlot, PoolInv, Pool!TypeOK,
     PoolCancels
<1>5. PoolSweeping'
  BY <1>1 DEF PoolInv, PoolSweeping
<1> QED
  BY <1>2, <1>3, <1>4, <1>5 DEF PoolInv

\* A call that is accepted, at once or after a wait, gives up no other client.
LEMMA CallKeeps ==
  ASSUME PoolInv, NEW c \in Clients, NEW t \in PoolTasks, Pool!CanCall(c, t),
         Pool!Accept(t), UNCHANGED Pool!clientVars
  PROVE  PoolInv'
<1>1. t \in PoolTasks \ pAccepted /\ \A d \in Clients : pWaits[d] # t
  BY DEF Pool!CanCall, Pool!Unused
<1>2. ClientsAt(t)
  BY <1>1 DEF ClientsAt, Pool!clientVars, PoolInv, Pool!TypeOK
<1> QED
  BY <1>1, <1>2, AcceptKeeps DEF Pool!CanCall

\* A client that was woken queues its task, or finds the pool full again.
LEMMA RetryKeeps ==
  ASSUME PoolInv, NEW c \in Clients, Pool!Retry(c)
  PROVE  PoolInv'
<1> USE PoolConstants
<1>1. c \in pNotified /\ pWaits[c] \in PoolTasks /\ pDtor = "alive" /\ ~Pool!Locked
  BY DEF Pool!Retry, PoolInv, Pool!TypeOK, PoolWaiting
<1>2. CASE Pool!Accept(pWaits[c]) /\ pWaits' = [pWaits EXCEPT ![c] = NoTask]
  <2>1. pWaits[c] \in PoolTasks \ pAccepted
    BY <1>1 DEF PoolInv, PoolWaiting
  <2>2. ClientsAt(pWaits[c])
    BY <1>1, <1>2 DEF Pool!Retry, ClientsAt, PoolInv, Pool!TypeOK, PoolWaiting
  <2> QED
    BY <1>1, <1>2, <2>1, <2>2, AcceptKeeps
<1>3. CASE Pool!Full /\ UNCHANGED <<Pool!slotVars, Pool!workerVars, pChecked, pWaits,
                                    pDtor, Pool!histVars>>
  <2> USE <1>3 DEF Pool!slotVars, Pool!workerVars, Pool!histVars, Pool!Retry
  <2>1. Pool!TypeOK'
    BY DEF PoolInv, Pool!TypeOK
  <2>2. PoolPositions' /\ PoolCancels' /\ PoolSweeping' /\ PoolWaiting' /\ Pool!NothingDropped'
    BY DEF PoolInv, PoolPositions, PoolCancels, PoolSweeping, PoolWaiting,
       Pool!NothingDropped, Pool!Slots, Pool!Workers
  <2>3. Pool!WaitsOnlyForRoom'
    BY <2>1 DEF Pool!WaitsOnlyForRoom, Pool!Full, Pool!Free
  <2> QED
    BY <2>1, <2>2, <2>3 DEF PoolInv
<1> QED
  BY <1>2, <1>3 DEF Pool!Retry

\* A client begins to wait, or gives up.
LEMMA WaitKeeps ==
  ASSUME PoolInv, NEW c \in Clients, NEW t \in PoolTasks \cup {NoTask},
         pWaits' = [pWaits EXCEPT ![c] = t],
         t = NoTask => pNotified' = pNotified \ {c},
         t # NoTask => Pool!CanCall(c, t) /\ Pool!Full /\ pNotified' = pNotified,
         UNCHANGED <<Pool!slotVars, Pool!workerVars, pChecked, pDtor, Pool!histVars>>
  PROVE  PoolInv'
<1> USE PoolConstants DEF Pool!slotVars, Pool!workerVars, Pool!histVars
<1>1. Pool!TypeOK'
  BY DEF PoolInv, Pool!TypeOK, Pool!CanCall
<1>2. PoolWaiting'
  <2>1. CASE t = NoTask
    BY <2>1 DEF PoolInv, Pool!TypeOK, PoolWaiting
  <2>2. CASE t # NoTask
    <3>1. pDtor = "alive" /\ t \notin pAccepted /\ \A d \in Clients : pWaits[d] # t
      BY <2>2 DEF Pool!CanCall, Pool!Unused
    <3> QED
      BY <3>1 DEF PoolInv, Pool!TypeOK, PoolWaiting
  <2> QED
    BY <2>1, <2>2
<1>3. PoolPositions' /\ PoolCancels' /\ PoolSweeping' /\ Pool!NothingDropped'
  BY DEF PoolInv, PoolPositions, PoolCancels, PoolSweeping, Pool!NothingDropped,
     Pool!Slots, Pool!Workers
<1>4. Pool!WaitsOnlyForRoom'
  <2>1. CASE t = NoTask
    BY <1>1, <2>1 DEF PoolInv, Pool!TypeOK, Pool!WaitsOnlyForRoom, Pool!Full, Pool!Free
  <2>2. CASE t # NoTask
    BY <1>1, <2>2 DEF Pool!WaitsOnlyForRoom, Pool!Full, Pool!Free
  <2> QED
    BY <2>1, <2>2
<1> QED
  BY <1>1, <1>2, <1>3, <1>4 DEF PoolInv

\* So the invariant is kept by every step of the clients ...
LEMMA ClientKeeps ==
  ASSUME PoolInv, NEW c \in Clients,
         \/ \E t \in PoolTasks : Pool!TryQueue(c, t) \/ Pool!WaitQueue(c, t)
         \/ Pool!Retry(c) \/ Pool!GiveUp(c)
  PROVE  PoolInv'
<1> USE PoolConstants
<1>1. ASSUME NEW t \in PoolTasks, Pool!TryQueue(c, t) PROVE PoolInv'
  BY <1>1, CallKeeps DEF Pool!TryQueue
<1>2. ASSUME NEW t \in PoolTasks, Pool!WaitQueue(c, t) PROVE PoolInv'
  <2>1. CASE Pool!Accept(t) /\ UNCHANGED Pool!clientVars
    BY <1>2, <2>1, CallKeeps DEF Pool!WaitQueue
  <2>2. CASE /\ Pool!Full
             /\ pWaits' = [pWaits EXCEPT ![c] = t]
             /\ UNCHANGED <<Pool!slotVars, Pool!workerVars, pChecked, pNotified, pDtor,
                            Pool!histVars>>
    <3>1. t # NoTask /\ Pool!CanCall(c, t) /\ pNotified' = pNotified
      BY <1>2, <2>2 DEF Pool!WaitQueue
    <3> QED
      BY <2>2, <3>1, WaitKeeps
  <2> QED
    BY <1>2, <2>1, <2>2 DEF Pool!WaitQueue
<1>3. CASE Pool!GiveUp(c)
  BY <1>3, WaitKeeps DEF Pool!GiveUp
<1> QED
  BY <1>1, <1>2, <1>3, RetryKeeps

-----------------------------------------------------------------------------
\* ... and by every other.
LEMMA PoolNext == PoolInv /\ [Pool!Next]_(Pool!vars) => PoolInv'
<1> SUFFICES ASSUME PoolInv, [Pool!Next]_(Pool!vars) PROVE PoolInv'
  OBVIOUS
<1>1. ASSUME NEW c \in Clients,
             \/ \E t \in PoolTasks : Pool!TryQueue(c, t) \/ Pool!WaitQueue(c, t)
             \/ Pool!Retry(c) \/ Pool!GiveUp(c)
      PROVE  PoolInv'
  BY <1>1, ClientKeeps
<1>2. CASE Pool!MainStep \/ Pool!WakeMainSpuriously \/ Pool!TimeOutMain \/ Pool!FinishMain
  <2>1. CASE Pool!BeginMain \/ Pool!WakeMain \/ Pool!EndSweep \/ Pool!WakeMainSpuriously \/ Pool!FinishMain
    BY <2>1, MainStepMoves, MainKeeps DEF Pool!WakeMain, Pool!WakeMainSpuriously
  <2>2. CASE Pool!JoinIdle
    BY <2>2, VacateKeeps
  <2> QED
    BY <1>2, <2>1, <2>2, PassOverKeeps, CancelIdleKeeps, TimeOutMainKeeps DEF Pool!MainStep
<1>3. ASSUME NEW w \in Pool!Slots,
             Pool!WorkerStep(w) \/ Pool!CompletedHandler(w) \/ Pool!WakeSpuriously(w) \/ Pool!TimeOut(w)
                 \/ Pool!FinishTask(w)
      PROVE  PoolInv'
  BY <1>3, SlotMoves, SlotKeeps
<1>4. CASE Pool!Destroy \/ Pool!DtorStep
  <2>1. CASE \E w \in Pool!Slots : Pool!JoinSlot(w)
    BY <2>1, VacateKeeps
  <2> QED
    BY <1>4, <2>1, DtorKeeps DEF Pool!DtorStep
<1>5. CASE UNCHANGED Pool!vars
  BY <1>5 DEF Pool!vars, Pool!slotVars, Pool!workerVars, Pool!clientVars, Pool!histVars,
     PoolInv, Pool!TypeOK, PoolPositions,
      PoolCancels, PoolSweeping, PoolWaiting, Pool!NothingDropped, Pool!WaitsOnlyForRoom,
          Pool!Full, Pool!Free
<1> QED
  BY <1>1, <1>2, <1>3, <1>4, <1>5 DEF Pool!Next, Pool!Finish, Pool!Destroyed

\* The invariant holds in every state.
LEMMA PoolInvariance == ExecutorsSpec => []PoolInv
  BY PoolInit, PoolNext, EitherExecutor, PTL DEF Pool!Spec

(***************************************************************************)
(* Each task that is accepted is, until it is executed, in the hands of a  *)
(* worker that is neither cancelled nor ended, although idle workers are   *)
(* destroyed and their slots used again; and each client in WaitQueue      *)
(* waits only as long as the pool is full, or will be woken                *)
(* (ThreadPool.cpp:171-204, 235-293).                                      *)
(***************************************************************************)
THEOREM NobodyIsForgottenAlways == ExecutorsSpec => []NobodyIsForgotten
<1>1. PoolInv => NobodyIsForgotten
  BY DEF PoolInv, NobodyIsForgotten, Pool!NobodyIsForgotten
<1> QED
  BY <1>1, PoolInvariance, PTL

(***************************************************************************)
(* A worker that the main one joins with the pool's mutex locked ends      *)
(* without that mutex: it has no task, and is neither on its way to        *)
(* TaskCompletedHandler nor in a task (ThreadPool.cpp:51-55, 277).         *)
(***************************************************************************)
THEOREM JoinsOnlySleepersAlways == ExecutorsSpec => []JoinsOnlySleepers
<1>1. PoolInv => JoinsOnlySleepers
  BY DEF PoolInv, PoolSweeping, JoinsOnlySleepers, Pool!JoinsOnlySleepers
<1> QED
  BY <1>1, PoolInvariance, PTL

=============================================================================
