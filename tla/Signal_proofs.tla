---------------------------- MODULE Signal_proofs -----------------------------
(***************************************************************************)
(* Proofs about Signal, for any threads, connections, values and number of *)
(* invocations: once a thread outside a slot has disconnected it, the slot *)
(* is not running and will not run; and a signal that is invoked under its *)
(* mutex is an observable value.                                           *)
(*                                                                         *)
(* The first argument is who holds the mutex of a connection's token:      *)
(* exactly the thread that is in the slot (TypeOK), once (OneDeep). A      *)
(* thread that is not in the slot and gets the mutex so finds nobody there,*)
(* and the flag that it clears keeps out whoever comes later with an old   *)
(* copy of the handlers or an old task. The rest of IInv says that what    *)
(* the threads carry with them are connections and values that exist.      *)
(*                                                                         *)
(* The second is what a connection is owed: the arguments of its tasks in  *)
(* the executor, and then that of the one invocation that may be under way *)
(* (Copies). Each step changes that as a step of the observable value does *)
(* (InvocationMaps, ExecutorMaps, ConnectionMaps). Which of the tasks are  *)
(* the connection's is a matter of counting: their ranks, of which the     *)
(* lemmas before it say what Append and Tail do to them.                   *)
(***************************************************************************)
EXTENDS Signal, SequenceTheorems, FiniteSetTheorems, WellFoundedInduction, TLAPS

\* Nobody locks a token's mutex twice, for no slot calls itself.
OneDeep == \A c \in Connections : depth[c] \in {0, 1}

\* A thread has a connection in hand exactly while it is in a slot; the
\* executor has no invocation, and each invocation has an argument.
InHand ==
    /\ \A th \in Threads : pc[th] = "run" <=> current[th] # None
    /\ pc[Executor] # "invoke"
    /\ \A th \in Users : pc[th] # "idle" => arg[th] \in Values

\* What is in the signal or about to leave it was connected.
OnceConnected ==
    /\ \A i \in DOMAIN handlers : handlers[i] \in connected
    /\ \A th \in Threads : leaving[th] \in connected \cup {None}

IInv ==
    /\ NothingCalledAfterDisconnect
    /\ OneDeep
    /\ InHand
    /\ OnceConnected

\* The invariant holds at the start ...
LEMMA InitInv == Init => IInv
<1> SUFFICES ASSUME Init PROVE IInv
  OBVIOUS
<1> USE ThreadsAssumption, AsyncAssumption, ValuesAssumption, BoundAssumption,
        NoThreadAssumption DEF Init, LifeInit, Connections
<1>1. TypeOK
  BY DEF TypeOK, LifeTypeOK
<1> QED
  BY <1>1 DEF IInv, NothingCalledAfterDisconnect, OneDeep, InHand, OnceConnected

\* What is taken from a sequence of something else is of the same kind.
LEMMA Taken ==
  ASSUME NEW S, NEW s \in Seq(S), s # <<>>
  PROVE  /\ Head(s) \in S
         /\ Tail(s) \in Seq(S)
OBVIOUS

\* What is appended to a sequence is the last element of the longer one.
LEMMA Appended ==
  ASSUME NEW S, NEW s \in Seq(S), NEW e \in S
  PROVE  /\ Append(s, e) \in Seq(S)
         /\ \A i \in DOMAIN Append(s, e) :
                Append(s, e)[i] = e \/ (i \in DOMAIN s /\ Append(s, e)[i] = s[i])
<1>1. Append(s, e) \in Seq(S) /\ DOMAIN Append(s, e) = 1..(Len(s) + 1)
  OBVIOUS
<1>2. ASSUME NEW i \in 1..(Len(s) + 1)
      PROVE  Append(s, e)[i] = e \/ (i \in DOMAIN s /\ Append(s, e)[i] = s[i])
  <2>1. CASE i = Len(s) + 1
    BY <2>1
  <2>2. CASE i # Len(s) + 1
    BY <2>2
  <2> QED
    BY <2>1, <2>2
<1> QED
  BY <1>1, <1>2

\* Erasing an element leaves a sequence of elements that were there.
LEMMA Erased ==
  ASSUME NEW S, NEW s \in Seq(S), NEW i \in DOMAIN s
  PROVE  /\ RemoveAt(s, i) \in Seq(S)
         /\ \A j \in DOMAIN RemoveAt(s, i) : \E k \in DOMAIN s : RemoveAt(s, i)[j] = s[k]
<1>1. i \in 1..Len(s)
  OBVIOUS
<1> DEFINE front == SubSeq(s, 1, i - 1)
           back == SubSeq(s, i + 1, Len(s))
<1>2. /\ front \in Seq(S) /\ Len(front) = i - 1
      /\ \A j \in 1..(i - 1) : front[j] = s[j]
  BY <1>1
<1>3. /\ back \in Seq(S) /\ Len(back) = Len(s) - i
      /\ \A j \in 1..(Len(s) - i) : back[j] = s[i + j]
  BY <1>1
<1>4. RemoveAt(s, i) = front \o back
  BY DEF RemoveAt
<1> HIDE DEF front, back
<1>5. /\ front \o back \in Seq(S)
      /\ DOMAIN (front \o back) = 1..(Len(s) - 1)
  BY <1>1, <1>2, <1>3
<1>6. ASSUME NEW j \in 1..(Len(s) - 1)
      PROVE  \E k \in DOMAIN s : (front \o back)[j] = s[k]
  <2>1. CASE j <= i - 1
    <3>1. (front \o back)[j] = s[j]
      BY <1>1, <1>2, <1>3, <2>1
    <3> QED
      BY <3>1, <1>1, <2>1
  <2>2. CASE ~(j <= i - 1)
    <3>1. (front \o back)[j] = back[j - (i - 1)]
      BY <1>1, <1>2, <1>3, <2>2
    <3>2. j - (i - 1) \in 1..(Len(s) - i) /\ j + 1 \in DOMAIN s
      BY <1>1, <2>2
    <3>3. back[j - (i - 1)] = s[i + (j - (i - 1))] /\ i + (j - (i - 1)) = j + 1
      BY <1>1, <1>3, <3>2
    <3> QED
      BY <3>1, <3>2, <3>3
  <2> QED
    BY <2>1, <2>2
<1> QED
  BY <1>4, <1>5, <1>6

\* Who enters a slot finds its token's mutex free, and locks it once.
LEMMA Entered ==
  ASSUME IInv, NEW c \in Connections, NEW th \in Threads, pc[th] # "run",
         TryStartExecution(c, th)
  PROVE  /\ holder[c] = NoThread
         /\ depth[c] = 0
         /\ alive[c]
         /\ holder' = [holder EXCEPT ![c] = th]
         /\ depth' = [depth EXCEPT ![c] = 1]
         /\ alive' = alive
<1>1. holder[c] # th
  BY DEF IInv, NothingCalledAfterDisconnect, TypeOK
<1>2. holder[c] = NoThread /\ alive[c]
  BY <1>1 DEF TryStartExecution, CanLock
<1>3. depth[c] = 0
  BY <1>2 DEF IInv, NothingCalledAfterDisconnect, TypeOK, LifeTypeOK, Connections
<1> QED
  BY <1>2, <1>3 DEF TryStartExecution

\* Who leaves a slot had locked its token's mutex, once.
LEMMA Left ==
  ASSUME IInv, NEW th \in Threads, pc[th] = "run", FinishExecution(current[th], th)
  PROVE  /\ current[th] \in Connections
         /\ holder[current[th]] = th
         /\ depth[current[th]] = 1
         /\ holder' = [holder EXCEPT ![current[th]] = NoThread]
         /\ depth' = [depth EXCEPT ![current[th]] = 0]
         /\ alive' = alive
<1>1. current[th] \in Connections
  BY DEF IInv, NothingCalledAfterDisconnect, TypeOK, InHand
<1>2. holder[current[th]] = th
  BY DEF FinishExecution
<1>3. depth[current[th]] = 1
  BY <1>1, <1>2, NoThreadAssumption
     DEF IInv, NothingCalledAfterDisconnect, TypeOK, LifeTypeOK, OneDeep, Connections
<1> QED
  BY <1>1, <1>2, <1>3 DEF FinishExecution

\* The invariant survives a step of an invocation.
LEMMA InvocationInv ==
  ASSUME IInv, NEW th \in Users,
         \/ \E v \in Values : Invoke(th, v)
         \/ CallSlot(th) \/ SkipSlot(th) \/ AddSlot(th)
         \/ ReturnFromSlot(th) \/ EndInvoke(th)
  PROVE  IInv'
<1> USE ThreadsAssumption, AsyncAssumption, ValuesAssumption, BoundAssumption,
        NoThreadAssumption
    DEF IInv, NothingCalledAfterDisconnect, TypeOK, LifeTypeOK, OneDeep, InHand,
        OnceConnected, Connections, lifeVars, signalVars, threadVars, histVars,
        Goto, CanLock
<1>1. ASSUME NEW v \in Values, Invoke(th, v) PROVE IInv'
  BY <1>1 DEF Invoke, Idle
<1>2. CASE CallSlot(th)
  <2> DEFINE c == Head(local[th])
  <2>1. c \in Connections /\ Tail(local[th]) \in Seq(Connections)
    BY <1>2, Taken DEF CallSlot
  <2>2. /\ holder[c] = NoThread
        /\ depth[c] = 0
        /\ alive[c]
        /\ holder' = [holder EXCEPT ![c] = th]
        /\ depth' = [depth EXCEPT ![c] = 1]
        /\ alive' = alive
    BY <1>2, <2>1, Entered DEF CallSlot
  <2>3. /\ local' = [local EXCEPT ![th] = Tail(local[th])]
        /\ current' = [current EXCEPT ![th] = c]
        /\ told' = [told EXCEPT ![c] = arg[th]]
        /\ pc[th] = "invoke"
        /\ pc' = [pc EXCEPT ![th] = "run"]
        /\ UNCHANGED <<signalVars, arg, leaving, queue, connected, disconnected,
                       invocations>>
    BY <1>2 DEF CallSlot, Call
  <2> HIDE DEF c
  <2>4. LifeTypeOK'
    BY <2>1, <2>2
  <2>5. TypeOK'
    BY <2>1, <2>2, <2>3, <2>4
  <2>6. OneDeep' /\ InHand' /\ OnceConnected'
    BY <2>1, <2>2, <2>3
  <2>7. (\A d \in disconnected : ~alive[d] /\ \A t \in Threads : current[t] # d)'
    BY <2>1, <2>2, <2>3
  <2> QED
    BY <2>5, <2>6, <2>7
<1>3. CASE SkipSlot(th)
  <2>1. Tail(local[th]) \in Seq(Connections)
    BY <1>3, Taken DEF SkipSlot
  <2> QED
    BY <1>3, <2>1 DEF SkipSlot, RefuseExecution
<1>4. CASE AddSlot(th)
  <2>1. Head(local[th]) \in Async /\ Tail(local[th]) \in Seq(Connections)
    BY <1>4, Taken DEF AddSlot
  <2>2. queue' \in Seq(Async \X Values)
    BY <1>4, <2>1 DEF AddSlot
  <2> QED
    BY <1>4, <2>1, <2>2 DEF AddSlot
<1>5. CASE ReturnFromSlot(th)
  <2> DEFINE c == current[th]
  <2>1. /\ c \in Connections
        /\ holder[c] = th
        /\ depth[c] = 1
        /\ holder' = [holder EXCEPT ![c] = NoThread]
        /\ depth' = [depth EXCEPT ![c] = 0]
        /\ alive' = alive
    BY <1>5, Left DEF ReturnFromSlot
  <2>2. /\ current' = [current EXCEPT ![th] = None]
        /\ pc[th] = "run"
        /\ pc' = [pc EXCEPT ![th] = "invoke"]
        /\ UNCHANGED <<signalVars, local, arg, leaving, queue, histVars>>
    BY <1>5 DEF ReturnFromSlot
  <2>3. LifeTypeOK'
    BY <2>1
  <2>4. TypeOK'
    BY <2>1, <2>2, <2>3
  <2> QED
    BY <2>1, <2>2, <2>4
<1>6. CASE EndInvoke(th)
  BY <1>6 DEF EndInvoke
<1> QED
  BY <1>1, <1>2, <1>3, <1>4, <1>5, <1>6

\* The invariant survives a step of the executor.
LEMMA ExecutorInv ==
  ASSUME IInv, RunTask \/ SkipTask \/ FinishTask
  PROVE  IInv'
<1> USE ThreadsAssumption, AsyncAssumption, ValuesAssumption, BoundAssumption,
        NoThreadAssumption
    DEF IInv, NothingCalledAfterDisconnect, TypeOK, LifeTypeOK, OneDeep, InHand,
        OnceConnected, Connections, lifeVars, signalVars, threadVars, histVars,
        Goto, CanLock
<1>1. CASE RunTask
  <2> DEFINE c == Head(queue)[1]
             v == Head(queue)[2]
  <2>1. c \in Connections /\ v \in Values /\ Tail(queue) \in Seq(Async \X Values)
    BY <1>1, Taken DEF RunTask
  <2>2. /\ holder[c] = NoThread
        /\ depth[c] = 0
        /\ alive[c]
        /\ holder' = [holder EXCEPT ![c] = Executor]
        /\ depth' = [depth EXCEPT ![c] = 1]
        /\ alive' = alive
    BY <1>1, <2>1, Entered DEF RunTask
  <2>3. /\ queue' = Tail(queue)
        /\ current' = [current EXCEPT ![Executor] = c]
        /\ told' = [told EXCEPT ![c] = v]
        /\ pc[Executor] = "idle"
        /\ pc' = [pc EXCEPT ![Executor] = "run"]
        /\ UNCHANGED <<signalVars, local, arg, leaving, connected, disconnected,
                       invocations>>
    BY <1>1 DEF RunTask, Call
  <2> HIDE DEF c, v
  <2>4. LifeTypeOK'
    BY <2>1, <2>2
  <2>5. TypeOK'
    BY <2>1, <2>2, <2>3, <2>4
  <2>6. OneDeep' /\ InHand' /\ OnceConnected'
    BY <2>1, <2>2, <2>3
  <2>7. (\A d \in disconnected : ~alive[d] /\ \A t \in Threads : current[t] # d)'
    BY <2>1, <2>2, <2>3
  <2> QED
    BY <2>5, <2>6, <2>7
<1>2. CASE SkipTask
  <2>1. Tail(queue) \in Seq(Async \X Values)
    BY <1>2, Taken DEF SkipTask
  <2> QED
    BY <1>2, <2>1 DEF SkipTask, RefuseExecution
<1>3. CASE FinishTask
  <2> DEFINE c == current[Executor]
  <2>1. /\ c \in Connections
        /\ holder[c] = Executor
        /\ depth[c] = 1
        /\ holder' = [holder EXCEPT ![c] = NoThread]
        /\ depth' = [depth EXCEPT ![c] = 0]
        /\ alive' = alive
    BY <1>3, Left DEF FinishTask
  <2>2. /\ current' = [current EXCEPT ![Executor] = None]
        /\ pc[Executor] = "run"
        /\ pc' = [pc EXCEPT ![Executor] = "idle"]
        /\ UNCHANGED <<signalVars, local, arg, leaving, queue, histVars>>
    BY <1>3 DEF FinishTask
  <2>3. LifeTypeOK'
    BY <2>1
  <2>4. TypeOK'
    BY <2>1, <2>2, <2>3
  <2> QED
    BY <2>1, <2>2, <2>4
<1> QED
  BY <1>1, <1>2, <1>3

\* The invariant survives connection and both halves of a disconnection.
LEMMA ConnectionInv ==
  ASSUME IInv, NEW th \in Threads,
         \/ \E c \in Connections : Connect(th, c) \/ ConnectSilently(th, c)
         \/ \E c \in Connections : RemoveHandler(th, c)
         \/ ReleaseToken(th)
  PROVE  IInv'
<1> USE ThreadsAssumption, AsyncAssumption, ValuesAssumption, BoundAssumption,
        NoThreadAssumption
    DEF IInv, NothingCalledAfterDisconnect, TypeOK, LifeTypeOK, OneDeep, InHand,
        OnceConnected, Connections, lifeVars, signalVars, threadVars, histVars,
        Goto, CanLock
<1>1. ASSUME NEW c \in Connections, Connect(th, c) PROVE IInv'
  <2>1. /\ handlers' = Append(handlers, c)
        /\ connected' = connected \cup {c}
        /\ \/ c \in Async /\ queue' = Append(queue, <<c, value>>) /\ told' = told
           \/ queue' = queue /\ told' = [told EXCEPT ![c] = value]
        /\ UNCHANGED <<lifeVars, locking, value, mutex, threadVars,
                       disconnected, invocations>>
    BY <1>1 DEF Connect
  <2>2. /\ handlers' \in Seq(Connections)
        /\ \A i \in DOMAIN handlers' : handlers'[i] \in connected'
    <3>1. \A i \in DOMAIN handlers : handlers[i] \in connected
      OBVIOUS
    <3>2. handlers \in Seq(Connections)
      OBVIOUS
    <3> QED
      BY ONLY <3>1, <3>2, <2>1, c \in Connections, Appended
  <2>3. queue' \in Seq(Async \X Values)
    <3>1. CASE c \in Async /\ queue' = Append(queue, <<c, value>>)
      <4>1. <<c, value>> \in Async \X Values
        BY <3>1
      <4> QED
        BY <3>1, <4>1
    <3>2. CASE queue' = queue
      BY <3>2
    <3> QED
      BY <2>1, <3>1, <3>2
  <2>4. /\ told' \in [Connections -> Values \cup {NoValue}]
        /\ connected' \subseteq Connections /\ disconnected' \subseteq connected'
        /\ \A t \in Threads : leaving'[t] \in connected' \cup {None}
    <3>1. CASE told' = told
      BY <2>1, <3>1
    <3>2. CASE told' = [told EXCEPT ![c] = value]
      <4>1. value \in Values
        OBVIOUS
      <4> QED
        BY <2>1, <3>2, <4>1
    <3> QED
      BY <2>1, <3>1, <3>2
  <2> HIDE DEF Connections
  <2>5. TypeOK'
    BY <2>1, <2>2, <2>3, <2>4
  <2>6. OneDeep' /\ InHand' /\ OnceConnected'
    BY <2>1, <2>2, <2>4
  <2>7. \A d \in disconnected' : ~alive'[d] /\ \A t \in Threads : current'[t] # d
    BY <2>1
  <2> QED
    BY <2>5, <2>6, <2>7
<1>2. ASSUME NEW c \in Connections, RemoveHandler(th, c) PROVE IInv'
  <2>1. PICK i \in DOMAIN handlers :
            handlers[i] = c /\ handlers' = RemoveAt(handlers, i)
    BY <1>2 DEF RemoveHandler, Erase
  <2>2. /\ handlers' \in Seq(Connections)
        /\ \A j \in DOMAIN handlers' : handlers'[j] \in connected
    BY <2>1, Erased
  <2>3. c \in connected
    BY <2>1
  <2> QED
    BY <1>2, <2>2, <2>3 DEF RemoveHandler
<1>3. CASE ReleaseToken(th)
  <2> DEFINE c == leaving[th]
  <2>1. /\ c \in connected
        /\ CanLock(c, th)
        /\ alive' = [alive EXCEPT ![c] = FALSE]
        /\ leaving' = [leaving EXCEPT ![th] = None]
        /\ disconnected' = IF pc[th] = "run" THEN disconnected ELSE disconnected \cup {c}
        /\ UNCHANGED <<holder, depth, signalVars, pc, local, arg, current, queue,
                       told, connected, invocations>>
    BY <1>3 DEF ReleaseToken, Kill
  <2>2. pc[th] # "run" => \A t \in Threads : current[t] # c
    <3> SUFFICES ASSUME pc[th] # "run", NEW t \in Threads, current[t] = c PROVE FALSE
      OBVIOUS
    <3>1. c \in Connections
      BY <2>1
    <3>2. holder[c] = t
      BY <3>1
    <3>3. holder[c] # th
      BY <3>1
    <3> QED
      BY <2>1, <3>2, <3>3
  <2> HIDE DEF c
  <2> QED
    BY <2>1, <2>2
<1>4. ASSUME NEW c \in Connections, ConnectSilently(th, c) PROVE IInv'
  <2>1. /\ handlers' = Append(handlers, c)
        /\ connected' = connected \cup {c}
        /\ UNCHANGED <<lifeVars, locking, value, mutex, threadVars, queue, told,
                       disconnected, invocations>>
    BY <1>4 DEF ConnectSilently
  <2>2. /\ handlers' \in Seq(Connections)
        /\ \A i \in DOMAIN handlers' : handlers'[i] \in connected'
    <3>1. \A i \in DOMAIN handlers : handlers[i] \in connected
      OBVIOUS
    <3>2. handlers \in Seq(Connections)
      OBVIOUS
    <3> QED
      BY ONLY <3>1, <3>2, <2>1, c \in Connections, Appended
  <2> HIDE DEF Connections
  <2>3. TypeOK'
    BY <2>1, <2>2
  <2> QED
    BY <2>1, <2>2, <2>3
<1> QED
  BY <1>1, <1>2, <1>3, <1>4

\* ... is kept by every step ...
LEMMA NextInv == IInv /\ [Next]_vars => IInv'
<1> SUFFICES ASSUME IInv, [Next]_vars PROVE IInv'
  OBVIOUS
<1>1. ASSUME NEW th \in Users,
             \/ \E c \in Connections : Connect(th, c) \/ ConnectSilently(th, c)
             \/ \E v \in Values : Invoke(th, v)
             \/ CallSlot(th) \/ SkipSlot(th) \/ AddSlot(th)
             \/ ReturnFromSlot(th) \/ EndInvoke(th)
      PROVE  IInv'
  BY <1>1, InvocationInv, ConnectionInv, ThreadsAssumption
<1>2. ASSUME NEW th \in Threads,
             (\E c \in Connections : RemoveHandler(th, c)) \/ ReleaseToken(th)
      PROVE  IInv'
  BY <1>2, ConnectionInv
<1>3. CASE RunTask \/ SkipTask \/ FinishTask
  BY <1>3, ExecutorInv
<1>4. CASE UNCHANGED vars
  BY <1>4 DEF vars, lifeVars, signalVars, threadVars, histVars, IInv,
     NothingCalledAfterDisconnect, TypeOK, LifeTypeOK, OneDeep, InHand, OnceConnected
<1> QED
  BY <1>1, <1>2, <1>3, <1>4 DEF Next

\* ... and so always.
LEMMA Invariance == Spec => []IInv
<1> QED
  BY InitInv, NextInv, PTL DEF Spec

(***************************************************************************)
(* After a disconnection that a thread outside the slot has completed, the *)
(* slot is not being executed and never will be, by whichever of any number*)
(* of invocations that copied the handlers before and of tasks that wait in*)
(* the executor (signals.h:120-132, 219-229).                              *)
(***************************************************************************)
THEOREM NothingCalledAfterDisconnectAlways == Spec => []NothingCalledAfterDisconnect
<1>1. IInv => NothingCalledAfterDisconnect
  BY DEF IInv
<1> QED
  BY <1>1, Invariance, PTL
-----------------------------------------------------------------------------
(* Sequences without repetition *)

\* The first element of such a sequence is not in the rest of it.
LEMMA FirstTaken ==
  ASSUME NEW S, NEW s \in Seq(S), s # <<>>, IsInjective(s)
  PROVE  /\ Head(s) \in ToSet(s)
         /\ ToSet(Tail(s)) = ToSet(s) \ {Head(s)}
         /\ IsInjective(Tail(s))
<1>1. /\ Len(s) \in Nat /\ Len(s) > 0 /\ DOMAIN s = 1..Len(s) /\ Head(s) = s[1]
      /\ Len(Tail(s)) = Len(s) - 1 /\ DOMAIN Tail(s) = 1..(Len(s) - 1)
      /\ \A i \in 1..(Len(s) - 1) : Tail(s)[i] = s[i + 1]
  BY HeadTailProperties, LenProperties, EmptySeq
<1>2. Head(s) \in ToSet(s)
  BY <1>1 DEF ToSet
<1>3. ASSUME NEW e \in ToSet(Tail(s)) PROVE e \in ToSet(s) \ {Head(s)}
  <2>1. PICK i \in 1..(Len(s) - 1) : e = Tail(s)[i]
    BY <1>1 DEF ToSet
  <2>2. e = s[i + 1] /\ i + 1 \in DOMAIN s /\ 1 \in DOMAIN s /\ i + 1 # 1
    BY <1>1, <2>1
  <2> QED
    BY <1>1, <2>2 DEF ToSet, IsInjective
<1>4. ASSUME NEW e \in ToSet(s), e # Head(s) PROVE e \in ToSet(Tail(s))
  <2>1. PICK i \in DOMAIN s : e = s[i]
    BY DEF ToSet
  <2>2. i - 1 \in 1..(Len(s) - 1) /\ (i - 1) + 1 = i
    BY <1>1, <1>4, <2>1
  <2>3. Tail(s)[i - 1] = e
    BY <1>1, <2>1, <2>2
  <2> QED
    BY <1>1, <2>2, <2>3 DEF ToSet
<1>5. IsInjective(Tail(s))
  <2> SUFFICES ASSUME NEW i \in 1..(Len(s) - 1), NEW j \in 1..(Len(s) - 1),
                      Tail(s)[i] = Tail(s)[j]
               PROVE  i = j
    BY <1>1 DEF IsInjective
  <2>1. s[i + 1] = s[j + 1] /\ i + 1 \in DOMAIN s /\ j + 1 \in DOMAIN s
    BY <1>1
  <2>2. i + 1 = j + 1
    BY <2>1 DEF IsInjective
  <2> QED
    BY <2>2
<1> QED
  BY <1>2, <1>3, <1>4, <1>5

\* A new element makes such a sequence longer by itself.
LEMMA LastAdded ==
  ASSUME NEW S, NEW s \in Seq(S), NEW e \in S
  PROVE  /\ ToSet(Append(s, e)) = ToSet(s) \cup {e}
         /\ IsInjective(s) /\ e \notin ToSet(s) => IsInjective(Append(s, e))
<1> DEFINE t == Append(s, e)
<1>1. /\ Len(s) \in Nat /\ DOMAIN s = 1..Len(s) /\ DOMAIN t = 1..(Len(s) + 1)
      /\ t[Len(s) + 1] = e
      /\ \A i \in 1..Len(s) : t[i] = s[i]
  BY AppendProperties, LenProperties
<1> HIDE DEF t
<1>2. ASSUME NEW d \in ToSet(t) PROVE d \in ToSet(s) \cup {e}
  BY <1>1 DEF ToSet
<1>3. ASSUME NEW d \in ToSet(s) PROVE d \in ToSet(t)
  <2>1. PICK i \in DOMAIN s : d = s[i]
    BY DEF ToSet
  <2>2. i \in DOMAIN t /\ t[i] = d
    BY <1>1, <2>1
  <2> QED
    BY <2>2 DEF ToSet
<1>4. e \in ToSet(t)
  BY <1>1 DEF ToSet
<1>5. ASSUME IsInjective(s), e \notin ToSet(s),
             NEW i \in DOMAIN t, NEW j \in DOMAIN t, t[i] = t[j]
      PROVE  i = j
  <2>1. CASE i \in DOMAIN s /\ j \in DOMAIN s
    BY <1>1, <1>5, <2>1 DEF IsInjective
  <2>2. CASE i \notin DOMAIN s /\ j \notin DOMAIN s
    BY <1>1, <2>2
  <2>3. CASE i \in DOMAIN s /\ j \notin DOMAIN s
    BY <1>1, <1>5, <2>3 DEF ToSet
  <2>4. CASE i \notin DOMAIN s /\ j \in DOMAIN s
    <3>1. j = Len(s) + 1 \/ t[j] = s[j]
      BY <1>1
    <3>2. i = Len(s) + 1 /\ t[i] = e
      BY <1>1, <2>4
    <3> QED
      BY <1>1, <1>5, <2>4, <3>2 DEF ToSet
  <2> QED
    BY <2>1, <2>2, <2>3, <2>4
<1>6. IsInjective(s) /\ e \notin ToSet(s) => IsInjective(t)
  BY <1>5 DEF IsInjective
<1>7. ToSet(t) = ToSet(s) \cup {e}
  BY <1>2, <1>3, <1>4
<1> QED
  BY <1>6, <1>7 DEF t

\* Erasing an entry of such a sequence takes its element away.
LEMMA OneErased ==
  ASSUME NEW S, NEW s \in Seq(S), NEW i \in DOMAIN s, IsInjective(s)
  PROVE  /\ ToSet(RemoveAt(s, i)) = ToSet(s) \ {s[i]}
         /\ IsInjective(RemoveAt(s, i))
<1> DEFINE t == RemoveAt(s, i)
           At(j) == IF j < i THEN j ELSE j + 1
<1>1. Len(s) \in Nat /\ DOMAIN s = 1..Len(s) /\ i \in 1..Len(s)
  OBVIOUS
<1>2. /\ DOMAIN t = 1..(Len(s) - 1)
      /\ \A j \in 1..(Len(s) - 1) : t[j] = s[At(j)]
  <2> DEFINE front == SubSeq(s, 1, i - 1)
             back == SubSeq(s, i + 1, Len(s))
  <2>1. /\ front \in Seq(S) /\ Len(front) = i - 1
        /\ \A j \in 1..(i - 1) : front[j] = s[j]
    BY <1>1
  <2>2. /\ back \in Seq(S) /\ Len(back) = Len(s) - i
        /\ \A j \in 1..(Len(s) - i) : back[j] = s[i + j]
    BY <1>1
  <2>3. t = front \o back
    BY DEF RemoveAt
  <2> HIDE DEF front, back, t
  <2>4. DOMAIN (front \o back) = 1..(Len(s) - 1)
    <3>1. front \o back \in Seq(S) /\ Len(front \o back) = Len(front) + Len(back)
      BY ONLY <2>1, <2>2, ConcatProperties
    <3>2. Len(front) + Len(back) = Len(s) - 1
      BY <1>1, <2>1, <2>2
    <3> QED
      BY <3>1, <3>2, LenProperties
  <2>5. ASSUME NEW j \in 1..(Len(s) - 1) PROVE (front \o back)[j] = s[At(j)]
    <3>1. CASE j < i
      <4>1. (front \o back)[j] = s[j]
        BY <1>1, <2>1, <2>2, <3>1
      <4> QED
        BY <3>1, <4>1
    <3>2. CASE ~(j < i)
      <4>1. (front \o back)[j] = back[j - (i - 1)]
        BY <1>1, <2>1, <2>2, <3>2
      <4>2. j - (i - 1) \in 1..(Len(s) - i) /\ i + (j - (i - 1)) = j + 1
        BY <1>1, <3>2
      <4>3. back[j - (i - 1)] = s[j + 1]
        BY <2>2, <4>2
      <4> QED
        BY <3>2, <4>1, <4>3
    <3> QED
      BY <3>1, <3>2
  <2> QED
    BY <2>3, <2>4, <2>5
<1> HIDE DEF t
<1>3. ASSUME NEW e \in ToSet(t) PROVE e \in ToSet(s) \ {s[i]}
  <2>1. PICK j \in 1..(Len(s) - 1) : e = t[j]
    BY <1>2 DEF ToSet
  <2>2. e = s[At(j)] /\ At(j) \in DOMAIN s /\ At(j) # i
    BY <1>1, <1>2, <2>1
  <2> QED
    BY <2>2 DEF ToSet, IsInjective
<1>4. ASSUME NEW e \in ToSet(s), e # s[i] PROVE e \in ToSet(t)
  <2>1. PICK k \in DOMAIN s : e = s[k]
    BY DEF ToSet
  <2> DEFINE j == IF k < i THEN k ELSE k - 1
  <2>2. j \in 1..(Len(s) - 1) /\ At(j) = k
    BY <1>1, <1>4, <2>1
  <2>3. t[j] = e
    BY <1>2, <2>1, <2>2
  <2> HIDE DEF j
  <2> QED
    BY <1>2, <2>2, <2>3 DEF ToSet
<1>5. ASSUME NEW j \in DOMAIN t, NEW k \in DOMAIN t, t[j] = t[k] PROVE j = k
  <2>1. At(j) \in DOMAIN s /\ At(k) \in DOMAIN s /\ s[At(j)] = s[At(k)]
    BY <1>1, <1>2, <1>5
  <2>2. At(j) = At(k)
    BY <2>1 DEF IsInjective
  <2> QED
    BY <1>1, <1>2, <2>2
<1>6. IsInjective(t)
  BY <1>5 DEF IsInjective
<1>7. ToSet(t) = ToSet(s) \ {s[i]}
  BY <1>3, <1>4
<1> QED
  BY <1>6, <1>7 DEF t
-----------------------------------------------------------------------------
(* Ranks: which of the tasks of a connection a task is *)

\* Every set of numbers that is not empty has a least one.
LEMMA Least ==
  ASSUME NEW T \in SUBSET Nat, T # {}
  PROVE  \E x \in T : \A y \in T : x <= y
<1>1. PICK x \in T : \A y \in T : <<y, x>> \notin OpToRel(<, Nat)
  BY WFMin, NatLessThanWellFounded
<1>2. ASSUME NEW y \in T PROVE x <= y
  <2>1. ~(y < x)
    BY <1>1 DEF OpToRel
  <2> QED
    BY <2>1
<1> QED
  BY <1>2

\* A set with 0 and with the successor of each of its numbers has them all.
LEMMA AllNumbers ==
  ASSUME NEW S, 0 \in S, \A n \in Nat : n \in S => n + 1 \in S
  PROVE  Nat \subseteq S
<1> DEFINE T == {n \in Nat : n \notin S}
<1> SUFFICES ASSUME T # {} PROVE FALSE
  OBVIOUS
<1>1. T \in SUBSET Nat
  OBVIOUS
<1>2. PICK x \in T : \A y \in T : x <= y
  BY <1>1, Least
<1>3. x - 1 \in Nat /\ (x - 1) + 1 = x
  OBVIOUS
<1>4. x - 1 \in S
  BY <1>2, <1>3
<1> QED
  BY <1>3, <1>4

\* The connection and the argument of a task.
SlotAt(tasks, i) == tasks[i][1]
ArgAt(tasks, i) == tasks[i][2]

\* A rank is a number that grows by one with each task of the connection.
LEMMA RankSteps ==
  ASSUME NEW q, NEW c, NEW i \in Nat
  PROVE  /\ Rank(q, c, 0) = 0
         /\ Rank(q, c, i) \in Nat
         /\ Rank(q, c, i + 1) = IF SlotAt(q, i + 1) = c THEN Rank(q, c, i) + 1
                                ELSE Rank(q, c, i)
<1> DEFINE T(n) == {j \in 1..n : SlotAt(q, j) = c}
<1>1. Rank(q, c, 0) = 0
  <2>1. T(0) = {}
    OBVIOUS
  <2> QED
    BY <2>1, FS_EmptySet DEF Rank, SlotAt
<1>2. IsFiniteSet(T(i)) /\ Cardinality(T(i)) \in Nat
  <2>1. IsFiniteSet(1..i)
    BY FS_Interval
  <2>2. T(i) \in SUBSET (1..i)
    OBVIOUS
  <2> QED
    BY <2>1, <2>2, FS_Subset, FS_CardinalityType
<1>3. CASE SlotAt(q, i + 1) = c
  <2>1. T(i + 1) = T(i) \cup {i + 1} /\ i + 1 \notin T(i)
    BY <1>3
  <2>2. Cardinality(T(i + 1)) = Cardinality(T(i)) + 1
    BY <1>2, <2>1, FS_AddElement
  <2> QED
    BY <1>1, <1>2, <1>3, <2>2 DEF Rank, SlotAt
<1>4. CASE SlotAt(q, i + 1) # c
  <2>1. T(i + 1) = T(i)
    BY <1>4
  <2> QED
    BY <1>1, <1>2, <1>4, <2>1 DEF Rank, SlotAt
<1> QED
  BY <1>3, <1>4

\* Ranks do not fall, and two tasks of a connection differ in rank.
LEMMA RankGrows ==
  ASSUME NEW s, NEW c, NEW i \in Nat, NEW k \in Nat, i < k
  PROVE  /\ Rank(s, c, i) <= Rank(s, c, k)
         /\ SlotAt(s, k) = c => Rank(s, c, i) < Rank(s, c, k)
<1>1. \A m, n \in Nat : m <= n => Rank(s, c, m) <= Rank(s, c, n)
  <2> TAKE m, n \in Nat
  <2> HAVE m <= n
  <2>1. IsFiniteSet({j \in 1..n : SlotAt(s, j) = c})
    <3>1. IsFiniteSet(1..n)
      BY FS_Interval
    <3>2. {j \in 1..n : SlotAt(s, j) = c} \in SUBSET (1..n)
      OBVIOUS
    <3> QED
      BY <3>1, <3>2, FS_Subset
  <2>2. {j \in 1..m : SlotAt(s, j) = c} \in SUBSET {j \in 1..n : SlotAt(s, j) = c}
    OBVIOUS
  <2> QED
    BY <2>1, <2>2, FS_Subset DEF Rank, SlotAt
<1>2. k - 1 \in Nat /\ (k - 1) + 1 = k /\ i <= k - 1
  OBVIOUS
<1>3. SlotAt(s, k) = c => Rank(s, c, k) = Rank(s, c, k - 1) + 1
  BY <1>2, RankSteps
<1>4. Rank(s, c, i) <= Rank(s, c, k - 1) /\ Rank(s, c, i) <= Rank(s, c, k)
  BY <1>1, <1>2
<1>5. Rank(s, c, i) \in Nat /\ Rank(s, c, k - 1) \in Nat
  BY <1>2, RankSteps
<1> QED
  BY <1>3, <1>4, <1>5

\* Each rank up to the last is that of a task.
LEMMA RankReached ==
  ASSUME NEW s, NEW c, NEW n \in Nat, NEW k \in 1..Rank(s, c, n)
  PROVE  \E i \in 1..n : SlotAt(s, i) = c /\ Rank(s, c, i) = k
<1> DEFINE T == {i \in Nat : k <= Rank(s, c, i)}
<1>1. \A i \in Nat : Rank(s, c, i) \in Nat
  BY RankSteps
<1>2. T \in SUBSET Nat /\ n \in T
  BY <1>1
<1>3. PICK x \in T : \A y \in T : x <= y
  BY <1>2, Least
<1>4. x # 0
  BY RankSteps
<1>5. x - 1 \in Nat /\ (x - 1) + 1 = x
  BY <1>4
<1>6. Rank(s, c, x - 1) < k
  <2>1. x - 1 \notin T
    BY <1>3, <1>5
  <2> QED
    BY <1>1, <1>5, <2>1
<1>7. Rank(s, c, x) = IF SlotAt(s, x) = c THEN Rank(s, c, x - 1) + 1 ELSE Rank(s, c, x - 1)
  BY <1>5, RankSteps
<1>8. SlotAt(s, x) = c /\ Rank(s, c, x) = k
  BY <1>1, <1>5, <1>6, <1>7
<1>9. x \in 1..n
  BY <1>2, <1>3, <1>4
<1> QED
  BY <1>8, <1>9

\* The argument of a task is at its rank among those of its connection.
LEMMA ArgumentAt ==
  ASSUME NEW S, NEW V, \A e \in S : e[2] \in V, NEW q, q \in Seq(S), NEW c
  PROVE  /\ ArgumentsFor(q, c) \in Seq(V)
         /\ Len(ArgumentsFor(q, c)) = Rank(q, c, Len(q))
         /\ \A i \in DOMAIN q : SlotAt(q, i) = c =>
                /\ Rank(q, c, i) \in 1..Rank(q, c, Len(q))
                /\ ArgumentsFor(q, c)[Rank(q, c, i)] = ArgAt(q, i)
<1> DEFINE N == Rank(q, c, Len(q))
           At(k) == CHOOSE i \in DOMAIN q : SlotAt(q, i) = c /\ Rank(q, c, i) = k
<1>1. Len(q) \in Nat /\ DOMAIN q = 1..Len(q) /\ N \in Nat
  BY RankSteps
<1>2. ASSUME NEW k \in 1..N
      PROVE  /\ At(k) \in DOMAIN q
             /\ SlotAt(q, At(k)) = c
             /\ Rank(q, c, At(k)) = k
  <2>1. \E i \in 1..Len(q) : SlotAt(q, i) = c /\ Rank(q, c, i) = k
    BY <1>1, RankReached
  <2> QED
    BY <1>1, <2>1
<1>3. ASSUME NEW k \in 1..N PROVE ArgAt(q, At(k)) \in V
  <2>1. q[At(k)] \in S
    BY <1>2
  <2> QED
    BY <2>1 DEF ArgAt
<1> HIDE DEF At
<1>4. ArgumentsFor(q, c) = [k \in 1..N |-> ArgAt(q, At(k))]
  BY DEF ArgumentsFor, At, SlotAt, ArgAt
<1>5. ArgumentsFor(q, c) \in Seq(V) /\ Len(ArgumentsFor(q, c)) = N
  BY <1>1, <1>3, <1>4
<1>6. ASSUME NEW i \in DOMAIN q, SlotAt(q, i) = c
      PROVE  /\ Rank(q, c, i) \in 1..N
             /\ ArgumentsFor(q, c)[Rank(q, c, i)] = ArgAt(q, i)
  <2>1. i \in Nat /\ 0 < i /\ i <= Len(q)
    BY <1>1
  <2>2. Rank(q, c, i) \in 1..N
    <3>1. 0 < Rank(q, c, i)
      <4>1. Rank(q, c, 0) < Rank(q, c, i)
        BY <2>1, <1>6, RankGrows
      <4> QED
        BY <4>1, RankSteps
    <3>2. Rank(q, c, i) <= N
      <4>1. i < Len(q) => Rank(q, c, i) <= N
        BY <1>1, <2>1, RankGrows
      <4>2. i = Len(q) => Rank(q, c, i) <= N
        BY <1>1
      <4> QED
        BY <1>1, <2>1, <4>1, <4>2
    <3> QED
      BY <1>1, <2>1, <3>1, <3>2, RankSteps
  <2>3. At(Rank(q, c, i)) = i
    <3> DEFINE j == At(Rank(q, c, i))
    <3>1. j \in DOMAIN q /\ SlotAt(q, j) = c /\ Rank(q, c, j) = Rank(q, c, i)
      BY <1>2, <2>2
    <3>2. j \in Nat /\ Rank(q, c, i) \in Nat
      BY <1>1, <2>1, <3>1, RankSteps
    <3> HIDE DEF j
    <3>3. ~(i < j) /\ ~(j < i)
      <4>1. i < j => Rank(q, c, i) < Rank(q, c, j)
        BY <2>1, <3>1, <3>2, RankGrows
      <4>2. j < i => Rank(q, c, j) < Rank(q, c, i)
        BY <1>6, <2>1, <3>2, RankGrows
      <4> QED
        BY <3>1, <3>2, <4>1, <4>2
    <3>4. i = j
      BY <2>1, <3>2, <3>3
    <3> QED
      BY <3>4 DEF j
  <2> QED
    BY <1>4, <2>2, <2>3
<1> QED
  BY <1>5, <1>6

\* A new task of the connection adds its argument at the end; one of another
\* connection changes nothing.
LEMMA ArgumentAppended ==
  ASSUME NEW S, NEW s, s \in Seq(S), NEW c, NEW task \in S
  PROVE  ArgumentsFor(Append(s, task), c) =
             IF task[1] = c THEN Append(ArgumentsFor(s, c), task[2])
             ELSE ArgumentsFor(s, c)
<1> DEFINE N == Len(s)
<1>1. PICK t : t \in Seq(S) /\ t = Append(s, task)
  BY AppendProperties
<1>2. PICK V : V = {e[2] : e \in S}
  OBVIOUS
<1>3. \A e \in S : e[2] \in V
  BY <1>2
<1>4. /\ N \in Nat /\ DOMAIN s = 1..N
      /\ Len(t) = N + 1 /\ DOMAIN t = 1..(N + 1)
      /\ t[N + 1] = task
      /\ \A i \in 1..N : t[i] = s[i]
  BY <1>1, AppendProperties, LenProperties
<1>5. /\ SlotAt(t, N + 1) = task[1] /\ ArgAt(t, N + 1) = task[2]
      /\ \A i \in 1..N : SlotAt(t, i) = SlotAt(s, i) /\ ArgAt(t, i) = ArgAt(s, i)
  BY <1>4 DEF SlotAt, ArgAt
<1>6. \A i \in 0..N : Rank(t, c, i) = Rank(s, c, i)
  <2> TAKE i \in 0..N
  <2>1. {j \in 1..i : SlotAt(t, j) = c} = {j \in 1..i : SlotAt(s, j) = c}
    BY <1>4, <1>5
  <2> QED
    BY <2>1 DEF Rank, SlotAt
<1>7. Rank(t, c, N + 1) = IF task[1] = c THEN Rank(s, c, N) + 1 ELSE Rank(s, c, N)
  <2>1. Rank(t, c, N + 1) = IF SlotAt(t, N + 1) = c THEN Rank(t, c, N) + 1 ELSE Rank(t, c, N)
    <3>1. \A i \in Nat : Rank(t, c, i + 1) =
              IF SlotAt(t, i + 1) = c THEN Rank(t, c, i) + 1 ELSE Rank(t, c, i)
      BY ONLY RankSteps
    <3> QED
      BY <1>4, <3>1
  <2>2. Rank(t, c, N) = Rank(s, c, N)
    BY <1>4, <1>6
  <2> QED
    BY <1>5, <2>1, <2>2
<1>8. /\ ArgumentsFor(s, c) \in Seq(V)
      /\ Len(ArgumentsFor(s, c)) = Rank(s, c, N)
      /\ \A i \in DOMAIN s : SlotAt(s, i) = c =>
             ArgumentsFor(s, c)[Rank(s, c, i)] = ArgAt(s, i)
  BY ONLY s \in Seq(S), <1>3, ArgumentAt
<1>9. /\ ArgumentsFor(t, c) \in Seq(V)
      /\ Len(ArgumentsFor(t, c)) = Rank(t, c, N + 1)
      /\ \A i \in DOMAIN t : SlotAt(t, i) = c =>
             ArgumentsFor(t, c)[Rank(t, c, i)] = ArgAt(t, i)
  <2>1. /\ ArgumentsFor(t, c) \in Seq(V)
        /\ Len(ArgumentsFor(t, c)) = Rank(t, c, Len(t))
        /\ \A i \in DOMAIN t : SlotAt(t, i) = c =>
               ArgumentsFor(t, c)[Rank(t, c, i)] = ArgAt(t, i)
    <3>1. t \in Seq(S)
      BY <1>1
    <3> QED
      BY ONLY <3>1, <1>3, ArgumentAt
  <2> QED
    BY <1>4, <2>1
<1>10. ASSUME NEW k \in 1..Rank(s, c, N)
      PROVE  ArgumentsFor(t, c)[k] = ArgumentsFor(s, c)[k]
  <2>1. PICK i \in 1..N : SlotAt(s, i) = c /\ Rank(s, c, i) = k
    BY <1>4, RankReached
  <2>2. /\ SlotAt(t, i) = c /\ ArgAt(t, i) = ArgAt(s, i) /\ Rank(t, c, i) = k
        /\ i \in DOMAIN t /\ i \in DOMAIN s
    BY <1>4, <1>5, <1>6, <2>1
  <2>3. ArgumentsFor(t, c)[k] = ArgAt(t, i)
    BY <1>9, <2>2
  <2>4. ArgumentsFor(s, c)[k] = ArgAt(s, i)
    BY <1>8, <2>1, <2>2
  <2> QED
    BY <2>2, <2>3, <2>4
<1>11. Rank(s, c, N) \in Nat
  BY <1>4, RankSteps
<1>12. CASE task[1] = c
  <2>1. ArgumentsFor(t, c)[Rank(s, c, N) + 1] = task[2]
    <3>1. N + 1 \in DOMAIN t /\ SlotAt(t, N + 1) = c
      BY <1>4, <1>5, <1>12
    <3>2. ArgumentsFor(t, c)[Rank(t, c, N + 1)] = ArgAt(t, N + 1)
      BY <1>9, <3>1
    <3> QED
      BY <1>5, <1>7, <1>12, <3>2
  <2>2. Len(ArgumentsFor(t, c)) = Rank(s, c, N) + 1
    BY <1>7, <1>9, <1>12
  <2> DEFINE old == ArgumentsFor(s, c)
             new == ArgumentsFor(t, c)
             more == Append(old, task[2])
  <2>3. /\ more \in Seq(V) /\ Len(more) = Rank(s, c, N) + 1
        /\ \A k \in 1..Rank(s, c, N) : more[k] = old[k]
        /\ more[Rank(s, c, N) + 1] = task[2]
    BY <1>3, <1>8, <1>11, AppendProperties
  <2>4. \A k \in 1..Len(new) : new[k] = more[k]
    BY <1>10, <1>11, <2>1, <2>2, <2>3
  <2>5. new = more
    BY <1>9, <2>2, <2>3, <2>4, SeqEqual
  <2> QED
    BY <1>1, <1>12, <2>5
<1>13. CASE task[1] # c
  <2>1. ArgumentsFor(t, c) = ArgumentsFor(s, c)
    BY <1>7, <1>8, <1>9, <1>10, <1>13, SeqEqual
  <2> QED
    BY <1>1, <1>13, <2>1
<1> QED
  BY <1>12, <1>13

\* Without its first task what is left of the connection's arguments is the
\* tail, if the task was of the connection, and otherwise everything.
LEMMA ArgumentTaken ==
  ASSUME NEW S, NEW s, s \in Seq(S), s # <<>>, NEW c
  PROVE  IF SlotAt(s, 1) = c
         THEN /\ ArgumentsFor(s, c) # <<>>
              /\ Head(ArgumentsFor(s, c)) = ArgAt(s, 1)
              /\ ArgumentsFor(Tail(s), c) = Tail(ArgumentsFor(s, c))
         ELSE ArgumentsFor(Tail(s), c) = ArgumentsFor(s, c)
<1>1. PICK t : t \in Seq(S) /\ t = Tail(s)
  BY HeadTailProperties
<1> DEFINE N == Len(s)
           first == IF SlotAt(s, 1) = c THEN 1 ELSE 0
<1>2. PICK V : V = {e[2] : e \in S}
  OBVIOUS
<1>3. \A e \in S : e[2] \in V
  BY <1>2
<1>4. /\ N \in Nat /\ N > 0 /\ DOMAIN s = 1..N
      /\ Len(t) = N - 1 /\ DOMAIN t = 1..(N - 1)
      /\ \A i \in 1..(N - 1) : t[i] = s[i + 1]
  BY <1>1, HeadTailProperties, LenProperties, EmptySeq
<1>5. \A i \in 1..(N - 1) : /\ SlotAt(t, i) = SlotAt(s, i + 1)
                           /\ ArgAt(t, i) = ArgAt(s, i + 1)
  BY <1>4 DEF SlotAt, ArgAt
<1>6. \A i \in Nat : i <= N - 1 => Rank(s, c, i + 1) = Rank(t, c, i) + first
  <2> DEFINE P == {i \in Nat : i <= N - 1 => Rank(s, c, i + 1) = Rank(t, c, i) + first}
  <2>1. 0 \in P
    <3>1. Rank(s, c, 0 + 1) = first
      BY RankSteps
    <3>2. Rank(t, c, 0) = 0
      BY RankSteps
    <3> QED
      BY <3>1, <3>2
  <2>2. ASSUME NEW n \in Nat, n \in P PROVE n + 1 \in P
    <3> SUFFICES ASSUME n + 1 <= N - 1
                 PROVE  Rank(s, c, (n + 1) + 1) = Rank(t, c, n + 1) + first
      OBVIOUS
    <3>1. SlotAt(t, n + 1) = SlotAt(s, (n + 1) + 1)
      BY <1>4, <1>5
    <3>2. Rank(s, c, n + 1) = Rank(t, c, n) + first
      BY <1>4, <2>2
    <3>3. Rank(t, c, n) \in Nat
      BY RankSteps
    <3>4. Rank(t, c, n + 1) = IF SlotAt(t, n + 1) = c THEN Rank(t, c, n) + 1 ELSE Rank(t, c, n)
      BY ONLY n \in Nat, RankSteps
    <3>5. Rank(s, c, (n + 1) + 1) =
              IF SlotAt(s, (n + 1) + 1) = c THEN Rank(s, c, n + 1) + 1 ELSE Rank(s, c, n + 1)
      <4>1. n + 1 \in Nat
        OBVIOUS
      <4> QED
        BY ONLY <4>1, RankSteps
    <3> QED
      BY <3>1, <3>2, <3>3, <3>4, <3>5
  <2> HIDE DEF P
  <2>3. Nat \subseteq P
    BY <2>1, <2>2, AllNumbers
  <2> QED
    BY <2>3 DEF P
<1>7. /\ ArgumentsFor(s, c) \in Seq(V)
      /\ Len(ArgumentsFor(s, c)) = Rank(s, c, N)
      /\ \A i \in DOMAIN s : SlotAt(s, i) = c =>
             ArgumentsFor(s, c)[Rank(s, c, i)] = ArgAt(s, i)
  BY ONLY s \in Seq(S), <1>3, ArgumentAt
<1>8. /\ ArgumentsFor(t, c) \in Seq(V)
      /\ Len(ArgumentsFor(t, c)) = Rank(t, c, N - 1)
      /\ \A i \in DOMAIN t : SlotAt(t, i) = c =>
             ArgumentsFor(t, c)[Rank(t, c, i)] = ArgAt(t, i)
  <2>1. /\ ArgumentsFor(t, c) \in Seq(V)
        /\ Len(ArgumentsFor(t, c)) = Rank(t, c, Len(t))
        /\ \A i \in DOMAIN t : SlotAt(t, i) = c =>
               ArgumentsFor(t, c)[Rank(t, c, i)] = ArgAt(t, i)
    <3>1. t \in Seq(S)
      BY <1>1
    <3> QED
      BY ONLY <3>1, <1>3, ArgumentAt
  <2> QED
    BY <1>4, <2>1
<1>9. N - 1 \in Nat /\ Rank(t, c, N - 1) \in Nat /\ Rank(s, c, N) = Rank(t, c, N - 1) + first
  <2>1. N - 1 \in Nat /\ (N - 1) + 1 = N
    BY <1>4
  <2> QED
    <3>1. Rank(s, c, (N - 1) + 1) = Rank(t, c, N - 1) + first
      BY <1>6, <2>1
    <3>2. Rank(t, c, N - 1) \in Nat
      BY <2>1, RankSteps
    <3> QED
      BY <2>1, <3>1, <3>2
<1>10. ASSUME NEW k \in 1..Rank(t, c, N - 1)
      PROVE  ArgumentsFor(t, c)[k] = ArgumentsFor(s, c)[k + first]
  <2>1. PICK i \in 1..(N - 1) : SlotAt(t, i) = c /\ Rank(t, c, i) = k
    BY <1>9, RankReached
  <2>2. /\ SlotAt(s, i + 1) = c /\ ArgAt(t, i) = ArgAt(s, i + 1)
        /\ i \in DOMAIN t /\ i + 1 \in DOMAIN s
        /\ Rank(s, c, i + 1) = k + first
    BY <1>4, <1>6, <1>5, <2>1
  <2>3. ArgumentsFor(t, c)[k] = ArgAt(t, i)
    BY <1>8, <2>1, <2>2
  <2>4. ArgumentsFor(s, c)[k + first] = ArgAt(s, i + 1)
    BY <1>7, <2>1, <2>2
  <2> QED
    BY <2>2, <2>3, <2>4
<1>11. CASE SlotAt(s, 1) = c
  <2> DEFINE old == ArgumentsFor(s, c)
             new == ArgumentsFor(t, c)
  <2>1. Rank(s, c, 1) = 1
    <3>1. Rank(s, c, 0 + 1) = Rank(s, c, 0) + 1 /\ Rank(s, c, 0) = 0
      BY <1>11, RankSteps
    <3> QED
      BY <3>1
  <2>2. 1 \in DOMAIN s
    BY <1>4
  <2>3. old[1] = ArgAt(s, 1)
    BY <1>7, <1>11, <2>1, <2>2
  <2>4. old \in Seq(V) /\ new \in Seq(V) /\ Len(old) = Len(new) + 1 /\ Len(new) \in Nat
    BY <1>7, <1>8, <1>9, <1>11
  <2>5. \A k \in 1..Len(new) : new[k] = old[k + 1]
    BY <1>8, <1>10, <1>11
  <2> HIDE DEF old, new
  <2>6. old # <<>>
    BY <2>4
  <2>7. /\ Head(old) = old[1] /\ Tail(old) \in Seq(V) /\ Len(Tail(old)) = Len(old) - 1
        /\ \A k \in 1..Len(Tail(old)) : Tail(old)[k] = old[k + 1]
    BY <2>4, <2>6, HeadTailProperties
  <2>8. new = Tail(old)
    BY <2>4, <2>5, <2>7, SeqEqual
  <2> QED
    BY <1>1, <1>11, <2>3, <2>6, <2>7, <2>8 DEF old, new
<1>12. CASE SlotAt(s, 1) # c
  <2>1. \A k \in 1..Rank(t, c, N - 1) : k + first = k
    BY <1>9, <1>12
  <2>2. ArgumentsFor(t, c) = ArgumentsFor(s, c)
    BY <1>7, <1>8, <1>9, <1>10, <1>12, <2>1, SeqEqual
  <2> QED
    BY <1>1, <1>12, <2>2
<1> QED
  BY <1>11, <1>12
-----------------------------------------------------------------------------
(* Who is called with what *)

\* A handler occurs once, its token is alive and nobody is releasing it.
Attached ==
    /\ IsInjective(handlers)
    /\ \A c \in ToSet(handlers) : alive[c] /\ \A th \in Threads : leaving[th] # c

\* Only invocations have handlers to call, each once, and those that lock have
\* the mutex as long as they last.
Copies ==
    /\ \A th \in Threads :
        /\ IsInjective(local[th])
        /\ ToSet(local[th]) \subseteq connected
        /\ local[th] # <<>> => th \in Users /\ pc[th] # "idle"
    /\ locking => \A th \in Users : pc[th] # "idle" => mutex = th

\* Nothing has happened to a connection that has not been made.
Strangers ==
    /\ \A i \in DOMAIN queue : queue[i][1] \in connected
    /\ \A c \in Connections \ connected : alive[c] /\ told[c] = NoValue

CallInv ==
    /\ IInv
    /\ Attached
    /\ Copies
    /\ Strangers

\* At the start nothing is connected ...
LEMMA InitCallInv == Init => CallInv
<1> SUFFICES ASSUME Init PROVE CallInv
  OBVIOUS
<1>1. IInv
  BY InitInv
<1>2. handlers = <<>> /\ queue = <<>> /\ \A th \in Threads : local[th] = <<>>
  BY DEF Init
<1>3. IsInjective(<<>>) /\ ToSet(<<>>) = {}
  BY DEF IsInjective, ToSet
<1>4. \A th \in Users : pc[th] = "idle"
  BY ThreadsAssumption DEF Init
<1>5. \A c \in Connections : alive[c] /\ told[c] = NoValue
  BY DEF Init, LifeInit, Connections
<1> QED
  BY <1>1, <1>2, <1>3, <1>4, <1>5 DEF CallInv, Attached, Copies, Strangers

\* ... an invocation copies the handlers and takes one after the other ...
LEMMA InvocationCallInv ==
  ASSUME CallInv, NEW th \in Users,
         \/ \E v \in Values : Invoke(th, v)
         \/ CallSlot(th) \/ SkipSlot(th) \/ AddSlot(th)
         \/ ReturnFromSlot(th) \/ EndInvoke(th)
  PROVE  Attached' /\ Copies' /\ Strangers'
<1>0. /\ th \in Threads /\ th # NoThread /\ th # Executor
      /\ handlers \in Seq(Connections)
      /\ local \in [Threads -> Seq(Connections)]
      /\ pc \in [Threads -> {"idle", "invoke", "run"}]
      /\ queue \in Seq(Async \X Values)
      /\ ToSet(handlers) \subseteq connected
  BY ThreadsAssumption, NoThreadAssumption
     DEF CallInv, IInv, NothingCalledAfterDisconnect, TypeOK, OnceConnected, ToSet
<1>1. ASSUME NEW v \in Values, Invoke(th, v) PROVE Attached' /\ Copies' /\ Strangers'
  <2>1. Attached' /\ Strangers'
    BY <1>1 DEF Invoke, CallInv, Attached, Strangers, lifeVars
  <2>2. locking => \A t \in Users : pc[t] = "idle"
    BY <1>1, ThreadsAssumption, NoThreadAssumption DEF Invoke, CallInv, Copies
  <2>3. /\ local' = [local EXCEPT ![th] = handlers]
        /\ pc' = [pc EXCEPT ![th] = "invoke"]
        /\ mutex' = IF locking THEN th ELSE NoThread
        /\ locking' = locking /\ connected' = connected
    BY <1>1 DEF Invoke, Goto
  <2>4. Copies'
    BY <1>0, <2>2, <2>3, ThreadsAssumption DEF CallInv, Attached, Copies
  <2> QED
    BY <2>1, <2>4
<1>2. ASSUME local[th] # <<>>, local' = [local EXCEPT ![th] = Tail(@)],
             pc' = pc \/ pc' = [pc EXCEPT ![th] = "run"],
             pc[th] = "invoke",
             UNCHANGED <<mutex, locking, connected>>
      PROVE  Copies'
  <2>1. /\ IsInjective(Tail(local[th]))
        /\ ToSet(Tail(local[th])) \subseteq ToSet(local[th])
    BY <1>0, <1>2, FirstTaken DEF CallInv, Copies
  <2>2. local'[th] = Tail(local[th]) /\ \A t \in Threads \ {th} : local'[t] = local[t]
    BY <1>0, <1>2
  <2>3. pc'[th] # "idle" /\ \A t \in Threads \ {th} : pc'[t] = pc[t]
    BY <1>0, <1>2
  <2>4. \A t \in Threads :
            /\ IsInjective(local'[t])
            /\ ToSet(local'[t]) \subseteq connected
            /\ local'[t] # <<>> => t \in Users /\ pc'[t] # "idle"
    <3> TAKE t \in Threads
    <3>1. CASE t = th
      BY <2>1, <2>2, <2>3, <3>1 DEF CallInv, Copies
    <3>2. CASE t # th
      BY <2>2, <2>3, <3>2 DEF CallInv, Copies
    <3> QED
      BY <3>1, <3>2
  <2>5. locking => \A t \in Users : pc'[t] # "idle" => mutex = t
    <3>1. locking => mutex = th
      BY <1>2 DEF CallInv, Copies
    <3>2. \A t \in Users \ {th} : pc'[t] = pc[t]
      BY <2>3, ThreadsAssumption
    <3> QED
      BY <3>1, <3>2 DEF CallInv, Copies
  <2> QED
    BY <1>2, <2>4, <2>5 DEF Copies
<1>3. ASSUME local[th] # <<>> PROVE Head(local[th]) \in connected
  BY <1>0, <1>3, FirstTaken DEF CallInv, Copies
<1>4. CASE CallSlot(th)
  <2>1. Copies'
    BY <1>2, <1>4 DEF CallSlot, Call, Goto, signalVars
  <2>2. Attached'
    BY <1>4 DEF CallSlot, TryStartExecution, CallInv, Attached, signalVars
  <2>3. Strangers'
    BY <1>3, <1>4 DEF CallSlot, Call, TryStartExecution, CallInv, Strangers
  <2> QED
    BY <2>1, <2>2, <2>3
<1>5. CASE SkipSlot(th)
  <2>1. Copies'
    BY <1>2, <1>5 DEF SkipSlot, signalVars, histVars
  <2>2. Attached' /\ Strangers'
    BY <1>5 DEF SkipSlot, RefuseExecution, CallInv, Attached, Strangers, signalVars,
                histVars, lifeVars
  <2> QED
    BY <2>1, <2>2
<1>6. CASE AddSlot(th)
  <2>1. Copies'
    BY <1>2, <1>6 DEF AddSlot, signalVars, histVars
  <2>2. Attached'
    BY <1>6 DEF AddSlot, CallInv, Attached, signalVars, lifeVars
  <2>3. \A i \in DOMAIN queue' : queue'[i][1] \in connected
    <3> DEFINE task == <<Head(local[th]), arg[th]>>
    <3>1. task \in Async \X Values
      <4>1. Head(local[th]) \in Async /\ pc[th] = "invoke"
        BY <1>6 DEF AddSlot
      <4>2. arg[th] \in Values
        BY <4>1 DEF CallInv, IInv, InHand
      <4> QED
        BY <4>1, <4>2
    <3>2. task[1] \in connected
      BY <1>3, <1>6 DEF AddSlot
    <3>3. queue' = Append(queue, task)
      BY <1>6 DEF AddSlot
    <3> HIDE DEF task
    <3>4. \A i \in DOMAIN queue' :
              queue'[i] = task \/ (i \in DOMAIN queue /\ queue'[i] = queue[i])
      BY <1>0, <3>1, <3>3, Appended
    <3> QED
      BY <3>2, <3>4 DEF CallInv, Strangers
  <2>4. Strangers'
    BY <1>6, <2>3 DEF AddSlot, CallInv, Strangers, lifeVars, histVars
  <2> QED
    BY <2>1, <2>2, <2>4
<1>7. CASE ReturnFromSlot(th)
  <2>1. pc' = [pc EXCEPT ![th] = "invoke"] /\ pc[th] = "run"
    BY <1>7 DEF ReturnFromSlot, Goto
  <2>2. UNCHANGED <<alive, handlers, leaving, local, connected, locking, mutex,
                  queue, told>>
    BY <1>7 DEF ReturnFromSlot, FinishExecution, signalVars, histVars
  <2>3. \A t \in Threads : pc'[t] = "idle" <=> pc[t] = "idle"
    BY <1>0, <2>1
  <2>4. Copies'
    BY <2>2, <2>3, ThreadsAssumption DEF CallInv, Copies
  <2> QED
    BY <2>2, <2>4 DEF CallInv, Attached, Strangers
<1>8. CASE EndInvoke(th)
  <2>1. /\ local[th] = <<>>
        /\ pc' = [pc EXCEPT ![th] = "idle"]
        /\ mutex' = IF mutex = th THEN NoThread ELSE mutex
        /\ UNCHANGED <<alive, handlers, leaving, local, connected, locking, queue, told>>
    BY <1>8 DEF EndInvoke, Goto, lifeVars, histVars
  <2>2. pc[th] = "invoke"
    BY <1>8 DEF EndInvoke
  <2>3. pc'[th] = "idle" /\ \A t \in Threads \ {th} : pc'[t] = pc[t]
    BY <1>0, <2>1
  <2>4. Copies'
    BY <1>0, <2>1, <2>2, <2>3, ThreadsAssumption DEF CallInv, Copies
  <2> QED
    BY <2>1, <2>4 DEF CallInv, Attached, Strangers
<1> QED
  BY <1>1, <1>4, <1>5, <1>6, <1>7, <1>8

\* ... the executor calls what was connected ...
LEMMA ExecutorCallInv ==
  ASSUME CallInv, RunTask \/ SkipTask \/ FinishTask
  PROVE  Attached' /\ Copies' /\ Strangers'
<1>0. /\ Executor \in Threads /\ Executor \notin Users
      /\ pc \in [Threads -> {"idle", "invoke", "run"}]
      /\ queue \in Seq(Async \X Values)
  BY ThreadsAssumption DEF CallInv, IInv, NothingCalledAfterDisconnect, TypeOK
<1>1. ASSUME queue # <<>>, queue' = Tail(queue), connected' = connected
      PROVE  /\ \A i \in DOMAIN queue' : queue'[i][1] \in connected'
             /\ Head(queue)[1] \in connected
  <2>1. /\ \A i \in DOMAIN queue' : i + 1 \in DOMAIN queue /\ queue'[i] = queue[i + 1]
        /\ 1 \in DOMAIN queue /\ Head(queue) = queue[1]
    BY <1>0, <1>1, HeadTailProperties, LenProperties, EmptySeq
  <2> QED
    BY <1>1, <2>1 DEF CallInv, Strangers
<1>2. ASSUME NEW l, pc' = [pc EXCEPT ![Executor] = l],
             UNCHANGED <<local, signalVars, connected>>
      PROVE  Copies'
  <2>1. \A t \in Threads \ {Executor} : pc'[t] = pc[t]
    BY <1>0, <1>2
  <2>2. \A t \in Users : t \in Threads \ {Executor}
    BY <1>0, ThreadsAssumption
  <2> QED
    BY <1>2, <2>1, <2>2 DEF CallInv, Copies, signalVars
<1>3. CASE RunTask
  <2>1. Copies'
    BY <1>2, <1>3 DEF RunTask, Call, Goto
  <2>2. Attached'
    BY <1>3 DEF RunTask, TryStartExecution, CallInv, Attached, signalVars
  <2>3. Strangers'
    BY <1>1, <1>3 DEF RunTask, Call, TryStartExecution, CallInv, Strangers
  <2> QED
    BY <2>1, <2>2, <2>3
<1>4. CASE SkipTask
  <2>1. Copies' /\ Attached'
    BY <1>4 DEF SkipTask, RefuseExecution, CallInv, Copies, Attached, signalVars,
                threadVars, histVars, lifeVars
  <2>2. Strangers'
    BY <1>1, <1>4 DEF SkipTask, RefuseExecution, CallInv, Strangers, histVars, lifeVars
  <2> QED
    BY <2>1, <2>2
<1>5. CASE FinishTask
  <2>1. Copies'
    BY <1>2, <1>5 DEF FinishTask, Goto, histVars
  <2>2. Attached' /\ Strangers'
    BY <1>5 DEF FinishTask, FinishExecution, CallInv, Attached, Strangers, signalVars,
                histVars
  <2> QED
    BY <2>1, <2>2
<1> QED
  BY <1>3, <1>4, <1>5

\* ... a connection is new when it is made, and out of the handlers before its
\* token is released.
LEMMA ConnectionCallInv ==
  ASSUME CallInv, NEW th \in Threads,
         \/ \E c \in Connections : th \in Users /\ (Connect(th, c) \/ ConnectSilently(th, c))
         \/ \E c \in Connections : RemoveHandler(th, c)
         \/ ReleaseToken(th)
  PROVE  Attached' /\ Copies' /\ Strangers'
<1>0. /\ handlers \in Seq(Connections)
      /\ queue \in Seq(Async \X Values) /\ value \in Values
      /\ alive \in [Connections -> BOOLEAN]
      /\ told \in [Connections -> Values \cup {NoValue}]
      /\ leaving \in [Threads -> Connections \cup {None}]
      /\ ToSet(handlers) \subseteq connected
      /\ \A t \in Threads : leaving[t] \in connected \cup {None}
  BY DEF CallInv, IInv, NothingCalledAfterDisconnect, TypeOK, LifeTypeOK, OnceConnected,
         ToSet, Connections
<1>1. ASSUME NEW c \in Connections, Connect(th, c)
      PROVE  Attached' /\ Copies' /\ Strangers'
  <2>1. /\ c \notin connected /\ connected' = connected \cup {c}
        /\ handlers' = Append(handlers, c)
        /\ UNCHANGED <<alive, leaving, local, pc, locking, mutex>>
    BY <1>1 DEF Connect, lifeVars, threadVars
  <2>2. ToSet(handlers') = ToSet(handlers) \cup {c} /\ IsInjective(handlers')
    BY <1>0, <2>1, LastAdded DEF CallInv, Attached
  <2>3. alive[c] /\ \A t \in Threads : leaving[t] # c
    BY <1>0, <2>1, AsyncAssumption DEF CallInv, Strangers, Connections
  <2>4. Attached'
    BY <2>1, <2>2, <2>3 DEF CallInv, Attached
  <2>5. Copies'
    BY <2>1 DEF CallInv, Copies
  <2>6. CASE c \in Async /\ queue' = Append(queue, <<c, value>>) /\ told' = told
    <3> DEFINE task == <<c, value>>
    <3>1. task \in Async \X Values /\ task[1] = c
      BY <1>0, <2>6
    <3> HIDE DEF task
    <3>2. \A i \in DOMAIN queue' :
              queue'[i] = task \/ (i \in DOMAIN queue /\ queue'[i] = queue[i])
      BY <1>0, <2>6, <3>1, Appended DEF task
    <3>3. \A i \in DOMAIN queue' : queue'[i][1] \in connected'
      BY <2>1, <3>1, <3>2 DEF CallInv, Strangers
    <3>4. Strangers'
      BY <2>1, <2>6, <3>3 DEF CallInv, Strangers
    <3> QED
      BY <2>4, <2>5, <3>4
  <2>7. CASE queue' = queue /\ told' = [told EXCEPT ![c] = value]
    <3>1. Strangers'
      BY <1>0, <2>1, <2>7 DEF CallInv, Strangers
    <3> QED
      BY <2>4, <2>5, <3>1
  <2> QED
    BY <1>1, <2>6, <2>7 DEF Connect
<1>2. ASSUME NEW c \in Connections, RemoveHandler(th, c)
      PROVE  Attached' /\ Copies' /\ Strangers'
  <2>1. PICK i \in DOMAIN handlers : handlers[i] = c /\ handlers' = RemoveAt(handlers, i)
    BY <1>2 DEF RemoveHandler, Erase
  <2>2. ToSet(handlers') = ToSet(handlers) \ {c} /\ IsInjective(handlers')
    BY <1>0, <2>1, OneErased DEF CallInv, Attached
  <2>3. /\ leaving' = [leaving EXCEPT ![th] = c]
        /\ UNCHANGED <<alive, told, connected, queue, local, pc, locking, mutex>>
    BY <1>2 DEF RemoveHandler, lifeVars, histVars
  <2>4. Attached'
    BY <1>0, <2>2, <2>3 DEF CallInv, Attached
  <2> QED
    BY <2>3, <2>4 DEF CallInv, Copies, Strangers
<1>3. CASE ReleaseToken(th)
  <2> DEFINE c == leaving[th]
  <2>1. /\ c # None
        /\ alive' = [alive EXCEPT ![c] = FALSE]
        /\ leaving' = [leaving EXCEPT ![th] = None]
        /\ UNCHANGED <<handlers, locking, mutex, told, connected, queue, local, pc>>
    BY <1>3 DEF ReleaseToken, Kill, signalVars
  <2>2. c \in connected /\ c \notin ToSet(handlers)
    BY <1>0, <2>1 DEF CallInv, Attached
  <2> HIDE DEF c
  <2>3. \A d \in ToSet(handlers) : d \in Connections /\ d # None
    BY <1>0, AsyncAssumption
       DEF CallInv, IInv, NothingCalledAfterDisconnect, TypeOK, Connections
  <2>4. Attached'
    BY <1>0, <2>1, <2>2, <2>3 DEF CallInv, Attached
  <2>5. Strangers'
    BY <1>0, <2>1, <2>2 DEF CallInv, Strangers
  <2> QED
    BY <2>1, <2>4, <2>5 DEF CallInv, Copies
<1>4. ASSUME NEW c \in Connections, ConnectSilently(th, c)
      PROVE  Attached' /\ Copies' /\ Strangers'
  <2>1. /\ c \notin connected /\ connected' = connected \cup {c}
        /\ handlers' = Append(handlers, c)
        /\ UNCHANGED <<alive, leaving, local, pc, locking, mutex, queue, told>>
    BY <1>4 DEF ConnectSilently, lifeVars, threadVars
  <2>2. ToSet(handlers') = ToSet(handlers) \cup {c} /\ IsInjective(handlers')
    BY <1>0, <2>1, LastAdded DEF CallInv, Attached
  <2>3. alive[c] /\ \A t \in Threads : leaving[t] # c
    BY <1>0, <2>1, AsyncAssumption DEF CallInv, Strangers, Connections
  <2>4. Attached'
    BY <2>1, <2>2, <2>3 DEF CallInv, Attached
  <2> QED
    BY <2>1, <2>4 DEF CallInv, Copies, Strangers
<1> QED
  BY <1>1, <1>2, <1>3, <1>4

\* So it is after every step ...
LEMMA NextCallInv == CallInv /\ [Next]_vars => CallInv'
<1> SUFFICES ASSUME CallInv, [Next]_vars PROVE CallInv'
  OBVIOUS
<1>0. IInv'
  BY NextInv DEF CallInv
<1>1. ASSUME NEW th \in Users,
             \/ \E c \in Connections : Connect(th, c) \/ ConnectSilently(th, c)
             \/ \E v \in Values : Invoke(th, v)
             \/ CallSlot(th) \/ SkipSlot(th) \/ AddSlot(th)
             \/ ReturnFromSlot(th) \/ EndInvoke(th)
      PROVE  CallInv'
  BY <1>0, <1>1, InvocationCallInv, ConnectionCallInv, ThreadsAssumption DEF CallInv
<1>2. ASSUME NEW th \in Threads,
             (\E c \in Connections : RemoveHandler(th, c)) \/ ReleaseToken(th)
      PROVE  CallInv'
  BY <1>0, <1>2, ConnectionCallInv DEF CallInv
<1>3. CASE RunTask \/ SkipTask \/ FinishTask
  BY <1>0, <1>3, ExecutorCallInv DEF CallInv
<1>4. CASE UNCHANGED vars
  BY <1>0, <1>4 DEF CallInv, Attached, Copies, Strangers, vars, lifeVars, signalVars,
     threadVars, histVars
<1> QED
  BY <1>1, <1>2, <1>3, <1>4 DEF Next

\* ... and always.
LEMMA CallInvariance == Spec => []CallInv
<1> QED
  BY InitCallInv, NextCallInv, PTL DEF Spec
-----------------------------------------------------------------------------
(* Each step is one of an observable value *)

\* No tasks, no arguments.
LEMMA NoArguments ==
  ASSUME NEW S, NEW s, s \in Seq(S), NEW c,
         \A i \in DOMAIN s : s[i][1] # c
  PROVE  ArgumentsFor(s, c) = <<>>
<1>1. \A i \in 1..Len(s) : SlotAt(s, i) # c
  BY LenProperties DEF SlotAt
<1>2. {j \in 1..Len(s) : SlotAt(s, j) = c} = {}
  BY <1>1
<1>3. Rank(s, c, Len(s)) = 0
  BY <1>2, FS_EmptySet DEF Rank, SlotAt
<1>4. PICK V : V = {e[2] : e \in S}
  OBVIOUS
<1>5. \A e \in S : e[2] \in V
  BY <1>4
<1>6. ArgumentsFor(s, c) \in Seq(V) /\ Len(ArgumentsFor(s, c)) = Rank(s, c, Len(s))
  BY ONLY s \in Seq(S), <1>5, ArgumentAt
<1> QED
  BY <1>3, <1>6, EmptySeq

\* The tasks hold values, those of the connections that are made with an executor.
LEMMA TaskArguments ==
  ASSUME CallInv
  PROVE  \A c \in Connections :
            /\ ArgumentsFor(queue, c) \in Seq(Values)
            /\ c \notin Async \/ c \notin connected => ArgumentsFor(queue, c) = <<>>
<1>1. queue \in Seq(Async \X Values) /\ \A e \in Async \X Values : e[2] \in Values
  BY DEF CallInv, IInv, NothingCalledAfterDisconnect, TypeOK
<1>2. \A i \in DOMAIN queue : queue[i][1] \in Async /\ queue[i][1] \in connected
  BY <1>1 DEF CallInv, Strangers
<1> SUFFICES ASSUME NEW c \in Connections
             PROVE  /\ ArgumentsFor(queue, c) \in Seq(Values)
                    /\ c \notin Async \/ c \notin connected => ArgumentsFor(queue, c) = <<>>
  OBVIOUS
<1>3. ArgumentsFor(queue, c) \in Seq(Values)
  BY ONLY <1>1, ArgumentAt
<1>4. ASSUME c \notin Async \/ c \notin connected PROVE ArgumentsFor(queue, c) = <<>>
  <2>1. \A i \in DOMAIN queue : queue[i][1] # c
    BY <1>2, <1>4
  <2> QED
    BY ONLY <1>1, <2>1, NoArguments
<1> QED
  BY <1>3, <1>4

\* Under the mutex there is at most one invocation, which owes its argument.
OwedKnown ==
    locking => \A c \in Connections :
        /\ mutex = NoThread => OwedTo(c) = ArgumentsFor(queue, c)
        /\ \A th \in Users : pc[th] # "idle" =>
            OwedTo(c) = IF c \in ToSet(local[th])
                        THEN Append(ArgumentsFor(queue, c), arg[th])
                        ELSE ArgumentsFor(queue, c)

\* It is known what is owed, in every state.
LEMMA OwedIsKnown == CallInv => OwedKnown
<1> SUFFICES ASSUME CallInv, locking, NEW c \in Connections
             PROVE  /\ mutex = NoThread => OwedTo(c) = ArgumentsFor(queue, c)
                    /\ \A th \in Users : pc[th] # "idle" =>
                        OwedTo(c) = IF c \in ToSet(local[th])
                                    THEN Append(ArgumentsFor(queue, c), arg[th])
                                    ELSE ArgumentsFor(queue, c)
  BY DEF OwedKnown
<1>1. \A th \in Calling(c) : th \in Users /\ th \in Threads /\ mutex = th /\ th # NoThread
  <2>1. \A th \in Calling(c) : th \in Users /\ local[th] # <<>>
    BY DEF Calling, ToSet
  <2>2. \A th \in Calling(c) : th \in Threads
    BY <2>1, ThreadsAssumption
  <2> QED
    BY <2>1, <2>2, NoThreadAssumption DEF CallInv, Copies
<1>2. mutex = NoThread => OwedTo(c) = ArgumentsFor(queue, c)
  BY <1>1 DEF OwedTo
<1>3. ASSUME NEW th \in Users, pc[th] # "idle"
      PROVE  OwedTo(c) = IF c \in ToSet(local[th])
                         THEN Append(ArgumentsFor(queue, c), arg[th])
                         ELSE ArgumentsFor(queue, c)
  <2>1. mutex = th
    BY <1>3 DEF CallInv, Copies
  <2>2. Calling(c) = IF c \in ToSet(local[th]) THEN {th} ELSE {}
    BY <1>1, <2>1 DEF Calling
  <2> QED
    BY <2>2 DEF OwedTo
<1> QED
  BY <1>2, <1>3

\* What the threads carry stays the same: what is owed depends on the tasks.
LEMMA OwedByTasks ==
  ASSUME NEW c \in Connections, UNCHANGED <<local, arg>>
  PROVE  OwedTo(c)' = IF Calling(c) = {} THEN ArgumentsFor(queue', c)
                      ELSE Append(ArgumentsFor(queue', c),
                                  arg[CHOOSE th \in Calling(c) : TRUE])
BY DEF OwedTo, Calling

\* A step that changes nothing of what the observable value shows.
LEMMA Unseen ==
  ASSUME locking, UNCHANGED <<locking, value, told, alive>>,
         ToSet(handlers') = ToSet(handlers),
         \A c \in Connections : alive[c] => OwedTo(c)' = OwedTo(c)
  PROVE  UNCHANGED Promise!vars
<1>1. Owed' = Owed
  BY DEF Owed
<1> QED
  BY <1>1 DEF Promise!vars

\* Without the mutex nothing is shown at all.
LEMMA Unordered ==
  ASSUME CallInv, ~locking, [Next]_vars
  PROVE  UNCHANGED Promise!vars
<1>1. locking' = locking
  BY DEF Next, vars, Connect, ConnectSilently, Invoke, CallSlot, SkipSlot, AddSlot,
     ReturnFromSlot, EndInvoke, RemoveHandler, ReleaseToken, RunTask, SkipTask, FinishTask, signalVars
<1>2. Owed' = Owed
  BY <1>1 DEF Owed
<1> QED
  BY <1>1, <1>2 DEF Promise!vars

\* The steps of an invocation under the mutex.
LEMMA InvocationMaps ==
  ASSUME CallInv, CallInv', OwedKnown, OwedKnown', locking, NEW th \in Users,
         \/ \E v \in Values : Invoke(th, v)
         \/ CallSlot(th) \/ SkipSlot(th) \/ AddSlot(th)
         \/ ReturnFromSlot(th) \/ EndInvoke(th)
  PROVE  [Promise!Next]_(Promise!vars)
<1>0. /\ th \in Threads /\ th # NoThread
      /\ handlers \in Seq(Connections)
      /\ local \in [Threads -> Seq(Connections)]
      /\ pc \in [Threads -> {"idle", "invoke", "run"}]
      /\ queue \in Seq(Async \X Values)
      /\ arg \in [Threads -> Values \cup {NoValue}]
      /\ pc[th] # "idle" => mutex = th /\ arg[th] \in Values
  BY ThreadsAssumption, NoThreadAssumption
     DEF CallInv, IInv, NothingCalledAfterDisconnect, TypeOK, InHand, Copies
<1>1. ASSUME NEW v \in Values, Invoke(th, v) PROVE Promise!Set(v)
  <2>1. /\ mutex = NoThread /\ v # value /\ value' = v
        /\ local' = [local EXCEPT ![th] = handlers]
        /\ arg' = [arg EXCEPT ![th] = v]
        /\ pc' = [pc EXCEPT ![th] = "invoke"]
        /\ UNCHANGED <<alive, locking, handlers, queue, told>>
    BY <1>1 DEF Invoke, Goto, lifeVars
  <2>2. pc'[th] # "idle" /\ local'[th] = handlers /\ arg'[th] = v
    BY <1>0, <2>1
  <2>3. \A c \in Connections : OwedTo(c) = ArgumentsFor(queue, c)
    BY <2>1 DEF OwedKnown
  <2>4. \A c \in Connections :
            OwedTo(c)' = IF c \in ToSet(handlers) THEN Append(ArgumentsFor(queue, c), v)
                         ELSE ArgumentsFor(queue, c)
    BY <2>1, <2>2 DEF OwedKnown
  <2>5. \A c \in ToSet(handlers) : alive[c]
    BY DEF CallInv, Attached
  <2>6. Owed' = [c \in Connections |->
                    IF c \in ToSet(handlers) THEN Append(Owed[c], v) ELSE Owed[c]]
    BY <2>1, <2>3, <2>4, <2>5 DEF Owed
  <2> QED
    BY <2>1, <2>6 DEF Promise!Set
<1>2. ASSUME local[th] # <<>>, pc[th] = "invoke", pc'[th] # "idle",
             local' = [local EXCEPT ![th] = Tail(@)],
             UNCHANGED <<locking, arg>>,
             NEW c, c = Head(local[th])
      PROVE  /\ c \in Connections
             /\ OwedTo(c) = Append(ArgumentsFor(queue, c), arg[th])
             /\ OwedTo(c)' = ArgumentsFor(queue', c)
             /\ \A d \in Connections \ {c} :
                    ArgumentsFor(queue', d) = ArgumentsFor(queue, d) =>
                        OwedTo(d)' = OwedTo(d)
  <2>1. /\ local[th] \in Seq(Connections)
        /\ local'[th] = Tail(local[th])
    BY <1>0, <1>2
  <2>2. c \in Connections /\ c \in ToSet(local[th])
    BY <1>0, <1>2, <2>1, FirstTaken, HeadTailProperties DEF CallInv, Copies
  <2>3. ToSet(local'[th]) = ToSet(local[th]) \ {c}
    BY <1>0, <1>2, <2>1, FirstTaken DEF CallInv, Copies
  <2>4. \A d \in Connections :
            OwedTo(d) = IF d \in ToSet(local[th])
                        THEN Append(ArgumentsFor(queue, d), arg[th])
                        ELSE ArgumentsFor(queue, d)
    BY <1>2 DEF OwedKnown
  <2>5. \A d \in Connections :
            OwedTo(d)' = IF d \in ToSet(local'[th])
                         THEN Append(ArgumentsFor(queue', d), arg[th])
                         ELSE ArgumentsFor(queue', d)
    BY <1>2 DEF OwedKnown
  <2>6. /\ OwedTo(c) = Append(ArgumentsFor(queue, c), arg[th])
        /\ OwedTo(c)' = ArgumentsFor(queue', c)
    BY <2>2, <2>3, <2>4, <2>5
  <2>7. ASSUME NEW d \in Connections \ {c}, ArgumentsFor(queue', d) = ArgumentsFor(queue, d)
        PROVE  OwedTo(d)' = OwedTo(d)
    <3>1. d \in ToSet(local'[th]) <=> d \in ToSet(local[th])
      BY <2>3
    <3>2. OwedTo(d) = IF d \in ToSet(local[th])
                      THEN Append(ArgumentsFor(queue, d), arg[th])
                      ELSE ArgumentsFor(queue, d)
      BY <2>4
    <3>3. OwedTo(d)' = IF d \in ToSet(local'[th])
                       THEN Append(ArgumentsFor(queue', d), arg[th])
                       ELSE ArgumentsFor(queue', d)
      BY <2>5
    <3> QED
      BY <2>7, <3>1, <3>2, <3>3
  <2> QED
    BY <2>2, <2>6, <2>7
<1>3. CASE CallSlot(th)
  <2>0. PICK c : c = Head(local[th])
    OBVIOUS
  <2>1. /\ local[th] # <<>> /\ pc[th] = "invoke" /\ c \notin Async /\ alive[c]
        /\ pc' = [pc EXCEPT ![th] = "run"]
        /\ local' = [local EXCEPT ![th] = Tail(@)]
        /\ told' = [told EXCEPT ![c] = arg[th]]
        /\ UNCHANGED <<alive, locking, value, handlers, arg, queue>>
    BY <1>3, <2>0 DEF CallSlot, Call, Goto, TryStartExecution, signalVars
  <2>2. pc'[th] # "idle"
    BY <1>0, <2>1
  <2>3. /\ c \in Connections
        /\ OwedTo(c) = Append(ArgumentsFor(queue, c), arg[th])
        /\ OwedTo(c)' = ArgumentsFor(queue', c)
        /\ \A d \in Connections \ {c} : OwedTo(d)' = OwedTo(d)
    BY <1>2, <2>0, <2>1, <2>2
  <2>4. ArgumentsFor(queue, c) = <<>>
    BY <2>1, <2>3, TaskArguments
  <2>5. OwedTo(c) = <<arg[th]>> /\ OwedTo(c)' = <<>>
    BY <2>1, <2>3, <2>4
  <2>6. OwedTo(c) # <<>> /\ Head(OwedTo(c)) = arg[th] /\ Tail(OwedTo(c)) = <<>>
    BY <2>5
  <2>7. Owed' = [Owed EXCEPT ![c] = Tail(@)]
    <3>1. /\ Owed = [d \in Connections |-> IF alive[d] THEN OwedTo(d) ELSE <<>>]
          /\ Owed' = [d \in Connections |-> IF alive[d] THEN OwedTo(d)' ELSE <<>>]
      BY <2>1 DEF Owed
    <3>2. Tail(Owed[c]) = OwedTo(c)'
      BY <2>1, <2>3, <2>5, <2>6, <3>1
    <3>3. \A d \in Connections : Owed'[d] = IF d = c THEN OwedTo(c)' ELSE Owed[d]
      BY <2>1, <2>3, <3>1
    <3> QED
      BY <3>1, <3>2, <3>3
  <2>8. Owed[c] = OwedTo(c)
    BY <2>1, <2>3 DEF Owed
  <2>9. Promise!Tell(c)
    BY <2>1, <2>3, <2>6, <2>7, <2>8 DEF Promise!Tell
  <2> QED
    BY <2>3, <2>9 DEF Promise!Next
<1>4. CASE SkipSlot(th)
  <2>1. /\ local[th] # <<>> /\ pc[th] = "invoke" /\ ~alive[Head(local[th])]
        /\ local' = [local EXCEPT ![th] = Tail(@)]
        /\ UNCHANGED <<alive, locking, value, handlers, arg, queue, told, pc>>
    BY <1>4 DEF SkipSlot, RefuseExecution, signalVars, histVars, lifeVars
  <2>2. PICK c : c = Head(local[th])
    OBVIOUS
  <2>3. \A d \in Connections \ {c} : OwedTo(d)' = OwedTo(d)
    BY <1>2, <2>1, <2>2
  <2> QED
    BY <2>1, <2>2, <2>3, Unseen
<1>5. CASE AddSlot(th)
  <2>0. PICK c : c = Head(local[th])
    OBVIOUS
  <2>1. /\ local[th] # <<>> /\ pc[th] = "invoke" /\ c \in Async
        /\ queue' = Append(queue, <<c, arg[th]>>)
        /\ local' = [local EXCEPT ![th] = Tail(@)]
        /\ UNCHANGED <<alive, locking, value, handlers, arg, told, pc>>
    BY <1>5, <2>0 DEF AddSlot, signalVars, histVars, lifeVars
  <2>2. /\ c \in Connections
        /\ OwedTo(c) = Append(ArgumentsFor(queue, c), arg[th])
        /\ OwedTo(c)' = ArgumentsFor(queue', c)
        /\ \A d \in Connections \ {c} :
               ArgumentsFor(queue', d) = ArgumentsFor(queue, d) => OwedTo(d)' = OwedTo(d)
    BY <1>2, <2>0, <2>1
  <2>3. PICK task : task = <<c, arg[th]>>
    OBVIOUS
  <2>4. task \in Async \X Values /\ task[1] = c /\ task[2] = arg[th]
    BY <1>0, <2>1, <2>3
  <2>5. queue' = Append(queue, task)
    BY <2>1, <2>3
  <2>6. \A d \in Connections : ArgumentsFor(queue', d) =
            IF task[1] = d THEN Append(ArgumentsFor(queue, d), task[2])
            ELSE ArgumentsFor(queue, d)
    <3>1. PICK S : S = Async \X Values
      OBVIOUS
    <3>2. queue \in Seq(S) /\ task \in S
      BY <1>0, <2>4, <3>1
    <3>3. \A d : ArgumentsFor(Append(queue, task), d) =
              IF task[1] = d THEN Append(ArgumentsFor(queue, d), task[2])
              ELSE ArgumentsFor(queue, d)
      BY ONLY <3>2, ArgumentAppended
    <3> QED
      BY <2>5, <3>3
  <2>7. ASSUME NEW d \in Connections PROVE OwedTo(d)' = OwedTo(d)
    <3>1. CASE d = c
      BY <2>2, <2>4, <2>6, <3>1
    <3>2. CASE d # c
      <4>1. ArgumentsFor(queue', d) = ArgumentsFor(queue, d)
        BY <2>4, <2>6, <3>2
      <4> QED
        BY <2>2, <3>2, <4>1
    <3> QED
      BY <3>1, <3>2
  <2> QED
    BY <2>1, <2>7, Unseen
<1>6. CASE ReturnFromSlot(th)
  <2>1. UNCHANGED <<alive, locking, value, handlers, local, arg, queue, told>>
    BY <1>6 DEF ReturnFromSlot, FinishExecution, signalVars, histVars
  <2>2. \A d \in Connections : OwedTo(d)' = OwedTo(d)
    BY <2>1, OwedByTasks DEF OwedTo
  <2> QED
    BY <2>1, <2>2, Unseen
<1>7. CASE EndInvoke(th)
  <2>1. /\ local[th] = <<>> /\ pc[th] = "invoke"
        /\ mutex' = IF mutex = th THEN NoThread ELSE mutex
        /\ UNCHANGED <<alive, locking, value, handlers, local, queue, told>>
    BY <1>7 DEF EndInvoke, lifeVars, histVars
  <2>2. mutex' = NoThread
    BY <1>0, <2>1
  <2>3. ToSet(local[th]) = {}
    BY <2>1 DEF ToSet
  <2>4. \A d \in Connections : OwedTo(d) = ArgumentsFor(queue, d)
    BY <2>1, <2>3 DEF OwedKnown
  <2>5. \A d \in Connections : OwedTo(d)' = ArgumentsFor(queue, d)
    BY <2>1, <2>2 DEF OwedKnown
  <2> QED
    BY <2>1, <2>4, <2>5, Unseen
<1> QED
  BY <1>1, <1>3, <1>4, <1>5, <1>6, <1>7 DEF Promise!Next

\* The steps of the executor under the mutex.
LEMMA ExecutorMaps ==
  ASSUME CallInv, locking, RunTask \/ SkipTask \/ FinishTask
  PROVE  [Promise!Next]_(Promise!vars)
<1>0. queue \in Seq(Async \X Values)
  BY DEF CallInv, IInv, NothingCalledAfterDisconnect, TypeOK
<1>1. ASSUME queue # <<>>, queue' = Tail(queue), UNCHANGED <<local, arg>>,
             NEW c, c = Head(queue)[1]
      PROVE  /\ c \in Connections
             /\ OwedTo(c) # <<>>
             /\ Head(OwedTo(c)) = Head(queue)[2]
             /\ OwedTo(c)' = Tail(OwedTo(c))
             /\ \A d \in Connections \ {c} : OwedTo(d)' = OwedTo(d)
  <2>1. c \in Connections
    <3>1. Head(queue) \in Async \X Values
      BY <1>0, <1>1, HeadTailProperties
    <3> QED
      BY <1>1, <3>1, AsyncAssumption DEF Connections
  <2>2. \A d \in Connections : ArgumentsFor(queue, d) \in Seq(Values)
    BY TaskArguments
  <2>3. SlotAt(queue, 1) = c /\ ArgAt(queue, 1) = Head(queue)[2]
    <3>1. Head(queue) = queue[1]
      BY <1>0, <1>1
    <3> QED
      BY <1>1, <3>1 DEF SlotAt, ArgAt
  <2>4. \A d : IF SlotAt(queue, 1) = d
               THEN /\ ArgumentsFor(queue, d) # <<>>
                    /\ Head(ArgumentsFor(queue, d)) = ArgAt(queue, 1)
                    /\ ArgumentsFor(Tail(queue), d) = Tail(ArgumentsFor(queue, d))
               ELSE ArgumentsFor(Tail(queue), d) = ArgumentsFor(queue, d)
    <3>1. PICK S : S = Async \X Values
      OBVIOUS
    <3>2. queue \in Seq(S) /\ queue # <<>>
      BY <1>0, <1>1, <3>1
    <3> QED
      BY ONLY <3>2, ArgumentTaken
  <2>5. \A d \in Connections :
            OwedTo(d)' = IF Calling(d) = {} THEN ArgumentsFor(queue', d)
                         ELSE Append(ArgumentsFor(queue', d),
                                     arg[CHOOSE th \in Calling(d) : TRUE])
    BY <1>1, OwedByTasks
  <2>6. ASSUME NEW d \in Connections \ {c} PROVE OwedTo(d)' = OwedTo(d)
    <3>1. ArgumentsFor(queue', d) = ArgumentsFor(queue, d)
      BY <1>1, <2>3, <2>4
    <3> QED
      BY <2>5, <3>1 DEF OwedTo
  <2>7. /\ ArgumentsFor(queue, c) # <<>>
        /\ Head(ArgumentsFor(queue, c)) = Head(queue)[2]
        /\ ArgumentsFor(queue', c) = Tail(ArgumentsFor(queue, c))
    BY <1>1, <2>3, <2>4
  <2>8. \A e : /\ Append(ArgumentsFor(queue, c), e) # <<>>
               /\ Head(Append(ArgumentsFor(queue, c), e)) = Head(ArgumentsFor(queue, c))
               /\ Tail(Append(ArgumentsFor(queue, c), e))
                    = Append(Tail(ArgumentsFor(queue, c)), e)
    <3> TAKE e
    <3>1. PICK s : s = ArgumentsFor(queue, c)
      OBVIOUS
    <3>2. s \in Seq(Values) /\ s # <<>>
      BY <2>1, <2>2, <2>7, <3>1
    <3>3. /\ Head(Append(s, e)) = Head(s)
          /\ Tail(Append(s, e)) = Append(Tail(s), e)
      BY <3>2, HeadTailAppend
    <3>4. Append(s, e) # <<>>
      BY <3>2
    <3> QED
      BY <3>1, <3>3, <3>4
  <2>9. /\ OwedTo(c) # <<>>
        /\ Head(OwedTo(c)) = Head(queue)[2]
        /\ OwedTo(c)' = Tail(OwedTo(c))
    <3>1. CASE Calling(c) = {}
      BY <2>1, <2>5, <2>7, <3>1 DEF OwedTo
    <3>2. CASE Calling(c) # {}
      BY <2>1, <2>5, <2>7, <2>8, <3>2 DEF OwedTo
    <3> QED
      BY <3>1, <3>2
  <2> QED
    BY <2>1, <2>6, <2>9
<1>2. CASE RunTask
  <2>1. PICK c : c = Head(queue)[1]
    OBVIOUS
  <2>2. /\ queue # <<>> /\ queue' = Tail(queue) /\ alive[c]
        /\ told' = [told EXCEPT ![c] = Head(queue)[2]]
        /\ UNCHANGED <<alive, locking, value, handlers, local, arg>>
    BY <1>2, <2>1 DEF RunTask, Call, TryStartExecution, signalVars
  <2>3. /\ c \in Connections
        /\ OwedTo(c) # <<>>
        /\ Head(OwedTo(c)) = Head(queue)[2]
        /\ OwedTo(c)' = Tail(OwedTo(c))
        /\ \A d \in Connections \ {c} : OwedTo(d)' = OwedTo(d)
    BY <1>1, <2>1, <2>2
  <2>4. /\ Owed = [d \in Connections |-> IF alive[d] THEN OwedTo(d) ELSE <<>>]
        /\ Owed' = [d \in Connections |-> IF alive[d] THEN OwedTo(d)' ELSE <<>>]
    BY <2>2 DEF Owed
  <2>5. Owed[c] = OwedTo(c)
    BY <2>2, <2>3, <2>4
  <2>6. Owed' = [Owed EXCEPT ![c] = Tail(@)]
    <3>1. \A d \in Connections : Owed'[d] = IF d = c THEN Tail(Owed[c]) ELSE Owed[d]
      BY <2>2, <2>3, <2>4, <2>5
    <3> QED
      BY <2>4, <3>1
  <2>7. Promise!Tell(c)
    BY <2>2, <2>3, <2>5, <2>6 DEF Promise!Tell
  <2> QED
    BY <2>3, <2>7 DEF Promise!Next
<1>3. CASE SkipTask
  <2>1. PICK c : c = Head(queue)[1]
    OBVIOUS
  <2>2. /\ queue # <<>> /\ queue' = Tail(queue) /\ ~alive[c]
        /\ UNCHANGED <<alive, locking, value, handlers, local, arg, told>>
    BY <1>3, <2>1 DEF SkipTask, RefuseExecution, signalVars, threadVars, histVars, lifeVars
  <2>3. \A d \in Connections \ {c} : OwedTo(d)' = OwedTo(d)
    BY <1>1, <2>1, <2>2
  <2> QED
    BY <2>2, <2>3, Unseen
<1>4. CASE FinishTask
  <2>1. UNCHANGED <<alive, locking, value, handlers, local, arg, queue, told>>
    BY <1>4 DEF FinishTask, FinishExecution, signalVars, histVars
  <2>2. \A d \in Connections : OwedTo(d)' = OwedTo(d)
    BY <2>1, OwedByTasks DEF OwedTo
  <2> QED
    BY <2>1, <2>2, Unseen
<1> QED
  BY <1>2, <1>3, <1>4

\* A connection that is sent the current state finds the value and is told it.
LEMMA Subscribes ==
  ASSUME CallInv, OwedKnown, OwedKnown', locking, NEW th, NEW c \in Connections,
         Connect(th, c)
  PROVE  Promise!Subscribe(c)
<1>0. /\ handlers \in Seq(Connections)
      /\ queue \in Seq(Async \X Values) /\ value \in Values
      /\ alive \in [Connections -> BOOLEAN]
      /\ leaving \in [Threads -> Connections \cup {None}]
      /\ ToSet(handlers) \subseteq connected
  BY DEF CallInv, IInv, NothingCalledAfterDisconnect, TypeOK, LifeTypeOK, OnceConnected,
         ToSet, Connections
<1>1. /\ c \notin connected /\ mutex = NoThread /\ mutex' = NoThread
      /\ handlers' = Append(handlers, c)
      /\ UNCHANGED <<alive, locking, value, local, arg>>
  BY DEF Connect, lifeVars, threadVars
<1>2. ToSet(handlers') = ToSet(handlers) \cup {c}
  BY <1>0, <1>1, LastAdded
<1>3. alive[c] /\ told[c] = NoValue /\ c \notin ToSet(handlers)
  BY <1>0, <1>1 DEF CallInv, Strangers
<1>4. /\ \A d \in Connections : OwedTo(d) = ArgumentsFor(queue, d)
      /\ \A d \in Connections : OwedTo(d)' = ArgumentsFor(queue', d)
  BY <1>1 DEF OwedKnown
<1>5. ArgumentsFor(queue, c) = <<>>
  BY <1>1, TaskArguments
<1>6. /\ Owed = [d \in Connections |-> IF alive[d] THEN OwedTo(d) ELSE <<>>]
      /\ Owed' = [d \in Connections |-> IF alive[d] THEN OwedTo(d)' ELSE <<>>]
  BY <1>1 DEF Owed
<1>7. Owed[c] = <<>>
  BY <1>4, <1>5, <1>6
<1>8. CASE queue' = queue /\ told' = [told EXCEPT ![c] = value]
  <2>1. Owed' = Owed
    BY <1>4, <1>6, <1>8
  <2> QED
    BY <1>1, <1>2, <1>3, <1>7, <1>8, <2>1 DEF Promise!Subscribe
<1>9. CASE c \in Async /\ queue' = Append(queue, <<c, value>>) /\ told' = told
  <2>1. PICK task : task = <<c, value>>
    OBVIOUS
  <2>2. PICK S : S = Async \X Values
    OBVIOUS
  <2>3. queue \in Seq(S) /\ task \in S /\ task[1] = c /\ task[2] = value
    BY <1>0, <1>9, <2>1, <2>2
  <2>4. \A d : ArgumentsFor(Append(queue, task), d) =
            IF task[1] = d THEN Append(ArgumentsFor(queue, d), task[2])
            ELSE ArgumentsFor(queue, d)
    BY ONLY <2>3, ArgumentAppended
  <2>5. OwedTo(c)' = <<value>>
    <3>1. ArgumentsFor(queue', c) = Append(<<>>, value)
      BY <1>5, <1>9, <2>1, <2>3, <2>4
    <3> QED
      BY <1>4, <3>1
  <2>6. \A d \in Connections \ {c} : OwedTo(d)' = OwedTo(d)
    BY <1>4, <1>9, <2>1, <2>3, <2>4
  <2>7. \A d \in Connections : Owed'[d] = IF d = c THEN <<value>> ELSE Owed[d]
    BY <1>3, <1>6, <2>5, <2>6
  <2>8. Owed' = [Owed EXCEPT ![c] = <<value>>]
    BY <1>6, <2>7
  <2> QED
    BY <1>1, <1>2, <1>3, <1>7, <1>9, <2>8 DEF Promise!Subscribe
<1> QED
  BY <1>8, <1>9 DEF Connect

\* Connection and disconnection under the mutex.
LEMMA ConnectionMaps ==
  ASSUME CallInv, OwedKnown, OwedKnown', locking, NEW th \in Threads,
         \/ \E c \in Connections : Connect(th, c) \/ ConnectSilently(th, c)
         \/ \E c \in Connections : RemoveHandler(th, c)
         \/ ReleaseToken(th)
  PROVE  [Promise!Next]_(Promise!vars)
<1>0. /\ handlers \in Seq(Connections)
      /\ queue \in Seq(Async \X Values) /\ value \in Values
      /\ alive \in [Connections -> BOOLEAN]
      /\ leaving \in [Threads -> Connections \cup {None}]
      /\ ToSet(handlers) \subseteq connected
  BY DEF CallInv, IInv, NothingCalledAfterDisconnect, TypeOK, LifeTypeOK, OnceConnected,
         ToSet, Connections
<1>1. ASSUME NEW c \in Connections, Connect(th, c)
      PROVE  Promise!Subscribe(c)
  BY <1>1, Subscribes
<1>2. ASSUME NEW c \in Connections, RemoveHandler(th, c)
      PROVE  Promise!Unsubscribe(c)
  <2>1. PICK i \in DOMAIN handlers : handlers[i] = c /\ handlers' = RemoveAt(handlers, i)
    BY <1>2 DEF RemoveHandler, Erase
  <2>2. ToSet(handlers') = ToSet(handlers) \ {c}
    BY <1>0, <2>1, OneErased DEF CallInv, Attached
  <2>3. UNCHANGED <<alive, locking, value, told, queue, local, arg>>
    BY <1>2 DEF RemoveHandler, lifeVars, histVars
  <2>4. \A d \in Connections : OwedTo(d)' = OwedTo(d)
    BY <2>3, OwedByTasks DEF OwedTo
  <2>5. Owed' = Owed
    BY <2>3, <2>4 DEF Owed
  <2>6. c \in ToSet(handlers)
    BY <1>2 DEF RemoveHandler, CanDisconnect
  <2> QED
    BY <2>2, <2>3, <2>5, <2>6 DEF Promise!Unsubscribe
<1>3. CASE ReleaseToken(th)
  <2>1. PICK c : c = leaving[th]
    OBVIOUS
  <2>2. /\ c # None
        /\ alive' = [alive EXCEPT ![c] = FALSE]
        /\ UNCHANGED <<locking, value, handlers, told, queue, local, arg>>
    BY <1>3, <2>1 DEF ReleaseToken, Kill, signalVars
  <2>3. c \in Connections /\ c \notin ToSet(handlers)
    BY <1>0, <2>1, <2>2 DEF CallInv, Attached
  <2>4. \A d \in Connections : OwedTo(d)' = OwedTo(d)
    BY <2>2, OwedByTasks DEF OwedTo
  <2>5. CASE ~alive[c]
    <3>1. alive' = alive
      BY <1>0, <2>2, <2>3, <2>5
    <3> QED
      BY <2>2, <2>4, <3>1, Unseen
  <2>6. CASE alive[c]
    <3>1. \A d \in Connections : alive'[d] = IF d = c THEN FALSE ELSE alive[d]
      BY <1>0, <2>2, <2>3
    <3>2. /\ Owed = [d \in Connections |-> IF alive[d] THEN OwedTo(d) ELSE <<>>]
          /\ Owed' = [d \in Connections |-> IF alive'[d] THEN OwedTo(d)' ELSE <<>>]
      BY <2>2 DEF Owed
    <3>3. \A d \in Connections : Owed'[d] = IF d = c THEN <<>> ELSE Owed[d]
      BY <2>4, <3>1, <3>2
    <3>4. Owed' = [Owed EXCEPT ![c] = <<>>]
      BY <3>2, <3>3
    <3>5. {d \in Connections : ~alive'[d]} = {d \in Connections : ~alive[d]} \cup {c}
      BY <2>3, <3>1
    <3>6. Promise!Cut(c)
      BY <2>2, <2>3, <2>6, <3>4, <3>5 DEF Promise!Cut
    <3> QED
      BY <2>3, <3>6 DEF Promise!Next
  <2> QED
    BY <2>5, <2>6
<1>4. ASSUME NEW c \in Connections, ConnectSilently(th, c)
      PROVE  Promise!SubscribeSilently(c)
  <2>1. /\ c \notin connected /\ mutex = NoThread /\ mutex' = NoThread
        /\ handlers' = Append(handlers, c)
        /\ UNCHANGED <<alive, locking, value, told, queue, local, arg>>
    BY <1>4 DEF ConnectSilently, lifeVars, threadVars
  <2>2. ToSet(handlers') = ToSet(handlers) \cup {c}
    BY <1>0, <2>1, LastAdded
  <2>3. alive[c] /\ told[c] = NoValue /\ c \notin ToSet(handlers)
    BY <1>0, <2>1 DEF CallInv, Strangers
  <2>4. \A d \in Connections : OwedTo(d)' = OwedTo(d)
    BY <2>1, OwedByTasks DEF OwedTo
  <2>5. Owed' = Owed
    BY <2>1, <2>4 DEF Owed
  <2>6. OwedTo(c) = ArgumentsFor(queue, c)
    BY <2>1 DEF OwedKnown
  <2>7. ArgumentsFor(queue, c) = <<>>
    BY <2>1, TaskArguments
  <2>8. Owed[c] = <<>>
    BY <2>6, <2>7 DEF Owed
  <2> QED
    BY <2>1, <2>2, <2>3, <2>5, <2>8 DEF Promise!SubscribeSilently
<1> QED
  BY <1>1, <1>2, <1>3, <1>4 DEF Promise!Next

(***************************************************************************)
(* With its mutex held around the calls, as ObservableValue::Set does, a   *)
(* signal is an observable value: whatever threads set, connect and        *)
(* disconnect, each connection is called with the value it found, if it is *)
(* one that is sent the current state, and then with each later one, once  *)
(* and in order, in the thread that sets or from the executor's queue, and *)
(* with nothing after its token has been reset (signals.h:139-175,         *)
(* 219-229; ObservableValue.h:125-132).                                    *)
(***************************************************************************)
THEOREM ImplementsObservableAlways == Spec => ImplementsObservable
<1>1. Init => Promise!Init
  <2> SUFFICES ASSUME Init PROVE Promise!Init
    OBVIOUS
  <2>1. /\ ToSet(handlers) = {}
        /\ {c \in Connections : ~alive[c]} = {}
        /\ value = Initial
        /\ told = [c \in Connections |-> NoValue]
    BY DEF Init, LifeInit, ToSet, Connections
  <2>2. \A c \in Connections : OwedTo(c) = <<>>
    <3> TAKE c \in Connections
    <3>1. mutex = NoThread /\ queue = <<>>
      BY DEF Init
    <3>2. Calling(c) = {}
      BY ThreadsAssumption DEF Init, Calling, ToSet
    <3>3. ArgumentsFor(<<>>, c) = <<>>
      <4>1. <<>> \in Seq(Async \X Values) /\ \A i \in DOMAIN <<>> : <<>>[i][1] # c
        OBVIOUS
      <4> QED
        BY ONLY <4>1, NoArguments
    <3> QED
      BY <3>1, <3>2, <3>3 DEF OwedTo
  <2>3. Owed = [c \in Connections |-> <<>>]
    BY <2>2 DEF Owed
  <2> QED
    BY <2>1, <2>3 DEF Promise!Init
<1>2. CallInv /\ CallInv' /\ OwedKnown /\ OwedKnown' /\ [Next]_vars
          => [Promise!Next]_(Promise!vars)
  <2> SUFFICES ASSUME CallInv, CallInv', OwedKnown, OwedKnown', [Next]_vars
               PROVE  [Promise!Next]_(Promise!vars)
    OBVIOUS
  <2>1. CASE ~locking
    BY <2>1, Unordered
  <2>2. ASSUME locking,
               NEW th \in Users,
               \/ \E c \in Connections : Connect(th, c) \/ ConnectSilently(th, c)
               \/ \E v \in Values : Invoke(th, v)
               \/ CallSlot(th) \/ SkipSlot(th) \/ AddSlot(th)
               \/ ReturnFromSlot(th) \/ EndInvoke(th)
        PROVE  [Promise!Next]_(Promise!vars)
    BY <2>2, InvocationMaps, ConnectionMaps, ThreadsAssumption
  <2>3. ASSUME locking,
               NEW th \in Threads,
               (\E c \in Connections : RemoveHandler(th, c)) \/ ReleaseToken(th)
        PROVE  [Promise!Next]_(Promise!vars)
    BY <2>3, ConnectionMaps
  <2>4. CASE locking /\ (RunTask \/ SkipTask \/ FinishTask)
    BY <2>4, ExecutorMaps
  <2>5. CASE UNCHANGED vars
    <3>1. UNCHANGED <<alive, locking, value, handlers, told, queue, local, arg>>
      BY <2>5 DEF vars, lifeVars, signalVars, threadVars, histVars
    <3>2. \A d \in Connections : OwedTo(d)' = OwedTo(d)
      BY <3>1, OwedByTasks DEF OwedTo
    <3>3. Owed' = Owed
      BY <3>1, <3>2 DEF Owed
    <3> QED
      BY <3>1, <3>3 DEF Promise!vars
  <2> QED
    BY <2>1, <2>2, <2>3, <2>4, <2>5 DEF Next
<1>3. CallInv => OwedKnown
  BY OwedIsKnown
<1>4. CallInv /\ OwedKnown /\ OwedKnown' /\ [Next]_vars
          => [\A th \in Users, c \in Connections :
                 locking /\ Connect(th, c) => Promise!Subscribe(c)]_vars
  BY Subscribes
<1> QED
  BY <1>1, <1>2, <1>3, <1>4, CallInvariance, PTL
     DEF Spec, ImplementsObservable, Promise!Spec
=============================================================================
