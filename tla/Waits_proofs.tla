----------------------------- MODULE Waits_proofs ------------------------------
(***************************************************************************)
(* Proofs about Waits, for any number of waiters and cancellers.           *)
(*                                                                         *)
(* CancellableWait: types, HandlerAlive and NoLostCancel, which is not     *)
(* inductive. A canceller that is about to call the handler is kept apart  *)
(* from a waiter that is about to return by the token's two flags:         *)
(* Cancelling ties the canceller's position to them, and OneCanceller says *)
(* that only one canceller completes a cancellation, so nobody else can    *)
(* raise cancelDone under the call. NoLostCancel needs to know why a       *)
(* waiter may block on a cancelled token: WakerComing says that then the   *)
(* handler call is still to come.                                          *)
(*                                                                         *)
(* JoiningWait: the handler that lies in two tokens is called only while   *)
(* it exists, and a waiter that is blocked can still be woken. What the    *)
(* joined token remembers (registered) is tied to the waiter's position by *)
(* Remembered and to the tokens by JoinedHandlers; CallsRegistered says    *)
(* that a token whose canceller is about to call is remembered, so the     *)
(* waiter is not past the withdrawal from it. JoinedWakerComing says of    *)
(* each token that took the handler, not of both, that a cancellation in   *)
(* it will call: just what the joined wait can promise.                    *)
(***************************************************************************)
EXTENDS Waits, TLAPS

Active == {"call", "finish"}

MutexInv ==
    /\ \A w \in Waiters :
           pc[w] \in {"loop", "register", "block", "release", "unlock"} <=> owner = w
    /\ \A c \in Cancellers : c \in lockHolds <=> owner = c

HandlerInv ==
    \A w \in Waiters : cancelHandler[w] <=> pc[w] \in {"block", "wait", "release"}

WaitInv ==
    /\ \A w \in waiting : pc[w] = "wait"
    /\ \A w \in tokenWaits : pc[w] \in {"sleep", "waitDone"} /\ ~cancelDone[w]

Cancelling ==
    /\ \A w \in Waiters : cancelDone[w] => cancelled[w]
    /\ \A c \in Cancellers :
           cancelPc[c] \in Active =>
               cancelled[cancelTarget[c]] /\ ~cancelDone[cancelTarget[c]]

OneCanceller ==
    \A c, d \in Cancellers :
        (/\ cancelPc[c] \in Active
         /\ cancelPc[d] \in Active
         /\ cancelTarget[c] = cancelTarget[d]) => c = d

WakerComing ==
    \A w \in Waiters :
        (cancelled[w] /\ (w \in waiting \/ pc[w] = "block")) =>
            \E c \in Cancellers : cancelPc[c] = "call" /\ cancelTarget[c] = w

IInv ==
    /\ TypeOK
    /\ MutexInv
    /\ HandlerInv
    /\ WaitInv
    /\ Cancelling
    /\ OneCanceller
    /\ HandlerAlive
    /\ WakerComing

-----------------------------------------------------------------------------

\* The initial states satisfy the inductive invariant.
LEMMA InitInv == Init => IInv
  BY WaitersAreTokens, ThreadsDistinct
     DEF Init, TokenInit, IInv, TypeOK, TokenTypeOK, WaiterPcs, MutexInv, HandlerInv,
         WaitInv, Cancelling, OneCanceller, HandlerAlive, WakerComing, Active

\* The steps of a waiter inside Wait() preserve the inductive invariant.
LEMMA WaiterStepInv ==
  ASSUME IInv, NEW w \in Waiters, WaiterStep(w)
  PROVE  IInv'
<1> USE WaitersAreTokens, ThreadsDistinct
    DEF IInv, TypeOK, TokenTypeOK, WaiterPcs, MutexInv, HandlerInv, WaitInv, Cancelling,
        OneCanceller, HandlerAlive, HandlerLife, WakerComing, Active, Goto, Returns,
        tokenVars
<1>1. CASE Register(w)
  BY <1>1 DEF Register, TryRegister
<1>2. CASE RegisterRefused(w)
  BY <1>2 DEF RegisterRefused
<1>3. CASE Block(w)
  BY <1>3 DEF Block
<1>4. CASE Reacquire(w)
  BY <1>4 DEF Reacquire
<1>5. CASE ReleaseDone(w)
  BY <1>5 DEF ReleaseDone, TryUnregister
<1>6. CASE ReleaseFailed(w)
  BY <1>6 DEF ReleaseFailed, TryUnregister
<1>7. CASE Unlock(w)
  BY <1>7 DEF Unlock
<1>8. CASE UnregisterWait(w)
  BY <1>8 DEF UnregisterWait, UnregisterBlock, Unregistered
<1>9. CASE UnregisterReturn(w)
  BY <1>9 DEF UnregisterReturn, UnregisterDone, Unregistered
<1>10. CASE Relock(w)
  BY <1>10 DEF Relock
<1> QED
  BY <1>1, <1>2, <1>3, <1>4, <1>5, <1>6, <1>7, <1>8, <1>9, <1>10, WaiterStep(w)
     DEF WaiterStep

\* So do the waiter's own choices and what may disturb its waits.
LEMMA WaiterOtherInv ==
  ASSUME IInv, NEW w \in Waiters, WaiterChoice(w) \/ WaiterDisturbance(w)
  PROVE  IInv'
<1> USE WaitersAreTokens, ThreadsDistinct
    DEF IInv, TypeOK, TokenTypeOK, WaiterPcs, MutexInv, HandlerInv, WaitInv, Cancelling,
        OneCanceller, HandlerAlive, HandlerLife, WakerComing, Active, Goto, Returns,
        tokenVars
<1>1. CASE Lock(w)
  BY <1>1 DEF Lock
<1>2. CASE LeaveCancelled(w)
  BY <1>2 DEF LeaveCancelled
<1>3. CASE LeaveLoop(w)
  BY <1>3 DEF LeaveLoop
<1>4. CASE EnterWait(w)
  BY <1>4 DEF EnterWait
<1>5. CASE Sleep(w)
  BY <1>5 DEF Sleep, SleepBlock
<1>6. CASE SleepReturn(w)
  BY <1>6 DEF SleepReturn
<1>7. CASE Reset(w)
  BY <1>7 DEF Reset, ResetToken
<1>8. CASE SpuriousWakeUp(w)
  BY <1>8 DEF SpuriousWakeUp
<1>9. CASE TimeOut(w)
  BY <1>9 DEF TimeOut
<1>10. CASE WakeUpInToken(w)
  BY <1>10 DEF WakeUpInToken, TokenWakeUp
<1> QED
  BY <1>1, <1>2, <1>3, <1>4, <1>5, <1>6, <1>7, <1>8, <1>9, <1>10,
     WaiterChoice(w) \/ WaiterDisturbance(w)
     DEF WaiterChoice, WaiterDisturbance

\* The caller of Cancel() takes the mutex, or not, and names a token.
LEMMA CancelCallInv ==
  ASSUME IInv, NEW c \in Cancellers, NEW w \in Waiters,
         CallCancel(c, w) \/ CallCancelLocked(c, w)
  PROVE  IInv'
<1> USE WaitersAreTokens, ThreadsDistinct
    DEF IInv, TypeOK, TokenTypeOK, WaiterPcs, MutexInv, HandlerInv, WaitInv, Cancelling,
        OneCanceller, HandlerAlive, HandlerLife, WakerComing, Active, CancelCall
<1>1. CASE CallCancel(c, w)
  BY <1>1 DEF CallCancel
<1>2. CASE CallCancelLocked(c, w)
  BY <1>2 DEF CallCancelLocked
<1> QED
  BY <1>1, <1>2, CallCancel(c, w) \/ CallCancelLocked(c, w)

\* The steps of Cancel() preserve the inductive invariant.
LEMMA CancellerStepInv ==
  ASSUME IInv, NEW c \in Cancellers, CancellerStep(c)
  PROVE  IInv'
<1> USE WaitersAreTokens, ThreadsDistinct
    DEF IInv, TypeOK, TokenTypeOK, WaiterPcs, MutexInv, HandlerInv, WaitInv, Cancelling,
        OneCanceller, HandlerAlive, HandlerLife, WakerComing, Active
<1>1. CASE BeginCancel(c)
  <2>1. CASE CancelBegin(c)
    BY <1>1, <2>1 DEF BeginCancel, CancelBegin
  <2>2. CASE CancelAgain(c)
    BY <1>1, <2>2 DEF BeginCancel, CancelAgain
  <2> QED
    BY <1>1, <2>1, <2>2 DEF BeginCancel
<1>2. CASE CallHandler(c)
  BY <1>2 DEF CallHandler, CancelCalled
<1>3. CASE FinishCancel(c)
  BY <1>3 DEF FinishCancel, CancelFinish
<1>4. CASE ReturnFromCancel(c)
  BY <1>4 DEF ReturnFromCancel, CancelReturn
<1> QED
  BY <1>1, <1>2, <1>3, <1>4, CancellerStep(c) DEF CancellerStep

\* Every step, and every stutter, preserves the inductive invariant.
LEMMA NextInv == IInv /\ [Next]_vars => IInv'
<1> SUFFICES ASSUME IInv, [Next]_vars PROVE IInv'
  OBVIOUS
<1>1. CASE \E w \in Waiters : WaiterStep(w) \/ WaiterChoice(w) \/ WaiterDisturbance(w)
  BY <1>1, WaiterStepInv, WaiterOtherInv
<1>2. CASE \E c \in Cancellers, w \in Waiters : CallCancel(c, w) \/ CallCancelLocked(c, w)
  BY <1>2, CancelCallInv
<1>3. CASE \E c \in Cancellers : CancellerStep(c)
  BY <1>3, CancellerStepInv
<1>4. CASE Broadcast
  BY <1>4 DEF Broadcast, tokenVars, IInv, TypeOK, TokenTypeOK, MutexInv, HandlerInv,
      WaitInv, Cancelling, OneCanceller, HandlerAlive, WakerComing
<1>5. CASE UNCHANGED vars
  BY <1>5 DEF vars, tokenVars, IInv, TypeOK, TokenTypeOK, MutexInv, HandlerInv,
      WaitInv, Cancelling, OneCanceller, HandlerAlive, WakerComing
<1> QED
  BY <1>1, <1>2, <1>3, <1>4, <1>5 DEF Next

\* The invariant always holds.
LEMMA Invariance == Spec => []IInv
<1>1. QED
  BY InitInv, NextInv, PTL DEF Spec

-----------------------------------------------------------------------------
(* JoiningWait *)

JoinedLock ==
    jPc \in {"loop", "first", "second", "block", "tryFirst", "trySecond", "unlock"} =>
        jLocked = TRUE

\* Where the waiter may be while the joined token remembers a token ...
Remembered ==
    /\ First \in jRegistered =>
           jPc \in {"second", "block", "wait", "tryFirst", "trySecond", "unlock",
                  "unFirst"}
    /\ Second \in jRegistered =>
           jPc \in {"block", "wait", "tryFirst", "trySecond", "unlock", "unFirst",
                  "unSecond"}
    /\ jPc \in {"block", "wait"} => jRegistered # {}

\* ... and where the token still has the handler.
JoinedHandlers ==
    \A t \in jRegistered :
        jPc \in {"second", "block", "wait", "tryFirst"} => jCancelHandler[t]

JoinedCancelling ==
    /\ \A t \in JoinedTokens : jCancelDone[t] => jCancelled[t]
    /\ \A c \in Cancellers :
           jCancelPc[c] \in Active =>
               jCancelled[jCancelTarget[c]] /\ ~jCancelDone[jCancelTarget[c]]

OneJoinedCanceller ==
    \A c, d \in Cancellers :
        (/\ jCancelPc[c] \in Active
         /\ jCancelPc[d] \in Active
         /\ jCancelTarget[c] = jCancelTarget[d]) => c = d

CallsRegistered ==
    \A c \in Cancellers : jCancelPc[c] = "call" => jCancelTarget[c] \in jRegistered

JoinedWakerComing ==
    /\ jWaiting = TRUE => jPc = "wait"
    /\ (jWaiting = TRUE \/ jPc \in {"second", "block"}) =>
           \A t \in jRegistered : jCancelled[t] =>
               \E c \in Cancellers : jCancelPc[c] = "call" /\ jCancelTarget[c] = t

JoinedInv ==
    /\ J!TypeOK
    /\ JoinedLock
    /\ Remembered
    /\ JoinedHandlers
    /\ JoinedCancelling
    /\ OneJoinedCanceller
    /\ CallsRegistered
    /\ JoinedWakerComing

-----------------------------------------------------------------------------

\* The initial states satisfy the inductive invariant.
LEMMA JoinedInitInv == J!Init => JoinedInv
  BY DEF J!Init, J!TokenInit, JoinedInv, J!TypeOK, J!TokenTypeOK, J!Pcs, JoinedLock,
     Remembered, JoinedHandlers, JoinedCancelling, OneJoinedCanceller,
     CallsRegistered, JoinedWakerComing, Active

\* The steps of the waiter by what they do to the tokens, and those of Cancel().
Moves ==
    \/ J!EnterWait \/ J!LeaveLoop \/ J!Block \/ J!Reacquire
    \/ J!Unlock \/ J!Relock \/ J!WakeUp
Registers == J!RegisterFirst \/ J!RegisterSecond
Releases == J!ReleaseFirst \/ J!ReleaseSecond
Unregisters == J!UnregisterFirst \/ J!UnregisterSecond
Cancels(c) == J!CancellerStep(c) \/ \E t \in JoinedTokens : J!CallCancel(c, t)

\* Every step keeps the types, and what the tokens hold is remembered.
LEMMA TypesStep ==
  ASSUME J!TypeOK, Remembered, [J!Next]_J!vars
  PROVE  J!TypeOK'
<1> USE JoiningAssumption
    DEF J!TwoTokens, JoinedTokens, J!TypeOK, J!TokenTypeOK, J!Pcs, Remembered
<1>1. CASE Moves
  BY <1>1 DEF Moves, J!EnterWait, J!LeaveLoop, J!Block, J!Reacquire, J!Unlock,
     J!Relock, J!WakeUp, J!tokenVars
<1>2. CASE Registers
  BY <1>2 DEF Registers, J!RegisterFirst, J!RegisterSecond, J!JoinTryRegister,
     J!TryRegister, J!tokenVars
<1>3. CASE Releases
  <2>1. CASE J!ReleaseFirst
    BY <2>1 DEF J!ReleaseFirst, J!JoinTryUnregister, J!TryUnregister, J!tokenVars
  <2>2. CASE J!ReleaseSecond
    BY <2>2 DEF J!ReleaseSecond, J!JoinTryUnregister, J!TryUnregister, J!tokenVars
  <2> QED
    BY <1>3, <2>1, <2>2 DEF Releases
<1>4. CASE Unregisters
  <2>1. CASE J!UnregisterFirst
    BY <2>1 DEF J!UnregisterFirst, J!JoinUnregister, J!UnregisterDone, J!Unregistered,
       J!tokenVars
  <2>2. CASE J!UnregisterSecond
    <3>1. CASE Second \in jRegistered
      <4>1. /\ jRegistered' = jRegistered \ {Second}
            /\ jCancelHandler' = [jCancelHandler EXCEPT ![Second] = FALSE]
            /\ jPc' = "relock"
            /\ UNCHANGED <<jCancelled, jCancelDone, jTokenWaits, jCancelPc, jCancelTarget,
                           jLocked, jWaiting>>
        BY <2>2, <3>1 DEF J!UnregisterSecond, J!JoinUnregister, J!UnregisterDone
      <4> QED
        BY <4>1
    <3>2. CASE Second \notin jRegistered
      BY <2>2, <3>2 DEF J!UnregisterSecond, J!JoinUnregister, J!tokenVars
    <3> QED
      BY <3>1, <3>2
  <2> QED
    BY <1>4, <2>1, <2>2 DEF Unregisters
<1>5. ASSUME NEW c \in Cancellers, Cancels(c) PROVE J!TypeOK'
  <2>1. CASE \E t \in JoinedTokens : J!CallCancel(c, t)
    BY <2>1 DEF J!CallCancel, J!CancelCall
  <2>2. CASE J!BeginCancel(c)
    <3> USE DEF J!BeginCancel
    <3> HIDE JoiningAssumption DEF JoinedTokens, J!Pcs, Remembered
    <3>1. CASE J!CancelBegin(c)
      BY <2>2, <3>1 DEF J!CancelBegin
    <3>2. CASE J!CancelAgain(c)
      BY <2>2, <3>2 DEF J!CancelAgain
    <3> QED
      BY <2>2, <3>1, <3>2
  <2>3. CASE J!CallHandler(c) \/ J!FinishCancel(c)
    BY <2>3 DEF J!CallHandler, J!CancelCalled, J!FinishCancel, J!CancelFinish,
       J!CancelReturn
  <2> QED
    BY <1>5, <2>1, <2>2, <2>3 DEF Cancels, J!CancellerStep
<1>6. CASE UNCHANGED J!vars
  BY <1>6 DEF J!vars, J!tokenVars
<1> QED
  BY <1>1, <1>2, <1>3, <1>4, <1>5, <1>6 DEF J!Next, J!WaiterStep, Moves, Registers,
     Releases, Unregisters, Cancels

\* The waiter holds the mutex outside of the wait.
LEMMA LockStep ==
  ASSUME J!TypeOK, JoinedLock, [J!Next]_J!vars
  PROVE  JoinedLock'
<1> USE JoiningAssumption
    DEF J!TwoTokens, JoinedTokens, J!TypeOK, J!Pcs, JoinedLock
<1>1. CASE Moves
  BY <1>1 DEF Moves, J!EnterWait, J!LeaveLoop, J!Block, J!Reacquire, J!Unlock,
     J!Relock, J!WakeUp, J!tokenVars
<1>2. CASE Registers
  BY <1>2 DEF Registers, J!RegisterFirst, J!RegisterSecond, J!JoinTryRegister,
     J!TryRegister, J!tokenVars
<1>3. CASE Releases
  BY <1>3 DEF Releases, J!ReleaseFirst, J!ReleaseSecond, J!JoinTryUnregister,
     J!TryUnregister, J!tokenVars
<1>4. CASE Unregisters
  BY <1>4 DEF Unregisters, J!UnregisterFirst, J!UnregisterSecond, J!JoinUnregister,
     J!UnregisterDone, J!Unregistered, J!tokenVars
<1>5. ASSUME NEW c \in Cancellers, Cancels(c) PROVE JoinedLock'
  BY <1>5 DEF Cancels, J!CancellerStep, J!CallCancel, J!CancelCall, J!BeginCancel,
     J!CancelBegin, J!CancelAgain, J!CallHandler, J!CancelCalled, J!FinishCancel,
     J!CancelFinish, J!CancelReturn
<1>6. CASE UNCHANGED J!vars
  BY <1>6 DEF J!vars, J!tokenVars
<1> QED
  BY <1>1, <1>2, <1>3, <1>4, <1>5, <1>6 DEF J!Next, J!WaiterStep, Moves, Registers,
     Releases, Unregisters, Cancels

\* What is remembered stays tied to the waiter's position.
LEMMA RememberedStep ==
  ASSUME J!TypeOK, Remembered, [J!Next]_J!vars
  PROVE  Remembered'
<1> USE JoiningAssumption
    DEF J!TwoTokens, JoinedTokens, J!TypeOK, J!Pcs, Remembered
<1>1. CASE Moves
  BY <1>1 DEF Moves, J!EnterWait, J!LeaveLoop, J!Block, J!Reacquire, J!Unlock,
     J!Relock, J!WakeUp, J!tokenVars
<1>2. CASE Registers
  BY <1>2 DEF Registers, J!RegisterFirst, J!RegisterSecond, J!JoinTryRegister,
     J!TryRegister, J!tokenVars
<1>3. CASE Releases
  BY <1>3 DEF Releases, J!ReleaseFirst, J!ReleaseSecond, J!JoinTryUnregister,
     J!TryUnregister, J!tokenVars
<1>4. CASE Unregisters
  BY <1>4 DEF Unregisters, J!UnregisterFirst, J!UnregisterSecond, J!JoinUnregister,
     J!UnregisterDone, J!Unregistered, J!tokenVars
<1>5. ASSUME NEW c \in Cancellers, Cancels(c) PROVE Remembered'
  BY <1>5 DEF Cancels, J!CancellerStep, J!CallCancel, J!CancelCall, J!BeginCancel,
     J!CancelBegin, J!CancelAgain, J!CallHandler, J!CancelCalled, J!FinishCancel,
     J!CancelFinish, J!CancelReturn
<1>6. CASE UNCHANGED J!vars
  BY <1>6 DEF J!vars, J!tokenVars
<1> QED
  BY <1>1, <1>2, <1>3, <1>4, <1>5, <1>6 DEF J!Next, J!WaiterStep, Moves, Registers,
     Releases, Unregisters, Cancels

\* A token that took the handler keeps it while the waiter may block.
LEMMA HandlersStep ==
  ASSUME J!TypeOK, Remembered, JoinedHandlers, [J!Next]_J!vars
  PROVE  JoinedHandlers'
<1> USE JoiningAssumption
    DEF J!TwoTokens, JoinedTokens, J!TypeOK, J!TokenTypeOK, J!Pcs, Remembered,
        JoinedHandlers
<1>1. CASE Moves
  BY <1>1 DEF Moves, J!EnterWait, J!LeaveLoop, J!Block, J!Reacquire, J!Unlock,
     J!Relock, J!WakeUp, J!tokenVars
<1>2. CASE Registers
  BY <1>2 DEF Registers, J!RegisterFirst, J!RegisterSecond, J!JoinTryRegister,
     J!TryRegister, J!tokenVars
<1>3. CASE Releases
  BY <1>3 DEF Releases, J!ReleaseFirst, J!ReleaseSecond, J!JoinTryUnregister,
     J!TryUnregister, J!tokenVars
<1>4. CASE Unregisters
  BY <1>4 DEF Unregisters, J!UnregisterFirst, J!UnregisterSecond, J!JoinUnregister,
     J!UnregisterDone, J!Unregistered, J!tokenVars
<1>5. ASSUME NEW c \in Cancellers, Cancels(c) PROVE JoinedHandlers'
  BY <1>5 DEF Cancels, J!CancellerStep, J!CallCancel, J!CancelCall, J!BeginCancel,
     J!CancelBegin, J!CancelAgain, J!CallHandler, J!CancelCalled, J!FinishCancel,
     J!CancelFinish, J!CancelReturn
<1>6. CASE UNCHANGED J!vars
  BY <1>6 DEF J!vars, J!tokenVars
<1> QED
  BY <1>1, <1>2, <1>3, <1>4, <1>5, <1>6 DEF J!Next, J!WaiterStep, Moves, Registers,
     Releases, Unregisters, Cancels

\* One canceller at most completes a cancellation, and only a begun one.
LEMMA CancelStep ==
  ASSUME J!TypeOK, JoinedCancelling, OneJoinedCanceller,
     [J!Next]_J!vars
  PROVE  (JoinedCancelling /\ OneJoinedCanceller)'
<1> USE JoiningAssumption
    DEF J!TwoTokens, JoinedTokens, J!TypeOK, J!TokenTypeOK, JoinedCancelling,
        OneJoinedCanceller, Active
<1>1. CASE Moves
  BY <1>1 DEF Moves, J!EnterWait, J!LeaveLoop, J!Block, J!Reacquire, J!Unlock,
     J!Relock, J!WakeUp, J!tokenVars
<1>2. CASE Registers
  BY <1>2 DEF Registers, J!RegisterFirst, J!RegisterSecond, J!JoinTryRegister,
     J!TryRegister, J!tokenVars
<1>3. CASE Releases
  BY <1>3 DEF Releases, J!ReleaseFirst, J!ReleaseSecond, J!JoinTryUnregister,
     J!TryUnregister, J!tokenVars
<1>4. CASE Unregisters
  BY <1>4 DEF Unregisters, J!UnregisterFirst, J!UnregisterSecond, J!JoinUnregister,
     J!UnregisterDone, J!Unregistered, J!tokenVars
<1>5. ASSUME NEW c \in Cancellers, Cancels(c)
      PROVE  (JoinedCancelling /\ OneJoinedCanceller)'
  BY <1>5 DEF Cancels, J!CancellerStep, J!CallCancel, J!CancelCall, J!BeginCancel,
     J!CancelBegin, J!CancelAgain, J!CallHandler, J!CancelCalled, J!FinishCancel,
     J!CancelFinish, J!CancelReturn
<1>6. CASE UNCHANGED J!vars
  BY <1>6 DEF J!vars, J!tokenVars
<1> QED
  BY <1>1, <1>2, <1>3, <1>4, <1>5, <1>6 DEF J!Next, J!WaiterStep, Moves, Registers,
     Releases, Unregisters, Cancels

\* A token whose canceller is about to call is remembered.
LEMMA CallsStep ==
  ASSUME J!TypeOK, Remembered, JoinedHandlers, JoinedCancelling,
     CallsRegistered, [J!Next]_J!vars
  PROVE  CallsRegistered'
<1> USE JoiningAssumption
    DEF J!TwoTokens, JoinedTokens, J!TypeOK, J!TokenTypeOK, J!Pcs, Remembered,
        JoinedHandlers, JoinedCancelling, CallsRegistered, Active
<1>1. CASE Moves
  BY <1>1 DEF Moves, J!EnterWait, J!LeaveLoop, J!Block, J!Reacquire, J!Unlock,
     J!Relock, J!WakeUp, J!tokenVars
<1>2. CASE Registers
  BY <1>2 DEF Registers, J!RegisterFirst, J!RegisterSecond, J!JoinTryRegister,
     J!TryRegister, J!tokenVars
<1>3. CASE Releases
  BY <1>3 DEF Releases, J!ReleaseFirst, J!ReleaseSecond, J!JoinTryUnregister,
     J!TryUnregister, J!tokenVars
<1>4. CASE Unregisters
  BY <1>4 DEF Unregisters, J!UnregisterFirst, J!UnregisterSecond, J!JoinUnregister,
     J!UnregisterDone, J!Unregistered, J!tokenVars
<1>5. ASSUME NEW c \in Cancellers, Cancels(c) PROVE CallsRegistered'
  BY <1>5 DEF Cancels, J!CancellerStep, J!CallCancel, J!CancelCall, J!BeginCancel,
     J!CancelBegin, J!CancelAgain, J!CallHandler, J!CancelCalled, J!FinishCancel,
     J!CancelFinish, J!CancelReturn
<1>6. CASE UNCHANGED J!vars
  BY <1>6 DEF J!vars, J!tokenVars
<1> QED
  BY <1>1, <1>2, <1>3, <1>4, <1>5, <1>6 DEF J!Next, J!WaiterStep, Moves, Registers,
     Releases, Unregisters, Cancels

\* A cancellation of a token that took the handler is going to call it.
LEMMA WakerStep ==
  ASSUME J!TypeOK, JoinedLock, Remembered, JoinedHandlers,
     JoinedCancelling, JoinedWakerComing, [J!Next]_J!vars
  PROVE  JoinedWakerComing'
<1> USE JoiningAssumption
    DEF J!TwoTokens, JoinedTokens, J!TypeOK, J!TokenTypeOK, J!Pcs, JoinedLock,
        Remembered, JoinedHandlers, JoinedCancelling, JoinedWakerComing, Active
<1>1. CASE Moves
  BY <1>1 DEF Moves, J!EnterWait, J!LeaveLoop, J!Block, J!Reacquire, J!Unlock,
     J!Relock, J!WakeUp, J!tokenVars
<1>2. CASE Registers
  BY <1>2 DEF Registers, J!RegisterFirst, J!RegisterSecond, J!JoinTryRegister,
     J!TryRegister, J!tokenVars
<1>3. CASE Releases
  BY <1>3 DEF Releases, J!ReleaseFirst, J!ReleaseSecond, J!JoinTryUnregister,
     J!TryUnregister, J!tokenVars
<1>4. CASE Unregisters
  BY <1>4 DEF Unregisters, J!UnregisterFirst, J!UnregisterSecond, J!JoinUnregister,
     J!UnregisterDone, J!Unregistered, J!tokenVars
<1>5. ASSUME NEW c \in Cancellers, Cancels(c) PROVE JoinedWakerComing'
  BY <1>5 DEF Cancels, J!CancellerStep, J!CallCancel, J!CancelCall, J!BeginCancel,
     J!CancelBegin, J!CancelAgain, J!CallHandler, J!CancelCalled, J!FinishCancel,
     J!CancelFinish, J!CancelReturn
<1>6. CASE UNCHANGED J!vars
  BY <1>6 DEF J!vars, J!tokenVars
<1> QED
  BY <1>1, <1>2, <1>3, <1>4, <1>5, <1>6 DEF J!Next, J!WaiterStep, Moves, Registers,
     Releases, Unregisters, Cancels

\* Every step preserves the inductive invariant.
LEMMA JoinedNextInv ==
  ASSUME JoinedInv, [J!Next]_J!vars
  PROVE  JoinedInv'
  BY TypesStep, LockStep, RememberedStep, HandlersStep, CancelStep, CallsStep,
     WakerStep DEF JoinedInv

\* The two properties follow from it.
LEMMA InvIsSafe ==
  ASSUME JoinedInv
  PROVE  J!JoinedWaitIsSafe
<1>1. J!JoinedHandlerAlive
  BY JoiningAssumption DEF J!TwoTokens, JoinedTokens, JoinedInv, J!JoinedHandlerAlive,
     J!HandlerLife, J!Pcs,
     Remembered, CallsRegistered, J!TypeOK
<1>2. jWaiting => \E t \in jRegistered : ~jCancelDone[t]
  <2> SUFFICES ASSUME jWaiting PROVE \E t \in jRegistered : ~jCancelDone[t]
    OBVIOUS
  <2>1. PICK t \in jRegistered : TRUE
    BY DEF JoinedInv, Remembered, JoinedWakerComing
  <2>2. ~jCancelDone[t]
    BY <2>1 DEF JoinedInv, J!TypeOK, J!TokenTypeOK, JoinedCancelling,
       JoinedWakerComing, Active
  <2> QED
    BY <2>2
<1> QED
  BY <1>1, <1>2 DEF J!JoinedWaitIsSafe, J!SomeCancelCanWake, JoinedInv

\* The invariant of the joined wait always holds.
LEMMA JoinedInvariance == J!Spec => []JoinedInv
<1>1. J!Init => JoinedInv
  BY JoinedInitInv
<1>2. JoinedInv /\ [J!Next]_J!vars => JoinedInv'
  BY JoinedNextInv
<1> QED
  BY <1>1, <1>2, PTL DEF J!Spec

-----------------------------------------------------------------------------
(* Whichever token a wait is given *)

\* A wait with either token is a behaviour of both waits, one of which rests.
LEMMA EitherWait == WaitsSpec => Spec /\ J!Spec
<1>1. WaitsInit => Init /\ J!Init
  BY DEF WaitsInit
<1>2. [WaitsNext]_allVars => [Next]_vars /\ [J!Next]_J!vars
  BY DEF WaitsNext, allVars, joiningVars, J!vars, J!tokenVars
<1> QED
  BY <1>1, <1>2, PTL DEF WaitsSpec, Spec, J!Spec


\* Every reachable state is well typed, and a canceller owns the mutex of the
\* waiters only while its caller took it around Cancel().
THEOREM TypeCorrect == WaitsSpec => []TypeOK
<1>1. IInv => TypeOK
  BY DEF IInv
<1> QED
  BY <1>1, Invariance, EitherWait, PTL

\* Cancel() never calls the handler of a Wait() that has returned: the handler
\* is an object on the waiter's stack.
THEOREM HandlerAliveAlways == WaitsSpec => []HandlerAlive
<1>1. IInv => HandlerAlive
  BY DEF IInv
<1> QED
  BY <1>1, Invariance, EitherWait, PTL

\* When Cancel() is complete, its token's user is blocked neither in the
\* condition variable nor in Sleep() or Unregister().
THEOREM NoLostCancelAlways == WaitsSpec => []NoLostCancel
<1>1. IInv => NoLostCancel
  BY WaitersAreTokens
     DEF IInv, NoLostCancel, WaitInv, Cancelling, WakerComing, Active
<1> QED
  BY <1>1, Invariance, EitherWait, PTL

(***************************************************************************)
(* The handler that PosixConditionVariable::Wait registers through a       *)
(* JoiningCancellationToken is never called after the wait has returned,   *)
(* and whoever is blocked has it in a token whose cancellation is not      *)
(* complete (thread/JoiningCancellationToken.cpp:53-77).                   *)
(***************************************************************************)
THEOREM JoinedWaitIsAlwaysSafe == WaitsSpec => []JoinedWaitIsSafe
<1>1. JoinedInv => JoinedWaitIsSafe
  BY InvIsSafe DEF JoinedWaitIsSafe
<1> QED
  BY <1>1, JoinedInvariance, EitherWait, PTL
=============================================================================
