--------------------------- MODULE CancellableWait ---------------------------
(***************************************************************************)
(* The cancellable wait of thread/posix/PosixConditionVariable.cpp over    *)
(* thread/CancellationRegistrator.h and CancellationToken: each waiter     *)
(* runs                                                                    *)
(*                                                                         *)
(*     MutexLock l(_mutex);                                                *)
(*     while (token) _cond.Wait(_mutex, token);                            *)
(*                                                                         *)
(* the loop of every worker thread of the toolkit (the task executors, the *)
(* timer, the pool), with a token of its own; all share one mutex and one  *)
(* condition variable. The handler a wait registers lives on the waiter's  *)
(* stack; a canceller calls it without holding the token's mutex, and the  *)
(* handler locks the waiters' mutex to broadcast.                          *)
(*                                                                         *)
(* A waiter in TimedWaiters waits with a TimedCancellationToken (or a      *)
(* token with a timeout): its wait may time out, and may be refused at     *)
(* registration because the time is already over.                          *)
(***************************************************************************)
EXTENDS CancellationToken

CONSTANTS
    Waiters,        \* the waiting threads; token w is the token of waiter w
    TimedWaiters,   \* the waiters whose token carries a timeout
    Nobody          \* the owner of a free mutex

ASSUME WaitersAreTokens == Waiters = Tokens
ASSUME TimedWaitersAssumption == TimedWaiters \subseteq Waiters
ASSUME ThreadsDistinct ==
    /\ Waiters \cap Cancellers = {}
    /\ Nobody \notin Waiters \cup Cancellers

VARIABLES
    owner,      \* the thread that holds _mutex, or Nobody
    waiting,    \* the waiters blocked in pthread_cond_wait
    pc,         \* where each waiter is
    result,     \* what each waiter's last Wait() returned, or will return
    lockHolds   \* the cancellers that hold _mutex around their call of Cancel()

vars == <<tokenVars, owner, waiting, pc, result, lockHolds>>

WaiterPcs ==
    {"outside", "sleep", "loop", "register", "block", "wait", "release",
     "unlock", "unregister", "waitDone", "relock", "exit"}

\* The positions in which the handler on the waiter's stack exists.
HandlerLife ==
    {"block", "wait", "release", "unlock", "unregister", "waitDone", "relock"}

\* Types, and the mutex belongs to a canceller only while it holds it on purpose.
TypeOK ==
    /\ TokenTypeOK
    /\ owner \in Waiters \cup Cancellers \cup {Nobody}
    /\ waiting \subseteq Waiters
    /\ pc \in [Waiters -> WaiterPcs]
    /\ result \in [Waiters -> {"Broadcasted", "TimedOut", "Cancelled"}]
    /\ lockHolds \subseteq Cancellers
    /\ owner \in Cancellers => owner \in lockHolds

Init ==
    /\ TokenInit
    /\ owner = Nobody
    /\ waiting = {}
    /\ pc = [w \in Waiters |-> "outside"]
    /\ result = [w \in Waiters |-> "Broadcasted"]
    /\ lockHolds = {}

Goto(w, l) == pc' = [pc EXCEPT ![w] = l]
Returns(w, r) == result' = [result EXCEPT ![w] = r]

-----------------------------------------------------------------------------
(* The waiter *)

Lock(w) ==
    /\ pc[w] = "outside"
    /\ owner = Nobody
    /\ owner' = w
    /\ Goto(w, "loop")
    /\ UNCHANGED <<tokenVars, waiting, result, lockHolds>>

\* The loop ends: the token is cancelled or, for a timed one, the time is over.
LeaveCancelled(w) ==
    /\ pc[w] = "loop"
    /\ cancelled[w] \/ w \in TimedWaiters
    /\ owner' = Nobody
    /\ Goto(w, "exit")
    /\ UNCHANGED <<tokenVars, waiting, result, lockHolds>>

\* The caller found what it waited for and goes to work without the mutex.
LeaveLoop(w) ==
    /\ pc[w] = "loop"
    /\ owner' = Nobody
    /\ Goto(w, "outside")
    /\ UNCHANGED <<tokenVars, waiting, result, lockHolds>>

\* operator bool() of the token was true: call Wait().
EnterWait(w) ==
    /\ pc[w] = "loop"
    /\ ~cancelled[w]
    /\ Goto(w, "register")
    /\ UNCHANGED <<tokenVars, owner, waiting, result, lockHolds>>

\* The constructor of CancellationHolder registers the handler.
Register(w) ==
    /\ pc[w] = "register"
    /\ TryRegister(w)
    /\ Goto(w, "block")
    /\ UNCHANGED <<owner, waiting, result, lockHolds>>

\* Registration refused, by the token or by the expired timed token around it.
RegisterRefused(w) ==
    /\ pc[w] = "register"
    /\ cancelled[w] \/ w \in TimedWaiters
    /\ Returns(w, "Cancelled")
    /\ Goto(w, "loop")
    /\ UNCHANGED <<tokenVars, owner, waiting, lockHolds>>

\* pthread_cond_wait: release the mutex and join the waiters in one step.
Block(w) ==
    /\ pc[w] = "block"
    /\ owner' = Nobody
    /\ waiting' = waiting \cup {w}
    /\ Returns(w, "Broadcasted")
    /\ Goto(w, "wait")
    /\ UNCHANGED <<tokenVars, lockHolds>>

\* pthread_cond_wait may return without a broadcast; it looks like one.
SpuriousWakeUp(w) ==
    /\ w \in waiting
    /\ waiting' = waiting \ {w}
    /\ UNCHANGED <<tokenVars, owner, pc, result, lockHolds>>

TimeOut(w) ==
    /\ w \in waiting
    /\ w \in TimedWaiters
    /\ waiting' = waiting \ {w}
    /\ Returns(w, "TimedOut")
    /\ UNCHANGED <<tokenVars, owner, pc, lockHolds>>

\* The awakened thread takes the mutex back before pthread_cond_wait returns.
Reacquire(w) ==
    /\ pc[w] = "wait"
    /\ w \notin waiting
    /\ owner = Nobody
    /\ owner' = w
    /\ Goto(w, "release")
    /\ UNCHANGED <<tokenVars, waiting, result, lockHolds>>

\* Mutated form of ReleaseFailed: Wait() returns at once and the handler dies.
ReleaseFailedAtOnce(w) ==
    /\ pc[w] = "release"
    /\ cancelled[w]
    /\ TryUnregister(w)
    /\ Returns(w, "Cancelled")
    /\ Goto(w, "loop")
    /\ UNCHANGED <<owner, waiting, lockHolds>>

\* Release() or the destructor's TryUnregister() with no cancellation: return.
ReleaseDone(w) ==
    /\ pc[w] = "release"
    /\ ~cancelled[w]
    /\ TryUnregister(w)
    /\ Goto(w, "loop")
    /\ UNCHANGED <<owner, waiting, result, lockHolds>>

\* The same, but a Cancel() has begun: the destructor must wait for its end.
\* A wait that timed out still says so.
ReleaseFailed(w) ==
    /\ pc[w] = "release"
    /\ cancelled[w]
    /\ TryUnregister(w)
    /\ Returns(w, IF result[w] = "TimedOut" THEN "TimedOut" ELSE "Cancelled")
    /\ Goto(w, "unlock")
    /\ UNCHANGED <<owner, waiting, lockHolds>>

\* MutexUnlock ul(...) of the destructor, so that the handler can take the mutex.
Unlock(w) ==
    /\ pc[w] = "unlock"
    /\ owner' = Nobody
    /\ Goto(w, "unregister")
    /\ UNCHANGED <<tokenVars, waiting, result, lockHolds>>

UnregisterWait(w) ==
    /\ pc[w] \in {"unregister", "waitDone"}
    /\ w \notin tokenWaits
    /\ UnregisterBlock(w)
    /\ Goto(w, "waitDone")
    /\ UNCHANGED <<owner, waiting, result, lockHolds>>

UnregisterReturn(w) ==
    /\ pc[w] \in {"unregister", "waitDone"}
    /\ w \notin tokenWaits
    /\ UnregisterDone(w)
    /\ Goto(w, "relock")
    /\ UNCHANGED <<owner, waiting, result, lockHolds>>

\* The destructor of MutexUnlock; the holder, and its handler, are gone.
Relock(w) ==
    /\ pc[w] = "relock"
    /\ owner = Nobody
    /\ owner' = w
    /\ Goto(w, "loop")
    /\ UNCHANGED <<tokenVars, waiting, result, lockHolds>>

\* Sleep() on the same token, outside the mutex.
Sleep(w) ==
    /\ pc[w] = "outside"
    /\ SleepBlock(w)
    /\ Goto(w, "sleep")
    /\ UNCHANGED <<owner, waiting, result, lockHolds>>

SleepReturn(w) ==
    /\ pc[w] = "sleep"
    /\ w \notin tokenWaits
    /\ Goto(w, "outside")
    /\ UNCHANGED <<tokenVars, owner, waiting, result, lockHolds>>

\* A timeout of Sleep(), or a spurious wake up in the token's condition.
WakeUpInToken(w) ==
    /\ TokenWakeUp(w)
    /\ UNCHANGED <<owner, waiting, pc, result, lockHolds>>

\* The waiter's thread takes its token back into use once it left the loop.
Reset(w) ==
    /\ pc[w] \in {"outside", "exit"}
    /\ ResetToken(w)
    /\ Goto(w, "outside")
    /\ UNCHANGED <<owner, waiting, result, lockHolds>>

-----------------------------------------------------------------------------
(* The cancellers, and whoever else broadcasts *)

CallCancel(c, w) ==
    /\ CancelCall(c, w)
    /\ UNCHANGED <<owner, waiting, pc, result, lockHolds>>

\* The mutex is recursive: a caller that holds it already may cancel.
CallCancelLocked(c, w) ==
    /\ owner = Nobody
    /\ owner' = c
    /\ lockHolds' = lockHolds \cup {c}
    /\ CancelCall(c, w)
    /\ UNCHANGED <<waiting, pc, result>>

BeginCancel(c) ==
    /\ CancelBegin(c) \/ CancelAgain(c)
    /\ UNCHANGED <<owner, waiting, pc, result, lockHolds>>

\* Mutated form of CallHandler: the handler broadcasts without the mutex.
CallHandlerUnlocked(c) ==
    /\ CancelCalled(c)
    /\ waiting' = {}
    /\ UNCHANGED <<owner, pc, result, lockHolds>>

\* CancellationHandler::Cancel(): lock the waiters' mutex and broadcast.
CallHandler(c) ==
    /\ owner \in {Nobody, c}
    /\ CancelCalled(c)
    /\ waiting' = {}
    /\ UNCHANGED <<owner, pc, result, lockHolds>>

FinishCancel(c) ==
    /\ CancelFinish(c)
    /\ UNCHANGED <<owner, waiting, pc, result, lockHolds>>

ReturnFromCancel(c) ==
    /\ CancelReturn(c)
    /\ owner' = IF c \in lockHolds THEN Nobody ELSE owner
    /\ lockHolds' = lockHolds \ {c}
    /\ UNCHANGED <<waiting, pc, result>>

\* Another user of the condition variable broadcasts under the mutex.
Broadcast ==
    /\ owner = Nobody
    /\ waiting' = {}
    /\ UNCHANGED <<tokenVars, owner, pc, result, lockHolds>>

-----------------------------------------------------------------------------

\* The steps of a waiter between its call of Wait() and the return from it.
WaiterStep(w) ==
    \/ Register(w) \/ RegisterRefused(w) \/ Block(w) \/ Reacquire(w)
    \/ ReleaseDone(w) \/ ReleaseFailed(w) \/ Unlock(w)
    \/ UnregisterWait(w) \/ UnregisterReturn(w) \/ Relock(w)

WaiterChoice(w) ==
    \/ Lock(w) \/ LeaveCancelled(w) \/ LeaveLoop(w) \/ EnterWait(w)
    \/ Sleep(w) \/ SleepReturn(w) \/ Reset(w)

WaiterDisturbance(w) ==
    SpuriousWakeUp(w) \/ TimeOut(w) \/ WakeUpInToken(w)

CancellerStep(c) ==
    BeginCancel(c) \/ CallHandler(c) \/ FinishCancel(c) \/ ReturnFromCancel(c)

Next ==
    \/ \E w \in Waiters : WaiterStep(w) \/ WaiterChoice(w) \/ WaiterDisturbance(w)
    \/ \E c \in Cancellers, w \in Waiters : CallCancel(c, w) \/ CallCancelLocked(c, w)
    \/ \E c \in Cancellers : CancellerStep(c)
    \/ Broadcast

Spec == Init /\ [][Next]_vars

(***************************************************************************)
(* A running thread takes its next step, and a thread that waits for the   *)
(* mutex gets it at some time when it keeps being free: weak fairness for  *)
(* the steps of a running thread, strong for those that take the mutex.    *)
(* A waiter does not go round its loop for ever with the mutex held: a     *)
(* timed token that refuses a handler has expired, and the loop tests it.  *)
(* Nobody has to call Wait(), Cancel() or Broadcast().                     *)
(***************************************************************************)
Fairness ==
    /\ \A w \in Waiters :
        /\ WF_vars(WaiterStep(w))
        /\ SF_vars(LeaveCancelled(w) \/ LeaveLoop(w))
        /\ SF_vars(Reacquire(w))
        /\ SF_vars(Relock(w))
        /\ WF_vars(SleepReturn(w))
    /\ \A c \in Cancellers :
        /\ WF_vars(CancellerStep(c))
        /\ SF_vars(CallHandler(c))

FairSpec == Spec /\ Fairness

-----------------------------------------------------------------------------
(* Properties *)

(***************************************************************************)
(* No canceller calls a handler whose Wait() has returned: from the moment *)
(* Cancel() read the handler to the end of the call, the waiter is still   *)
(* inside the wait that registered it, and not yet past Unregister().      *)
(***************************************************************************)
HandlerAlive ==
    \A c \in Cancellers :
        cancelPc[c] = "call" => pc[cancelTarget[c]] \in HandlerLife \ {"relock"}

(***************************************************************************)
(* No cancellation is lost: once Cancel() is complete nobody is left       *)
(* blocked on account of that token, neither in the condition variable nor *)
(* in the token's own condition (Sleep and Unregister).                    *)
(***************************************************************************)
NoLostCancel ==
    \A w \in Waiters : cancelDone[w] => w \notin waiting \cup tokenWaits

\* A waiter whose token was cancelled leaves Wait() and Sleep().
CancelEndsWait ==
    \A w \in Waiters :
        (cancelled[w] /\ pc[w] \in HandlerLife \cup {"sleep"})
            ~> (pc[w] \notin HandlerLife \cup {"sleep"})

CancelReturns ==
    \A c \in Cancellers : (cancelPc[c] # "idle") ~> (cancelPc[c] = "idle")

(***************************************************************************)
(* A cancelled wait ends and so does Cancel(), whatever the waiter does,   *)
(* although each of them waits for the other: Cancel()'s handler for the   *)
(* waiter's mutex, the leaving waiter for the end of Cancel().             *)
(***************************************************************************)
NobodyWaitsForEver == CancelEndsWait /\ CancelReturns

=============================================================================
