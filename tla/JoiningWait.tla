----------------------------- MODULE JoiningWait -----------------------------
(***************************************************************************)
(* The same cancellable wait on a JoiningCancellationToken, which joins    *)
(* two tokens: thread/JoiningCancellationToken.cpp over                    *)
(* ProxyCancellationRegistrator and CancellationToken. The joined token    *)
(* registers the one handler in both tokens, one critical section after    *)
(* the other, so a cancellation can come in between. Its Sleep() is this   *)
(* very wait on a mutex and a condition of its own.                        *)
(*                                                                         *)
(* One waiter: a joined token serves one wait at a time.                   *)
(***************************************************************************)
EXTENDS CancellationToken

CONSTANTS First, Second     \* the two joined tokens

\* What the constants are.
TwoTokens == Tokens = {First, Second} /\ First # Second

VARIABLES
    locked,         \* the waiter holds the mutex of the wait
    waiting,        \* the waiter is blocked in pthread_cond_wait
    pc,             \* where the waiter is
    registered      \* the tokens the joined token has its handler in

vars == <<tokenVars, locked, waiting, pc, registered>>

Pcs == {"loop", "first", "second", "block", "wait", "tryFirst", "trySecond",
        "unlock", "unFirst", "unSecond", "relock", "exit"}

\* The positions in which the handler on the waiter's stack exists.
HandlerLife == Pcs \ {"loop", "first", "relock", "exit"}

\* Types, and the registrations the joined token remembers are real ones.
TypeOK ==
    /\ TokenTypeOK
    /\ locked \in BOOLEAN
    /\ waiting \in BOOLEAN
    /\ pc \in Pcs
    /\ registered \subseteq Tokens
    /\ \A t \in Tokens : cancelHandler[t] => t \in registered

Init ==
    /\ TokenInit
    /\ locked = TRUE
    /\ waiting = FALSE
    /\ pc = "loop"
    /\ registered = {}

-----------------------------------------------------------------------------
(* The joined token *)

IsCancelled == cancelled[First] \/ cancelled[Second]

\* _xRegistered = _xRegistrator.TryRegisterCancellationHandler(handler)
JoinTryRegister(t) ==
    \/ TryRegister(t) /\ registered' = registered \cup {t}
    \/ cancelled[t] /\ registered' = registered \ {t} /\ UNCHANGED tokenVars

\* if (_xRegistered) _xRegistered = !_xRegistrator.TryUnregister...()
JoinTryUnregister(t) ==
    IF t \in registered
    THEN /\ TryUnregister(t)
         /\ registered' = IF cancelled[t] THEN registered ELSE registered \ {t}
    ELSE UNCHANGED <<tokenVars, registered>>

\* if (_xRegistered) { _xRegistrator.Unregister...(); _xRegistered = false; }
\* It waits in the token until the cancellation under way is complete.
JoinUnregister(t) ==
    IF t \in registered
    THEN UnregisterDone(t) /\ registered' = registered \ {t}
    ELSE UNCHANGED <<tokenVars, registered>>

-----------------------------------------------------------------------------
(* The waiter: while (token) cond.Wait(mutex, token); *)

\* The loop tests the joined token and calls Wait().
EnterWait ==
    /\ pc = "loop"
    /\ ~IsCancelled
    /\ pc' = "first"
    /\ UNCHANGED <<tokenVars, locked, waiting, registered>>

LeaveLoop ==
    /\ pc = "loop"
    /\ IsCancelled
    /\ pc' = "exit"
    /\ locked' = FALSE
    /\ UNCHANGED <<tokenVars, waiting, registered>>

RegisterFirst ==
    /\ pc = "first"
    /\ JoinTryRegister(First)
    /\ pc' = "second"
    /\ UNCHANGED <<locked, waiting>>

\* Mutated form of RegisterSecond: block although no token took the handler.
RegisterSecondAnyway ==
    /\ pc = "second"
    /\ JoinTryRegister(Second)
    /\ pc' = "block"
    /\ UNCHANGED <<locked, waiting>>

\* return _firstRegistered || _secondRegistered; refused, Wait() is over.
RegisterSecond ==
    /\ pc = "second"
    /\ JoinTryRegister(Second)
    /\ pc' = IF registered' = {} THEN "loop" ELSE "block"
    /\ UNCHANGED <<locked, waiting>>

Block ==
    /\ pc = "block"
    /\ pc' = "wait"
    /\ locked' = FALSE
    /\ waiting' = TRUE
    /\ UNCHANGED <<tokenVars, registered>>

\* A broadcast by another user of the condition, or a spurious wake up.
WakeUp ==
    /\ waiting
    /\ waiting' = FALSE
    /\ UNCHANGED <<tokenVars, locked, pc, registered>>

\* The mutex is back; a single waiter finds it free outside the handler's call.
Reacquire ==
    /\ pc = "wait"
    /\ ~waiting
    /\ locked' = TRUE
    /\ pc' = "tryFirst"
    /\ UNCHANGED <<tokenVars, waiting, registered>>

ReleaseFirst ==
    /\ pc = "tryFirst"
    /\ JoinTryUnregister(First)
    /\ pc' = "trySecond"
    /\ UNCHANGED <<locked, waiting>>

\* Mutated form of ReleaseSecond: one token without a cancellation is enough.
ReleaseSecondEither ==
    /\ pc = "trySecond"
    /\ JoinTryUnregister(Second)
    /\ pc' = IF registered' # Tokens THEN "loop" ELSE "unlock"
    /\ UNCHANGED <<locked, waiting>>

\* return !_firstRegistered && !_secondRegistered
ReleaseSecond ==
    /\ pc = "trySecond"
    /\ JoinTryUnregister(Second)
    /\ pc' = IF registered' = {} THEN "loop" ELSE "unlock"
    /\ UNCHANGED <<locked, waiting>>

Unlock ==
    /\ pc = "unlock"
    /\ locked' = FALSE
    /\ pc' = "unFirst"
    /\ UNCHANGED <<tokenVars, waiting, registered>>

UnregisterFirst ==
    /\ pc = "unFirst"
    /\ JoinUnregister(First)
    /\ pc' = "unSecond"
    /\ UNCHANGED <<locked, waiting>>

UnregisterSecond ==
    /\ pc = "unSecond"
    /\ JoinUnregister(Second)
    /\ pc' = "relock"
    /\ UNCHANGED <<locked, waiting>>

Relock ==
    /\ pc = "relock"
    /\ locked' = TRUE
    /\ pc' = "loop"
    /\ UNCHANGED <<tokenVars, waiting, registered>>

-----------------------------------------------------------------------------
(* The cancellers *)

CallCancel(c, t) ==
    /\ CancelCall(c, t)
    /\ UNCHANGED <<locked, waiting, pc, registered>>

BeginCancel(c) ==
    /\ CancelBegin(c) \/ CancelAgain(c)
    /\ UNCHANGED <<locked, waiting, pc, registered>>

\* Mutated form of CallHandler: the handler does not broadcast.
CallHandlerSilent(c) ==
    /\ ~locked
    /\ CancelCalled(c)
    /\ UNCHANGED <<locked, waiting, pc, registered>>

\* The handler takes the mutex of the wait and broadcasts.
CallHandler(c) ==
    /\ ~locked
    /\ CancelCalled(c)
    /\ waiting' = FALSE
    /\ UNCHANGED <<locked, pc, registered>>

FinishCancel(c) ==
    /\ CancelFinish(c) \/ CancelReturn(c)
    /\ UNCHANGED <<locked, waiting, pc, registered>>

-----------------------------------------------------------------------------

WaiterStep ==
    \/ EnterWait \/ LeaveLoop \/ RegisterFirst \/ RegisterSecond \/ Block
    \/ Reacquire \/ ReleaseFirst \/ ReleaseSecond
    \/ Unlock \/ UnregisterFirst \/ UnregisterSecond \/ Relock

CancellerStep(c) == BeginCancel(c) \/ CallHandler(c) \/ FinishCancel(c)

Next ==
    \/ WaiterStep
    \/ WakeUp
    \/ \E c \in Cancellers : CancellerStep(c) \/ \E t \in Tokens : CallCancel(c, t)

Spec == Init /\ [][Next]_vars

\* Running threads go on, and the mutex that keeps being free is taken.
Fairness ==
    /\ WF_vars(WaiterStep)
    /\ \A c \in Cancellers : WF_vars(CancellerStep(c)) /\ SF_vars(CallHandler(c))

-----------------------------------------------------------------------------
(* Properties *)

(***************************************************************************)
(* As in CancellableWait, now with one handler in two tokens: no canceller *)
(* of either token calls the handler after the wait has returned.          *)
(***************************************************************************)
JoinedHandlerAlive ==
    \A c \in Cancellers : cancelPc[c] = "call" => pc \in HandlerLife

(***************************************************************************)
(* Types, and a waiter blocked in the condition can still be woken by a    *)
(* cancellation: some token whose Cancel() is not complete has the         *)
(* handler.                                                                *)
(***************************************************************************)
SomeCancelCanWake ==
    /\ TypeOK
    /\ waiting => \E t \in registered : ~cancelDone[t]

\* Both: the handler lives long enough, and its wait can be ended.
JoinedWaitIsSafe == JoinedHandlerAlive /\ SomeCancelCanWake

BothCancelledEndsWait ==
    (cancelled[First] /\ cancelled[Second]) ~> (pc = "exit")

CancelReturns ==
    \A c \in Cancellers : (cancelPc[c] # "idle") ~> (cancelPc[c] = "idle")

(***************************************************************************)
(* When both tokens are cancelled the wait ends, and Cancel() of either    *)
(* returns.                                                                *)
(***************************************************************************)
NobodyWaitsForEver == BothCancelledEndsWait /\ CancelReturns

(***************************************************************************)
(* What the loop `while (token) cond.Wait(mutex, token)` relies on, and    *)
(* what CancellationToken alone grants: a completed cancellation of the    *)
(* joined token leaves nobody blocked in the wait.                         *)
(***************************************************************************)
NoLostCancel ==
    (\E t \in Tokens : cancelDone[t]) => ~waiting

=============================================================================
