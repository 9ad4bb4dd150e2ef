-------------------------------- MODULE Waits ---------------------------------
(***************************************************************************)
(* The cancellable wait with either kind of token: Wait() is given a plain *)
(* one (CancellableWait) or one that joins two (JoiningWait); which of     *)
(* them is decided at the start.                                           *)
(***************************************************************************)
EXTENDS CancellableWait

CONSTANTS First, Second     \* the tokens that the joining one joins

VARIABLES
    token,          \* "plain" or "joining"
    jCancelled, jCancelDone, jCancelHandler, jTokenWaits, jCancelPc, jCancelTarget,
    jLocked, jWaiting, jPc, jRegistered

joiningVars == <<jCancelled, jCancelDone, jCancelHandler, jTokenWaits, jCancelPc,
                 jCancelTarget, jLocked, jWaiting, jPc, jRegistered>>
allVars == <<vars, joiningVars, token>>

JoinedTokens == {First, Second}

J == INSTANCE JoiningWait WITH
    Tokens <- JoinedTokens,
    cancelled <- jCancelled, cancelDone <- jCancelDone,
    cancelHandler <- jCancelHandler, tokenWaits <- jTokenWaits,
    cancelPc <- jCancelPc, cancelTarget <- jCancelTarget,
    locked <- jLocked, waiting <- jWaiting, pc <- jPc, registered <- jRegistered

ASSUME JoiningAssumption == J!TwoTokens

WaitsInit ==
    /\ token \in {"plain", "joining"}
    /\ Init /\ J!Init

WaitsNext ==
    \/ token = "plain" /\ Next /\ UNCHANGED <<joiningVars, token>>
    \/ token = "joining" /\ J!Next /\ UNCHANGED <<vars, token>>

WaitsSpec == WaitsInit /\ [][WaitsNext]_allVars

WaitsFairness ==
    /\ token = "plain" => Fairness
    /\ token = "joining" => J!Fairness

-----------------------------------------------------------------------------
(* Properties *)

\* Of a joining token: the handler lives through its calls, and a blocked
\* waiter can still be woken.
JoinedWaitIsSafe == J!JoinedWaitIsSafe

\* Who was cancelled leaves the wait and Cancel() returns, with either token.
EveryoneReturns == NobodyWaitsForEver /\ J!NobodyWaitsForEver
=============================================================================
