-------------------------- MODULE CancellationToken --------------------------
(***************************************************************************)
(* The cancellation token of thread/CancellationToken.cpp: its three       *)
(* guarded fields, its private condition variable and its operations.      *)
(* Every critical section of the token's own mutex is one action, since    *)
(* nothing inside it blocks on anything but the token's own condition.     *)
(* Cancel() is three steps, because the handler it found is called after   *)
(* the token's mutex was released.                                         *)
(*                                                                         *)
(* The module has no specification of its own: it is extended by the       *)
(* modules of the waits that use tokens, which say what a handler's        *)
(* Cancel() does (CancellableWait, JoiningWait).                           *)
(***************************************************************************)
EXTENDS Naturals, FiniteSets

CONSTANTS
    Tokens,       \* the cancellation tokens
    Cancellers    \* the threads that call Cancel() on them

VARIABLES
    cancelled,      \* [Tokens -> BOOLEAN], _cancelled
    cancelDone,     \* [Tokens -> BOOLEAN], _cancelDone
    cancelHandler,  \* [Tokens -> BOOLEAN], _cancelHandler # null
    tokenWaits,     \* tokens whose user is blocked in the token's own _cond
    cancelPc,       \* where each canceller is inside Cancel()
    cancelTarget    \* the token each canceller cancels

tokenVars ==
    <<cancelled, cancelDone, cancelHandler, tokenWaits, cancelPc, cancelTarget>>

TokenTypeOK ==
    /\ cancelled \in [Tokens -> BOOLEAN]
    /\ cancelDone \in [Tokens -> BOOLEAN]
    /\ cancelHandler \in [Tokens -> BOOLEAN]
    /\ tokenWaits \subseteq Tokens
    /\ cancelPc \in [Cancellers -> {"idle", "begin", "call", "finish", "return"}]
    /\ cancelTarget \in [Cancellers -> Tokens]

TokenInit ==
    /\ cancelled = [t \in Tokens |-> FALSE]
    /\ cancelDone = [t \in Tokens |-> FALSE]
    /\ cancelHandler = [t \in Tokens |-> FALSE]
    /\ tokenWaits = {}
    /\ cancelPc = [c \in Cancellers |-> "idle"]
    /\ cancelTarget \in [Cancellers -> Tokens]

-----------------------------------------------------------------------------
(* Cancel() *)

\* The caller names the token it will cancel.
CancelCall(c, t) ==
    /\ cancelPc[c] = "idle"
    /\ cancelPc' = [cancelPc EXCEPT ![c] = "begin"]
    /\ cancelTarget' = [cancelTarget EXCEPT ![c] = t]
    /\ UNCHANGED <<cancelled, cancelDone, cancelHandler, tokenWaits>>

\* First critical section, the token already cancelled: nothing to do.
CancelAgain(c) ==
    /\ cancelPc[c] = "begin"
    /\ cancelled[cancelTarget[c]]
    /\ cancelPc' = [cancelPc EXCEPT ![c] = "return"]
    /\ UNCHANGED <<cancelled, cancelDone, cancelHandler, tokenWaits, cancelTarget>>

\* First critical section: raise the flag and remember the handler seen there.
CancelBegin(c) ==
    LET t == cancelTarget[c] IN
    /\ cancelPc[c] = "begin"
    /\ ~cancelled[t]
    /\ cancelled' = [cancelled EXCEPT ![t] = TRUE]
    /\ cancelPc' = [cancelPc EXCEPT ![c] = IF cancelHandler[t] THEN "call" ELSE "finish"]
    /\ UNCHANGED <<cancelDone, cancelHandler, tokenWaits, cancelTarget>>

\* The token's share of the handler call; the extending module adds its effect.
CancelCalled(c) ==
    /\ cancelPc[c] = "call"
    /\ cancelPc' = [cancelPc EXCEPT ![c] = "finish"]
    /\ UNCHANGED <<cancelled, cancelDone, cancelHandler, tokenWaits, cancelTarget>>

\* Mutated form of CancelFinish: the broadcast of the token's condition is lost.
CancelFinishQuiet(c) ==
    LET t == cancelTarget[c] IN
    /\ cancelPc[c] = "finish"
    /\ cancelDone' = [cancelDone EXCEPT ![t] = TRUE]
    /\ cancelPc' = [cancelPc EXCEPT ![c] = "return"]
    /\ UNCHANGED <<cancelled, cancelHandler, tokenWaits, cancelTarget>>

\* Second critical section: the cancellation is complete, wake the token's user.
CancelFinish(c) ==
    LET t == cancelTarget[c] IN
    /\ cancelPc[c] = "finish"
    /\ cancelDone' = [cancelDone EXCEPT ![t] = TRUE]
    /\ tokenWaits' = tokenWaits \ {t}
    /\ cancelPc' = [cancelPc EXCEPT ![c] = "return"]
    /\ UNCHANGED <<cancelled, cancelHandler, cancelTarget>>

CancelReturn(c) ==
    /\ cancelPc[c] = "return"
    /\ cancelPc' = [cancelPc EXCEPT ![c] = "idle"]
    /\ UNCHANGED <<cancelled, cancelDone, cancelHandler, tokenWaits, cancelTarget>>

-----------------------------------------------------------------------------
(* The operations of the token's user; each leaves the cancellers alone *)

\* Reset(); both checks throw and leave the token as it is.
ResetToken(t) ==
    /\ ~cancelHandler[t]
    /\ cancelled[t] = cancelDone[t]
    /\ cancelled' = [cancelled EXCEPT ![t] = FALSE]
    /\ cancelDone' = [cancelDone EXCEPT ![t] = FALSE]
    /\ UNCHANGED <<cancelHandler, tokenWaits, cancelPc, cancelTarget>>

\* TryRegisterCancellationHandler() that returns true. A second handler throws.
TryRegister(t) ==
    /\ ~cancelled[t]
    /\ ~cancelHandler[t]
    /\ cancelHandler' = [cancelHandler EXCEPT ![t] = TRUE]
    /\ UNCHANGED <<cancelled, cancelDone, tokenWaits, cancelPc, cancelTarget>>

\* TryUnregisterCancellationHandler(): it returns ~cancelled[t].
TryUnregister(t) ==
    /\ cancelHandler' = [cancelHandler EXCEPT ![t] = FALSE]
    /\ UNCHANGED <<cancelled, cancelDone, tokenWaits, cancelPc, cancelTarget>>

\* What lets UnregisterCancellationHandler() return: no cancellation, or all of it.
Unregistered(t) == cancelled[t] => cancelDone[t]

\* UnregisterCancellationHandler() that finds a cancellation under way: it blocks.
UnregisterBlock(t) ==
    /\ ~Unregistered(t)
    /\ cancelHandler' = [cancelHandler EXCEPT ![t] = FALSE]
    /\ tokenWaits' = tokenWaits \cup {t}
    /\ UNCHANGED <<cancelled, cancelDone, cancelPc, cancelTarget>>

\* UnregisterCancellationHandler() that returns.
UnregisterDone(t) ==
    /\ Unregistered(t)
    /\ cancelHandler' = [cancelHandler EXCEPT ![t] = FALSE]
    /\ UNCHANGED <<cancelled, cancelDone, tokenWaits, cancelPc, cancelTarget>>

\* Sleep() that finds no cancellation: block in the token's condition.
SleepBlock(t) ==
    /\ ~cancelled[t]
    /\ tokenWaits' = tokenWaits \cup {t}
    /\ UNCHANGED <<cancelled, cancelDone, cancelHandler, cancelPc, cancelTarget>>

\* The wait in the token's condition ends without a broadcast: timeout or spurious.
TokenWakeUp(t) ==
    /\ t \in tokenWaits
    /\ tokenWaits' = tokenWaits \ {t}
    /\ UNCHANGED <<cancelled, cancelDone, cancelHandler, cancelPc, cancelTarget>>

=============================================================================
