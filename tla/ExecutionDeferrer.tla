--------------------------- MODULE ExecutionDeferrer ---------------------------
(***************************************************************************)
(* executor/ExecutionDeferrer.cpp over Timer: each Defer replaces the task *)
(* that was deferred before, and Cancel takes it back.                     *)
(*                                                                         *)
(* Defer gives the timer a call of DoDefer under the deferrer's life token *)
(* (AddTask); DoDefer, in the timer's thread, sets the timeout or timer    *)
(* for the task and puts its token in the place of the last one, which     *)
(* removes that. Cancel kills the life token, takes a new one, and removes *)
(* what is set.                                                            *)
(*                                                                         *)
(* Every call is composed of actions of Timer. As ExecutionDeferrer.h:41   *)
(* demands, no deferred task calls Cancel. The timer outlives the          *)
(* deferrer, whose destructor is a Cancel that takes no new life token.    *)
(***************************************************************************)
EXTENDS Timer

CONSTANTS
    Deferrals,      \* calls of Defer, each with its DoDefer as a callback
    TaskOf,         \* the callback that DoDefer of a deferral sets
    LifeTokens,     \* the tokens that _deferTaskLifeHolder takes in turn
    FirstToken

ASSUME DeferralsAssumption ==
    /\ Deferrals \subseteq Tasks \ Removable
    /\ TaskOf \in [Deferrals -> Removable]
    /\ \A d, e \in Deferrals : TaskOf[d] = TaskOf[e] => d = e
ASSUME LifeTokensAssumption ==
    /\ FirstToken \in LifeTokens
    /\ LifeTokens \subseteq Tokens \ {TesterOf[t] : t \in Removable}
    /\ \A d \in Deferrals : TesterOf[d] \in LifeTokens

VARIABLES
    life,           \* the token in _deferTaskLifeHolder
    tester,         \* _deferExecutionTester
    deferredToken,  \* _deferredTaskToken: the callback it removes, or NoTask
    canceller,      \* who holds _cancelMutex, or NoThread
    callPc,         \* where each thread is in Defer or Cancel
    making,         \* the deferral each thread makes, whose tester it has read
    used,           \* history: the tokens that life has been
    final           \* history: what had been deferred when a Cancel returned

deferrerVars == <<life, tester, deferredToken, canceller, callPc, making, used, final>>
allVars == <<vars, deferrerVars>>

DeferredTasks == {TaskOf[d] : d \in Deferrals}

DeferrerInit ==
    /\ Init
    /\ life = FirstToken /\ tester = FirstToken
    /\ deferredToken = NoTask
    /\ canceller = NoThread
    /\ callPc = [c \in Threads |-> "idle"]
    /\ making = [c \in Threads |-> NoTask]
    /\ used = {FirstToken}
    /\ final = {}

GotoCall(c, l) == callPc' = [callPc EXCEPT ![c] = l]

-----------------------------------------------------------------------------
(* Defer, by a client or by a deferred task *)

GetTester(c, d) ==
    /\ callPc[c] = "idle"
    /\ c = Worker => pc = "run" /\ top \in DeferredTasks
    /\ TesterOf[d] = tester
    /\ d \notin added /\ \A e \in Threads : making[e] # d
    /\ making' = [making EXCEPT ![c] = d]
    /\ GotoCall(c, "deferring")
    /\ UNCHANGED <<vars, life, tester, deferredToken, canceller, used, final>>

CallAddTask(c) ==
    /\ callPc[c] = "deferring"
    /\ Stamp(c, making[c])
    /\ GotoCall(c, "adding")
    /\ UNCHANGED <<life, tester, deferredToken, canceller, making, used, final>>

ReturnFromAddTask(c) ==
    /\ callPc[c] = "adding"
    /\ PushNew(c)
    /\ making' = [making EXCEPT ![c] = NoTask]
    /\ GotoCall(c, "idle")
    /\ UNCHANGED <<life, tester, deferredToken, canceller, used, final>>

-----------------------------------------------------------------------------
(* DoDefer *)

InDoDefer == pc = "run" /\ top \in Deferrals

\* SetTimeout or SetTimer.
SetCallback ==
    /\ InDoDefer /\ callPc[Worker] = "idle"
    /\ Stamp(Worker, TaskOf[top])
    /\ GotoCall(Worker, "setting")
    /\ UNCHANGED <<life, tester, deferredToken, canceller, making, used, final>>

CallbackIsSet ==
    /\ callPc[Worker] = "setting"
    /\ PushNew(Worker)
    /\ GotoCall(Worker, "assigning")
    /\ UNCHANGED <<life, tester, deferredToken, canceller, making, used, final>>

\* The token is in its place before the old one removes its callback.
AssignToken ==
    /\ callPc[Worker] = "assigning"
    /\ deferredToken' = TaskOf[top]
    /\ IF deferredToken = NoTask
       THEN GotoCall(Worker, "assigned") /\ UNCHANGED vars
       ELSE GotoCall(Worker, "removing") /\ Erase(Worker, deferredToken)
    /\ UNCHANGED <<life, tester, canceller, making, used, final>>

OldIsRemoved ==
    /\ callPc[Worker] = "removing"
    /\ ReleaseCallback(Worker)
    /\ GotoCall(Worker, "assigned")
    /\ UNCHANGED <<life, tester, deferredToken, canceller, making, used, final>>

-----------------------------------------------------------------------------
(* Cancel *)

LockCancel(c) ==
    /\ c \in Clients
    /\ callPc[c] = "idle"
    /\ canceller = NoThread
    /\ used # LifeTokens
    /\ canceller' = c
    /\ GotoCall(c, "killing")
    /\ UNCHANGED <<vars, life, tester, deferredToken, making, used, final>>

\* _deferTaskLifeHolder.Reset() waits for a DoDefer under the old token.
ResetLife(c) ==
    /\ callPc[c] = "killing"
    /\ ReleaseTester(c, life)
    /\ \E l \in LifeTokens \ used : life' = l /\ used' = used \cup {l}
    /\ GotoCall(c, "resetting")
    /\ UNCHANGED <<tester, deferredToken, canceller, making, final>>

\* Mutated form of ResetToken: the new tester is given out before the task is
\* removed.
ResetTokenPublished(c) ==
    /\ callPc[c] = "resetting"
    /\ deferredToken' = NoTask
    /\ tester' = life
    /\ IF deferredToken = NoTask
       THEN GotoCall(c, "publishing") /\ UNCHANGED vars
       ELSE GotoCall(c, "withdrawing") /\ Erase(c, deferredToken)
    /\ UNCHANGED <<life, canceller, making, used, final>>

\* _deferredTaskToken.Reset()
ResetToken(c) ==
    /\ callPc[c] = "resetting"
    /\ deferredToken' = NoTask
    /\ IF deferredToken = NoTask
       THEN GotoCall(c, "publishing") /\ UNCHANGED vars
       ELSE GotoCall(c, "withdrawing") /\ Erase(c, deferredToken)
    /\ UNCHANGED <<life, tester, canceller, making, used, final>>

TaskIsRemoved(c) ==
    /\ callPc[c] = "withdrawing"
    /\ ReleaseCallback(c)
    /\ GotoCall(c, "publishing")
    /\ UNCHANGED <<life, tester, deferredToken, canceller, making, used, final>>

\* The new tester is given out and _cancelMutex unlocked.
ReturnFromCancel(c) ==
    /\ callPc[c] = "publishing"
    /\ tester' = life
    /\ canceller' = NoThread
    /\ GotoCall(c, "idle")
    /\ final' = final \cup (added \cap Deferrals)
    /\ UNCHANGED <<vars, life, deferredToken, making, used>>

-----------------------------------------------------------------------------
(* The timer's thread; a callback ends when its calls have *)

CallbackEnds ==
    /\ IF InDoDefer THEN callPc[Worker] = "assigned" ELSE callPc[Worker] = "idle"
    /\ FinishTask
    /\ GotoCall(Worker, "idle")
    /\ UNCHANGED <<life, tester, deferredToken, canceller, making, used, final>>

TimerStep ==
    /\ \/ SleepOnEmpty \/ SleepUntilTop \/ WakeUp \/ PopDue \/ ReadClock
       \/ StartTask \/ SkipTask \/ Restart
    /\ UNCHANGED deferrerVars

DeferStep(c) == CallAddTask(c) \/ ReturnFromAddTask(c)

DoDeferStep ==
    SetCallback \/ CallbackIsSet \/ AssignToken \/ OldIsRemoved \/ CallbackEnds

CancelStep(c) ==
    ResetLife(c) \/ ResetToken(c) \/ TaskIsRemoved(c) \/ ReturnFromCancel(c)

DeferrerNext ==
    \/ (Tick \/ WakeSpuriously) /\ UNCHANGED deferrerVars
    \/ \E c \in Threads : DeferStep(c) \/ \E d \in Deferrals : GetTester(c, d)
    \/ \E c \in Clients : LockCancel(c) \/ CancelStep(c)
    \/ TimerStep \/ DoDeferStep

DeferrerSpec == DeferrerInit /\ [][DeferrerNext]_allVars

\* As in Timer; a client that waits for _cancelMutex gets it.
DeferrerFairness ==
    /\ WF_allVars(Tick /\ UNCHANGED deferrerVars)
    /\ WF_allVars(TimerStep \/ DoDeferStep)
    /\ \A c \in Threads : WF_allVars(DeferStep(c))
    /\ \A c \in Clients : WF_allVars(CancelStep(c))

-----------------------------------------------------------------------------
(* Properties *)

(***************************************************************************)
(* Nothing that had been deferred when Cancel returned, before it or while *)
(* it ran, is executed any more: neither the task nor its DoDefer, which   *)
(* would set the task after all (ExecutionDeferrer.cpp:25-34).             *)
(***************************************************************************)
CancelIsFinal ==
    \A d \in final :
        /\ ~(pc = "run" /\ top \in {d, TaskOf[d]})
        /\ TaskOf[d] \notin Queued

(***************************************************************************)
(* A task that is set can be taken back: outside of the DoDefer that sets  *)
(* it, it is the one whose token the deferrer holds. And the token, which  *)
(* no mutex protects, is never assigned while a Cancel resets it           *)
(* (ExecutionDeferrer.cpp:30, 57-63).                                      *)
(***************************************************************************)
HeldByItsToken ==
    /\ \A d \in Deferrals :
        TaskOf[d] \in Queued => deferredToken = TaskOf[d] \/ (pc = "run" /\ top = d)
    /\ InDoDefer => \A c \in Clients : callPc[c] \notin {"resetting", "withdrawing"}

\* Both: what a Cancel should take back it can find, and it does.
NothingEscapesCancel == CancelIsFinal /\ HeldByItsToken

\* Cancel returns, although it waits for DoDefer and for the task.
CancelReturns == \A c \in Clients : (canceller = c) ~> (canceller # c)
=============================================================================
