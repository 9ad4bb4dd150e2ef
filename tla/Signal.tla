------------------------------- MODULE Signal --------------------------------
(***************************************************************************)
(* signal/signals.h with the connections of signal_connector.h. An         *)
(* invocation copies the handlers under the signal's mutex and calls them  *)
(* one by one, each under the life token of its connection. The handler of *)
(* an asynchronous connection adds the slot, with the connection's tester, *)
(* to an executor whose one thread runs it under the token. Disconnection  *)
(* takes the handler out under the mutex and then, without it, releases    *)
(* the token.                                                              *)
(*                                                                         *)
(* When locking, invocations are those of ObservableValue::Set: the mutex  *)
(* (it is recursive) is held around the change and all of the calls.       *)
(* Otherwise the mutex is given up after the copy. A slot may call         *)
(* something that takes the mutex, as ObservableValue::Get does, and may   *)
(* disconnect itself. Outside the model: a slot that invokes the signal    *)
(* again, or disconnects another.                                          *)
(***************************************************************************)
EXTENDS TaskLife, Sequences, SequencesExt

CONSTANTS
    Users,          \* the threads that invoke, connect and disconnect
    Executor,       \* the executor's thread
    Async,          \* the connections made with an executor
    Values,         \* what is set and passed to the slots
    Initial,        \* the value at the beginning
    NoValue,
    None,           \* no connection
    MaxInvocations  \* bound of the number of invocations

Connections == Tokens

ASSUME ThreadsAssumption ==
    Executor \notin Users /\ Threads = Users \cup {Executor}
ASSUME AsyncAssumption == Async \subseteq Tokens /\ None \notin Tokens
ASSUME ValuesAssumption == Initial \in Values /\ NoValue \notin Values
ASSUME BoundAssumption == MaxInvocations \in Nat

VARIABLES
    locking,        \* whether invocations are made under the mutex
    value,          \* _val, what the populator sends
    handlers,       \* _handlers
    mutex,          \* the thread that holds the signal's mutex between steps
    pc,             \* where each thread is
    local,          \* localCopy: the handlers an invocation has still to call
    arg,            \* the argument of each thread's invocation
    current,        \* the connection whose slot each thread executes
    queue,          \* the executor's tasks: connections with arguments
    leaving,        \* the connection each thread is disconnecting
    told,           \* history: the last argument each slot was called with
    connected,      \* history: the connections ever made
    disconnected,   \* history: those disconnected by another, which has returned
    invocations     \* history: how many invocations there have been

signalVars == <<locking, value, handlers, mutex>>
threadVars == <<pc, local, arg, current, leaving>>
histVars == <<told, connected, disconnected, invocations>>
vars == <<lifeVars, signalVars, threadVars, queue, histVars>>

Init ==
    /\ LifeInit
    /\ locking \in BOOLEAN
    /\ value = Initial
    /\ handlers = <<>>
    /\ mutex = NoThread
    /\ pc = [th \in Threads |-> "idle"]
    /\ local = [th \in Threads |-> <<>>]
    /\ arg = [th \in Threads |-> NoValue]
    /\ current = [th \in Threads |-> None]
    /\ leaving = [th \in Threads |-> None]
    /\ queue = <<>>
    /\ told = [c \in Connections |-> NoValue]
    /\ connected = {}
    /\ disconnected = {}
    /\ invocations = 0

CanLockMutex(th) == mutex \in {NoThread, th}
Idle(th) == pc[th] = "idle" /\ leaving[th] = None
Goto(th, l) == pc' = [pc EXCEPT ![th] = l]

-----------------------------------------------------------------------------
(* Connect: under the mutex the populator is called and the handler added. *)

Connect(th, c) ==
    /\ th \in Users /\ Idle(th)
    /\ mutex = NoThread
    /\ c \notin connected
    /\ IF c \in Async
       THEN queue' = Append(queue, <<c, value>>) /\ UNCHANGED told
       ELSE told' = [told EXCEPT ![c] = value] /\ UNCHANGED queue
    /\ handlers' = Append(handlers, c)
    /\ connected' = connected \cup {c}
    /\ UNCHANGED <<lifeVars, locking, value, mutex, threadVars,
                   disconnected, invocations>>

\* Without sendCurrentState, without a populator, or when that declines the value.
ConnectSilently(th, c) ==
    /\ th \in Users /\ Idle(th)
    /\ mutex = NoThread
    /\ c \notin connected
    /\ handlers' = Append(handlers, c)
    /\ connected' = connected \cup {c}
    /\ UNCHANGED <<lifeVars, locking, value, mutex, threadVars, queue, told,
                   disconnected, invocations>>

-----------------------------------------------------------------------------
(* InvokeAll *)

\* Mutated form of Invoke: the mutex is always given up after the copy.
InvokeUnlocked(th, v) ==
    /\ th \in Users /\ Idle(th)
    /\ invocations < MaxInvocations
    /\ mutex = NoThread
    /\ v # value
    /\ value' = v
    /\ mutex' = NoThread
    /\ local' = [local EXCEPT ![th] = handlers]
    /\ arg' = [arg EXCEPT ![th] = v]
    /\ Goto(th, "invoke")
    /\ invocations' = invocations + 1
    /\ UNCHANGED <<lifeVars, locking, handlers, current, leaving, queue,
                   told, connected, disconnected>>

\* The mutex is locked, a new value stored and the handlers copied.
Invoke(th, v) ==
    /\ th \in Users /\ Idle(th)
    /\ invocations < MaxInvocations
    /\ mutex = NoThread
    /\ locking => v # value
    /\ value' = v
    /\ mutex' = IF locking THEN th ELSE NoThread
    /\ local' = [local EXCEPT ![th] = handlers]
    /\ arg' = [arg EXCEPT ![th] = v]
    /\ Goto(th, "invoke")
    /\ invocations' = invocations + 1
    /\ UNCHANGED <<lifeVars, locking, handlers, current, leaving, queue,
                   told, connected, disconnected>>

\* The slot of c begins in th.
Call(th, c, v) ==
    /\ current' = [current EXCEPT ![th] = c]
    /\ told' = [told EXCEPT ![c] = v]
    /\ Goto(th, "run")

\* The next handler is one of a synchronous connection: its token admits it ...
CallSlot(th) ==
    /\ pc[th] = "invoke" /\ local[th] # <<>>
    /\ Head(local[th]) \notin Async
    /\ TryStartExecution(Head(local[th]), th)
    /\ Call(th, Head(local[th]), arg[th])
    /\ local' = [local EXCEPT ![th] = Tail(@)]
    /\ UNCHANGED <<signalVars, arg, leaving, queue, connected, disconnected,
                   invocations>>

\* ... or refuses it ...
SkipSlot(th) ==
    /\ pc[th] = "invoke" /\ local[th] # <<>>
    /\ Head(local[th]) \notin Async
    /\ RefuseExecution(Head(local[th]), th)
    /\ local' = [local EXCEPT ![th] = Tail(@)]
    /\ UNCHANGED <<signalVars, pc, arg, current, leaving, queue, histVars>>

\* Mutated form of AddSlot: the task goes before those that wait.
AddSlotInFront(th) ==
    /\ pc[th] = "invoke" /\ local[th] # <<>>
    /\ Head(local[th]) \in Async
    /\ queue' = <<<<Head(local[th]), arg[th]>>>> \o queue
    /\ local' = [local EXCEPT ![th] = Tail(@)]
    /\ UNCHANGED <<lifeVars, signalVars, pc, arg, current, leaving, histVars>>

\* ... or it is one of an asynchronous connection: a task is added.
AddSlot(th) ==
    /\ pc[th] = "invoke" /\ local[th] # <<>>
    /\ Head(local[th]) \in Async
    /\ queue' = Append(queue, <<Head(local[th]), arg[th]>>)
    /\ local' = [local EXCEPT ![th] = Tail(@)]
    /\ UNCHANGED <<lifeVars, signalVars, pc, arg, current, leaving, histVars>>

\* The slot returns or throws.
ReturnFromSlot(th) ==
    /\ pc[th] = "run" /\ th \in Users
    /\ leaving[th] = None
    /\ FinishExecution(current[th], th)
    /\ current' = [current EXCEPT ![th] = None]
    /\ Goto(th, "invoke")
    /\ UNCHANGED <<signalVars, local, arg, leaving, queue, histVars>>

EndInvoke(th) ==
    /\ pc[th] = "invoke" /\ local[th] = <<>>
    /\ mutex' = IF mutex = th THEN NoThread ELSE mutex
    /\ arg' = [arg EXCEPT ![th] = NoValue]
    /\ Goto(th, "idle")
    /\ UNCHANGED <<lifeVars, locking, value, handlers, local, current, leaving,
                   queue, histVars>>

-----------------------------------------------------------------------------
(* The executor of the asynchronous connections *)

\* Mutated form of RunTask: the task was added without the tester.
RunTaskUntested ==
    /\ pc[Executor] = "idle" /\ queue # <<>>
    /\ UNCHANGED lifeVars
    /\ Call(Executor, Head(queue)[1], Head(queue)[2])
    /\ queue' = Tail(queue)
    /\ UNCHANGED <<signalVars, local, arg, leaving, connected, disconnected,
                   invocations>>

RunTask ==
    /\ pc[Executor] = "idle" /\ queue # <<>>
    /\ TryStartExecution(Head(queue)[1], Executor)
    /\ Call(Executor, Head(queue)[1], Head(queue)[2])
    /\ queue' = Tail(queue)
    /\ UNCHANGED <<signalVars, local, arg, leaving, connected, disconnected,
                   invocations>>

SkipTask ==
    /\ pc[Executor] = "idle" /\ queue # <<>>
    /\ RefuseExecution(Head(queue)[1], Executor)
    /\ queue' = Tail(queue)
    /\ UNCHANGED <<signalVars, threadVars, histVars>>

FinishTask ==
    /\ pc[Executor] = "run"
    /\ leaving[Executor] = None
    /\ FinishExecution(current[Executor], Executor)
    /\ current' = [current EXCEPT ![Executor] = None]
    /\ Goto(Executor, "idle")
    /\ UNCHANGED <<signalVars, local, arg, leaving, queue, histVars>>

-----------------------------------------------------------------------------
(* ~Connection *)

\* A thread disconnects c: one outside of slots, or one in the slot of c.
CanDisconnect(th, c) ==
    /\ c \in ToSet(handlers)
    /\ leaving[th] = None
    /\ \A other \in Threads : leaving[other] # c
    /\ \/ th \in Users /\ pc[th] = "idle"
       \/ pc[th] = "run" /\ current[th] = c

\* _handlers.erase(handler): the entry of c goes.
Erase(c) == \E i \in DOMAIN handlers :
    /\ handlers[i] = c
    /\ handlers' = RemoveAt(handlers, i)

\* Mutated form of RemoveHandler: the mutex is kept for the token's release.
RemoveHandlerLocked(th, c) ==
    /\ CanDisconnect(th, c)
    /\ CanLockMutex(th)
    /\ mutex' = th
    /\ Erase(c)
    /\ leaving' = [leaving EXCEPT ![th] = c]
    /\ UNCHANGED <<lifeVars, locking, value, pc, local, arg, current, queue,
                   histVars>>

RemoveHandler(th, c) ==
    /\ CanDisconnect(th, c)
    /\ CanLockMutex(th)
    /\ Erase(c)
    /\ leaving' = [leaving EXCEPT ![th] = c]
    /\ UNCHANGED <<lifeVars, locking, value, mutex, pc, local, arg, current,
                   queue, histVars>>

ReleaseToken(th) ==
    /\ leaving[th] # None
    /\ Kill(leaving[th], th)
    /\ leaving' = [leaving EXCEPT ![th] = None]
    /\ disconnected' = IF pc[th] = "run" THEN disconnected
                       ELSE disconnected \cup {leaving[th]}
    /\ UNCHANGED <<signalVars, pc, local, arg, current, queue,
                   told, connected, invocations>>

-----------------------------------------------------------------------------
\* What a thread does at last; a slot may be one that takes the mutex before it
\* returns.
UserStep(th) ==
    \/ CallSlot(th) \/ SkipSlot(th) \/ AddSlot(th)
    \/ CanLockMutex(th) /\ ReturnFromSlot(th)
    \/ EndInvoke(th) \/ ReleaseToken(th)

ExecutorStep ==
    \/ RunTask \/ SkipTask
    \/ CanLockMutex(Executor) /\ FinishTask
    \/ ReleaseToken(Executor)

Next ==
    \/ \E th \in Users :
        \/ \E c \in Connections : Connect(th, c) \/ ConnectSilently(th, c)
        \/ \E v \in Values : Invoke(th, v)
        \/ CallSlot(th) \/ SkipSlot(th) \/ AddSlot(th)
        \/ ReturnFromSlot(th) \/ EndInvoke(th)
    \/ \E th \in Threads :
        \/ \E c \in Connections : RemoveHandler(th, c)
        \/ ReleaseToken(th)
    \/ RunTask \/ SkipTask \/ FinishTask

Spec == Init /\ [][Next]_vars

\* Threads in a call are scheduled and get a mutex that is free again and again.
LiveSpec ==
    /\ Spec
    /\ \A th \in Users : SF_vars(UserStep(th))
    /\ SF_vars(ExecutorStep)

-----------------------------------------------------------------------------
(* Properties *)

\* Types; a thread holds a connection's mutex while it is in its slot.
TypeOK ==
    /\ LifeTypeOK
    /\ locking \in BOOLEAN
    /\ value \in Values
    /\ handlers \in Seq(Connections)
    /\ mutex \in Threads \cup {NoThread}
    /\ pc \in [Threads -> {"idle", "invoke", "run"}]
    /\ local \in [Threads -> Seq(Connections)]
    /\ arg \in [Threads -> Values \cup {NoValue}]
    /\ current \in [Threads -> Connections \cup {None}]
    /\ leaving \in [Threads -> Connections \cup {None}]
    /\ queue \in Seq(Async \X Values)
    /\ told \in [Connections -> Values \cup {NoValue}]
    /\ connected \subseteq Connections /\ disconnected \subseteq connected
    /\ invocations \in 0..MaxInvocations
    /\ \A th \in Threads : \A c \in Connections :
        holder[c] = th <=> pc[th] = "run" /\ current[th] = c

(***************************************************************************)
(* Once the token of a connection has been reset by a thread outside its   *)
(* slot, the slot is not being executed and will not be: neither by an     *)
(* invocation that copied the handlers before nor by a task that is still  *)
(* in the executor (signals.h:120-132, 219-229).                           *)
(***************************************************************************)
NothingCalledAfterDisconnect ==
    /\ TypeOK
    /\ \A c \in disconnected : ~alive[c] /\ \A th \in Threads : current[th] # c

\* How many of the first i tasks are of c.
Rank(tasks, c, i) == Cardinality({j \in 1..i : tasks[j][1] = c})

\* The arguments of the tasks of c, in order.
ArgumentsFor(tasks, c) ==
    [k \in 1..Rank(tasks, c, Len(tasks)) |->
        tasks[CHOOSE i \in DOMAIN tasks :
                  tasks[i][1] = c /\ Rank(tasks, c, i) = k][2]]

\* The threads whose invocation is still to call c.
Calling(c) == {th \in Users : c \in ToSet(local[th])}

\* What c is still to be called with.
OwedTo(c) ==
    IF Calling(c) = {} THEN ArgumentsFor(queue, c)
    ELSE Append(ArgumentsFor(queue, c), arg[CHOOSE th \in Calling(c) : TRUE])

\* As long as the token lets it be called.
Owed == [c \in Connections |-> IF locking /\ alive[c] THEN OwedTo(c) ELSE <<>>]

\* A signal that is not locking promises no order: it maps to an observable to
\* which nothing happens.
Promise == INSTANCE Observable WITH
    Subscribers <- Connections,
    value <- IF locking THEN value ELSE Initial,
    subscribed <- IF locking THEN ToSet(handlers) ELSE {},
    owed <- Owed,
    told <- IF locking THEN told ELSE [c \in Connections |-> NoValue],
    cut <- IF locking THEN {c \in Connections : ~alive[c]} ELSE {}

(***************************************************************************)
(* With invocations under the mutex, as in ObservableValue, every          *)
(* connection is called with the value it found, if it is one that is sent *)
(* the current state, and with each later one, once and in order,          *)
(* synchronous or not, whoever connects, disconnects and sets meanwhile.   *)
(***************************************************************************)
ImplementsObservable ==
    /\ Promise!Spec
    /\ [][\A th \in Users, c \in Connections :
            locking /\ Connect(th, c) => Promise!Subscribe(c)]_vars

(***************************************************************************)
(* With invocations under the mutex a connection that stays is called with *)
(* the current value at last, unless it was made without being told of any *)
(* and nothing has been set since.                                         *)
(***************************************************************************)
EventuallyCurrent ==
    \A c \in Connections :
        locking /\ c \in ToSet(handlers) ~>
            \/ c \notin ToSet(handlers) \/ told[c] = value
            \/ told[c] = NoValue /\ OwedTo(c) = <<>>

\* Invocations, slots and disconnections return, although slots take the mutex
\* under their tokens and disconnections wait for the tokens.
CallsReturn == \A th \in Threads : ~Idle(th) ~> Idle(th)

\* Both: calls return and subscribers learn what there is to learn.
EverythingSettles == EventuallyCurrent /\ CallsReturn

=============================================================================
