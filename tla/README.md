# StingrayKit: specifications, checks and proofs

This directory holds TLA+ specifications of the concurrent core of StingrayKit
(`src/stingraykit`), TLC configurations that check them on small instances, and
TLAPS proofs of what matters most. It is about what is hard to see in the code and
hard to reach with `unittests/`: steps of two threads in an order nobody thought
of, state used after a mutex was released, wake ups that come too early, operations
that fail half way, objects destroyed while they are in use.

    tlc -workers 2 -config Timer.cfg MCTimer.tla       check a component
    tlapm Timer_proofs.tla                             check the proofs about it

`PROJECT.json` names the components, the runs with their properties, for each
property a mutated operation that breaks it, for each definition the lines it
models, the hazards at their lines, and the theorems.

1. [The system](#1-the-system)
2. [The modules](#2-the-modules)
3. [Modelling conventions](#3-modelling-conventions)
4. [The components and their models](#4-the-components-and-their-models)
5. [Runs, bounds and what they show](#5-runs-bounds-and-what-they-show)
6. [Fairness](#6-fairness)
7. [Proofs](#7-proofs)
8. [Where the code and the expectation part](#8-where-the-code-and-the-expectation-part)
9. [What is not modelled](#9-what-is-not-modelled)
10. [Plan](#10-plan)

## 1. The system

StingrayKit is a C++ toolkit. Most of it is sequential: collections, ranges, strings,
time, serialization, metaprogramming. Its own and difficult logic is in `thread/`,
`executor/`, `io/`, `signal/` and the transactional part of `collection/`, where a few
building blocks stand on each other:

    TransactionalDictionary      SynchronizedPipe   AsyncByteStream   PacketBuffer  DataBuffer   PagedBuffer
      │   ObservableValue         BithreadPipe         │               └─ SharedCircularBuffer ─┘      │
      └── signal ──┐              BufferedPipe         ├──────────────── BithreadCircularBuffer        │
                   │                  │                │                       │                       │
    ExecutionDeferrer                 │     future     │                       │                       │
        │          │                  │        │       │                       │                       │
      Timer   AsyncTaskExecutor   DeferredTaskExecutor │   ThreadPool          │                       │
        └──────────┴── TaskLifeToken ─┘        │       │       │               │                       │
    Thread ── CancellationToken ── ConditionVariable::Wait(mutex, token) ──────┴───────────────────────┘
                Joining-, TimedCancellationToken

| component | state | operations | what makes it hard |
|---|---|---|---|
| CancellationToken | `_cancelled`, `_cancelDone`, `_cancelHandler` under a mutex, a condition | Cancel, Reset, Sleep, register, try to unregister, unregister | the handler is called after the mutex was released, and lives on another thread's stack |
| ConditionVariable::Wait | a handler on the stack that locks and broadcasts | Wait with a token, with or without timeout | the canceller needs the waiter's mutex, the waiter the end of Cancel() |
| JoiningCancellationToken | which of two tokens has the handler | as above, for both | registration in two steps |
| TaskLifeToken | `_alive` and a recursive mutex | start and finish an execution, Release | Release waits for an execution elsewhere, not for its own |
| AsyncTaskExecutor | queue, worker | AddTask, destruction | tasks run unlocked; destruction drains |
| DeferredTaskExecutor | queue, active executor | AddTask, ExecuteTasks, ClearTasks | several threads and tasks themselves call ExecuteTasks |
| PagedBuffer | deque of pages, three offsets | Push, Read, Pop, Seek | offsets shift while Read and Push are outside the mutex |
| PacketBuffer | ring, packet queue, padding | Process, Read, EndOfData, SetException, Clear | padding at the end of the ring; copying unlocked |
| DataBuffer | ring | Process, Read, WaitForData, EndOfData, SetException, Clear | regions used unlocked; three reasons to wait |
| pipes | a reference to the writer's bytes, the swapped pipe, a buffer | Write, Read | a Write waits until its bytes were taken and may be cancelled when some or all of them were |
| AsyncByteStream | queue of operations, rings, position, numbers of syncs, worker | Write, Seek, Sync, Reconfigure, destruction | writes are merged while the worker writes; a block may be written in part and is put back |
| future, promise | the result or exception | get, wait, set, destruction of the promise | who waits must be woken by each way to end |
| Timer | callbacks ordered by time, worker | AddTask, SetTimeout, SetTimer, removal, destruction | removal against execution and restart; sleep against addition |
| ExecutionDeferrer | the deferred task's token, a life token | Defer, Cancel | the token is assigned in the timer's thread and reset in another one |
| ThreadPool | slots of workers, one task each | TryQueue, WaitQueue, idle timeouts, destruction | idle workers are joined with the pool's mutex held |
| signal, ObservableValue | handlers, the value, a mutex | Connect, invoke, disconnect, Set | disconnection against an invocation in progress; population against Set |
| TransactionalDictionary | the items, the transaction's additions and removals, maps shared with enumerators | StartTransaction, Add, Set, Remove, RemoveWhere, Clear, Revert, Commit, Diff, Enumerate | Commit applies entry by entry to a map that others enumerate, and may fail half way |

Components interact by calls (an executor calls a task, a signal its slots, a token its
handler, the deferrer its timer), by shared state under a mutex, and by condition
variables. There is no persistence and no network: a crash ends everything, and no
operation survives it. What fails is a task, a page, a stream, a consumer or a copy that
throws.

What makes each of them correct, in a sentence:

* a token: a cancellation is never lost, and after the end of a wait nothing refers to it;
* an executor: tasks start in order, one at a time, once, and not after the release of
  their life token, and none is lost at destruction;
* a buffer: what comes out is what went in, in order and once, the regions two threads
  use unlocked never meet, and nobody sleeps while there is something to do;
* a pipe: a Write that returns has been read in full, one that fails leaves a beginning and
  nothing that refers to the writer's bytes, and writes of several threads do not mix;
* the asynchronous stream: the file becomes what the same writes at once would have made
  of it, and Sync and the destructor return when it has;
* the timer: a callback runs when it is due, not after its removal, and the worker does
  not oversleep;
* the deferrer: after Cancel nothing that was deferred before it is executed;
* the pool: a task that was accepted is started by a worker of its own, whatever idle
  workers are destroyed meanwhile, and whoever waits for room gets it;
* a signal: after a disconnection nothing is called, and under the mutex a subscriber is
  told the value it finds and each later one;
* the dictionary: one transaction at a time, invisible to others until Commit and then
  visible at once, whatever enumerators and diffs of it are held meanwhile.

## 2. The modules

| module | models | used by |
|---|---|---|
| `CancellationToken` | `thread/CancellationToken.cpp` | the two below (EXTENDS) |
| `CancellableWait` | `thread/posix/PosixConditionVariable.cpp`, `CancellationRegistrator.h`, timed tokens | its result is assumed wherever a component waits |
| `JoiningWait` | `thread/JoiningCancellationToken.cpp` under the same wait | |
| `TaskLife` | `executor/TaskLifeToken.cpp` | executors, `Timer`, `Signal` (EXTENDS) |
| `SerialExecutor` | *abstract*: what an executor promises | refined by the two below |
| `AsyncTaskExecutor` | `executor/AsyncTaskExecutor.cpp` | its task execution is also part of `Signal` |
| `DeferredTaskExecutor` | `executor/DeferredTaskExecutor.cpp` | |
| `CircularBuffer` | `io/BithreadCircularBuffer.cpp`, the state of `SharedCircularBuffer.h` | the two buffers (EXTENDS) |
| `FifoBuffer` | *abstract*: what a buffer promises | refined by the two below |
| `PacketBuffer` | `io/PacketBuffer.h` | |
| `DataBuffer` | `io/DataBuffer.h`, `BufferedDataConsumer.cpp`, `BufferedDataSource.cpp` | |
| `PagedBuffer` | `io/PagedBuffer.cpp` | |
| `Rendezvous` | *abstract*: what a channel without storage promises | refined by `Pipe` |
| `Pipe` | `io/SynchronizedPipe.h`, `BithreadPipe.cpp`, `BufferedPipe.cpp` | |
| `WrittenFile` | *abstract*: a file that is written at once | refined by `AsyncByteStream` |
| `AsyncByteStream` | `io/AsyncByteStream.cpp` over several rings | |
| `Future` | `future.h` | |
| `Timer` | `executor/Timer.cpp` | `ExecutionDeferrer` (EXTENDS) |
| `ExecutionDeferrer` | `executor/ExecutionDeferrer.cpp`, composed of `Timer`'s actions | |
| `ThreadPool` | `executor/ThreadPool.cpp` | checked in `TaskExecutors` |
| `Observable` | *abstract*: what a value with subscribers promises | refined by `Signal` |
| `Signal` | `signal/signals.h`, `signal_policies.h`, `ObservableValue.h`, `function/AsyncFunction.h` | |
| `DictionaryStore` | *abstract*: a map with one atomic transaction at a time | refined by the next |
| `TransactionalDictionary` | `collection/TransactionalDictionary.h` and its two companions | |
| `Waits`, `TaskExecutors`, `RingBuffers`, `PagesAndPipes` | the state of several components, of which a behaviour moves one: plain waits and joined ones; the two executors and the pool; the two buffers over a ring; the paged buffer, the pipes and futures | checked and proved about together |
| `MC*` | values of the constants for TLC | one per run |
| `*_proofs` | the proofs about the module they are named after; `Timer_proofs` is also about the deferrer | |

A definition named "Mutated form of ..." is not part of a specification: it is an
operation with a plausible mistake in it, and replaces the operation when one wants to see
that a property would notice.

## 3. Modelling conventions

* **Atomicity.** A section of code under a mutex that waits for nothing else is one
  action. A mutex that is held across something that takes time (a life token's during an
  execution, the signal's during an invocation, the pool's during a join, the waiters' in
  `CancellableWait`, the dictionary's during a commit, the deferrer's during Cancel) is a
  variable. Wherever the code releases a mutex and takes it again the action ends, and what
  was read before is kept in a variable and used afterwards.
* **Waits.** `CancellableWait` shows what a wait with a token does; the other modules use
  that: a wait ends after a broadcast, after a cancellation, or for no reason (spurious
  wake ups are real for pthreads). A broadcast that reaches a thread and the thread's return
  from the wait are two steps where something may come in between.
* **Data.** Tasks, threads, tokens and connections are model values. A byte is its number
  in the stream, a packet its number and size. Time is a bounded natural.
* **Histories.** Variables that the code does not have (`released`, `added`, `executed`,
  `told`, `earlier`, `seenTo`, `store`, ...) record what happened for the properties; no
  guard looks at them, save those that bound the model and those that keep a client from
  calling again what it has finished with.
* **The user's code** (tasks, slots, consumers, pages, streams) does what it may do at any
  time: it ends, or throws; a task may add tasks or release its own token; a slot may take
  the signal's mutex or disconnect itself; a deferred task may defer again; a stream may
  take any part of what it is given.
* **One run for several components.** Where components answer the same question (may a
  waiter be forgotten? does the executor keep its promise?) a module (`Waits`,
  `TaskExecutors`, `PagesAndPipes`) holds the state of all of them and decides at the start
  which of them moves. The others stand still, so the states add up and do not multiply, and
  a property of one is trivially true while another moves. The theorems are about these
  modules, for every choice. `TaskExecutors` has two runs, one for the executors and one for
  the pool, which start with what they are about (`SerialFairSpec`, `PoolFairSpec`).

## 4. The components and their models

**Tokens and waits.** `CancellationToken` has one action per critical section of
`CancellationToken::Impl`. `Cancel()` is three: read the handler and set `_cancelled`
(`CancelBegin`), call it (`CancelCalled`), set `_cancelDone` and broadcast
(`CancelFinish`). `CancellableWait` runs `while (token) cond.Wait(mutex, token)` in each
waiter: `Register`, `Block`, `Reacquire`, `Release...` and the destructor of the holder,
`Unlock`, `UnregisterWait`, `Relock`. Cancellers may hold the waiters' mutex around
`Cancel()`. A timed waiter may be refused at registration and may time out at any moment,
also together with a cancellation. `JoiningWait` replaces one registration by two.

**Life tokens.** `TaskLife` keeps the flag, the holder and the depth of the recursive
mutex. `TryStartExecution` locks and stays locked, `Kill` needs the mutex.

**Executors.** `AsyncTaskExecutor` is the worker's loop (`WaitForTask`, `TakeTask`,
`StartTask` or `SkipTask`, `FinishTask`, `Exit`), `AddTask` from anywhere, the destructor
(`CancelWorker`, `JoinWorker`), and *outsiders*: other threads that execute under the same
life tokens and release them. `DeferredTaskExecutor` has the loop in whichever thread
calls `ExecuteTasks`. Both map to `SerialExecutor`: a task that was taken out and is not
yet running is still the first of the pending ones.

**PagedBuffer.** Page *k* ever made holds the bytes from *k* × `PageSize` of the stream;
`cells` says which byte of which push that is. `dropped`, `pages`, `start`, `current` and
`tail` are the code's counters, taken modulo `Width` where the code subtracts unsigned
numbers. `Push` writes the tail outside the mutex (`WriteTail`), counts it (`CountTail`),
and inserts pages (`AppendPages`), or fails (`FailPush`). `Read` remembers the offset
(`BeginRead`) and moves it if it is the same number afterwards (`EndRead`). `sequential`
is true as long as nobody has called `Seek` or popped what was not read.
*Assumption on what is not in the repository:* a page offers a reader what `Push` has
counted. With pages that offer bytes as soon as they are written, before `CountTail`,
`Read` may move behind the end of the data; an implementation of `IPage` has to know that.

**PacketBuffer, DataBuffer.** Writers go through `SharedWriteSynchronizer` one at a time
(`writer`), and keep calling until their data is taken (`ConsumeAll`). `writing` is what
the one inside does. `Clear` may come at any time; in the packet buffer it throws if a
reader or writer is inside, after it has emptied the packet queue (`ClearThrows`). The
overflow of a buffer with `discardOnOverflow` is `Discard`. Both map to `FifoBuffer`.

**Pipes.** `SynchronizedPipe::Write` swaps the pipe out of `_pipe` (`holder`) or waits for
it; `BithreadPipe::Write` stores a reference to the caller's bytes (`data`), wakes the
reader and waits until `data` is null; `BufferedPipe::Read` fills its buffer from as much of
it as fits and hands that on bit by bit. Cancellation and timeout are possible at each wait
(`GiveUp`, `NotStarted`, `Abandon`, `CancelRead`), and `CheckedWriteAll` throws when the
token is cancelled though all was sent (`ReturnThrowing`). Under the refinement mapping what
the reader's buffer holds is delivered: `Rendezvous` says that the bytes delivered are, in
order, a beginning of each write, all of it if the write returned, and that the bytes
of a write that has ended are not referred to. `PipeReader` and `PipeDataSource` call `Read`
and keep nothing.

**Futures.** `Future` has the shared state, two kinds of waiters (`get` and `wait` with a
token), the three ways to end (a value, an exception, the destruction of the promise).

**AsyncByteStream.** A queued write has a place in the file, a region of a ring, and a
number of used bytes. The region may be larger than the data (`prealloc`), so that a write
that continues it is merged into it (`MergeTarget`: the last queued operation that ends at
the position, has room, and whose region no later operation touches). The worker takes an
operation from the queue, gives up the mutex, calls the stream (`TakeWrite`, `TakeSync`) and
locks again (`StreamWrites`, `StreamSyncs`): what the stream did not take goes back to
the front, what it took is popped from the ring. `Reconfigure` queues the end of the old ring
behind its last write. The stream may throw (`WorkerFails`), as may `Sync` then; a call
that has already found that it did not is `called`, and goes on without effect on the file
but for the position. A cell of a
ring that is free contains `Junk`, so a block that was read from the wrong place would be
noticed. All waits of this class are of a second at most, so who waits looks again without
being woken: broadcasts are left out. One thread uses the object, since `_position` has
no protection. The refinement mapping says what the stream *will* contain when everything
pending is written; `WrittenFile` changes it at once with each write.

**Timer.** Callbacks of `AddTask` (of delay 0, under the caller's life token or none) and
those of `SetTimeout` and `SetTimer` (with a token of their own, which removes them). The
call reads the clock (`Stamp`) and inserts later (`PushNew`) behind what has the same or an
earlier time (`Emplace`); a removal erases (`Erase`) and releases later
(`ReleaseCallback`). The worker pops what is due, reads the clock for a restart, executes
under the token, restarts. After the cancellation it drains. The worker's thread itself is
one of those that may call.

**ExecutionDeferrer.** Each of its calls is composed of the timer's own actions, with the
deferrer's state beside them: `Defer` is `Stamp` and `PushNew` of a call of `DoDefer` under
the deferrer's life token; `DoDefer`, in the timer's thread, is `Stamp` and `PushNew` of the
task's callback and the assignment of its token, whose old value removes the old callback
(`Erase`, `ReleaseCallback`). `Cancel` resets the life token (it waits for a `DoDefer` that
runs), removes what is set, and gives out the new tester at the end, all under
`_cancelMutex`. The token of the deferred task has no mutex; `HeldByItsToken` says that the
life token is enough. As `ExecutionDeferrer.h:41` demands, tasks do not call `Cancel`.

**ThreadPool.** Worker 0 is the pool's own thread, workers 1.. are in slots. A worker's
position (`pc`) says whether it is in a task, on its way to `TaskCompletedHandler`, about
to sleep, or asleep. The main worker's idle sweep looks at one slot after the other
(`PassOver`, `CancelIdle`, `JoinIdle`) with the pool's mutex held (`Locked`); the
destructor cancels and joins in the order of the members.

**Signal.** `Invoke` copies the handlers; `CallSlot` starts a synchronous slot under its
life token, `AddSlot` puts an asynchronous one into the executor's queue, `SkipSlot` finds
the token dead. `RemoveHandler` and `ReleaseToken` are the two halves of a disconnection.
`locking` chooses between `ObservableValue::Set`, which holds the recursive mutex around
the change and all calls, and a plain signal. `Connect` sends the current value first,
`ConnectSilently` does not (`sendCurrentState` of `signals.h:139`). Slots may end without the
mutex, or take it. The
refinement mapping counts as *owed* to a connection what is in the executor's queue for it
and the argument of an invocation that has still to call it.

**TransactionalDictionary.** A transaction has its own maps, `added` and `removed`, and the
shared `items`. Enumerators and diffs share the map they enumerate and who changes a shared
map first copies it (`CopyOnWrite`): a snapshot is `Live` while it shares the current map,
and keeps the old content once the map was `Detached`. `Commit` locks `Guard` and is a
step for the removals (`CommitRemove`), one for each key that is added (`CommitAdd`), one for
each entry that the slots are told (`Announce`, `AnnounceEntry`, `AnnounceEnd`) and one for
the final `Revert`, which happens without the guard. It may fail while it adds
(`CommitFails`): the items stay half changed, nobody is told, and the transaction's maps no
longer fit the items until it reverts or ends (`torn`, `missed` leave these states out of the
properties that cannot hold then). `DictionaryStore` sees the commit at once at
`AnnounceEnd`, when the guard is unlocked; a failed one leaves each key with its old value,
its new one, or none.

An iterator is the key it is at, or `PastEnd`. The enumerator of a transaction
(`SortedCollectionTransactionEnumerator`) is its three iterators in `walks`; `WalkOver` is
its constructor, from the first entry or from a key that is there, in either direction, and
`Advance` is one turn of the loop in `Next`, with `UpdateEntryType` as `EntryType`. Between
two turns anything else may happen to the maps. Of a walk the model also remembers which keys
are `ahead` and whether it was made after a failed commit. `diff` holds the two iterators of
the diff that the slots of `OnChanged` go through. The slots run one after the other with
`Guard` locked, where nobody sees how far they are; the model lets them go side by side.
`told` and `keyTold` are what an observer that applies each entry, and the slot of a
`TransactionalDictionaryKeyValue`, have made of it.

## 5. Runs, bounds and what they show

TLC explores each instance completely; the numbers are distinct states.

| run | instance | states | properties |
|---|---|---|---|
| `cancellable_wait` | one timed waiter that waits and sleeps again and again, or one waiter on two joined tokens; two cancellers | 8 400 | `HandlerAlive`, `NoLostCancel`, `JoinedWaitIsSafe`, `EveryoneReturns` |
| `joining_wait_lost` | two joined tokens, two cancellers | | `NoLostCancel`, violated |
| `task_executors` | three tasks, two of one life token; an asynchronous executor with two outsiders, or a deferred one with two executing threads and one that releases | 4 900 | `NothingRunsAfterRelease`, `ImplementsSerialExecutor`, `DeferredImplementsSerialExecutor`, `SerialExecutorsGoOn` |
| `pages_and_pipes` | pages of two chunks of two bytes, two pushers, pushes of 1, 3 and 6 bytes, 7 in all; or three writes of 1 or 3 bytes by two clients to a buffer of 2; or two threads that get and wait for one result | 216 000 | `NothingSkipped`, `PushesStayWhole`, `WaitsOnlyWithoutData`, `PipesAreARendezvous`, `WritesAndGetsEnd` |
| `paged_buffer_pop` | the same pages | | `NoBrokenInvariant`, violated |
| `packet_buffer` | 5 bytes, two writers, packets of 1 to 3 bytes, 4 stored | 374 000 | `PacketsStayInPlace`, `WaitersWillBeWoken`, `ImplementsFifo`, `OfferIsTaken` |
| `data_buffer` | 6 bytes, input packets of 2, output packets of 3, two writers, 12 bytes | 77 000 | `BytesStayApart`, `BytesImplementFifo`, `BytesAreTaken` |
| `timer` | two AddTask callbacks and a timer of delay 1 and period 0, two clients, clock up to 1; or a deferrer of two clients with two deferrals before a Cancel and one after it | 170 000 | `NothingRunsAfterRemoval`, `NeverOversleeps`, `StartedInOrder`, `DrainedAtExit`, `NothingEscapesCancel`, `EverybodyReturns` |
| `thread_pool` | three threads, five tasks, two clients | 41 000 | `NobodyIsForgotten`, `JoinsOnlySleepers`, `NobodyWaitsForThePool` |
| `signal` | one synchronous and one asynchronous connection, two users, two values, three invocations | 164 000 | `NothingCalledAfterDisconnect`, `ImplementsObservable`, `EverythingSettles` |
| `async_byte_stream` | a file of two bytes, two values of which one is written once, a ring of 2 and, after a reconfiguration, one of 3, one Sync | 520 000 | `BlocksFollowTheRing`, `ImplementsFile`, `CallsReturn` |
| `transactional_dictionary` | three keys, one of them with two values, two threads, an enumerator or diff, an observer, a watched key | 925 600 | `WaitersAreWoken`, `QueriesAgree`, `ObserversFollow`, `SnapshotsStay`, `ImplementsStore` |

Why the bounds are enough to meet the interesting cases:

* one waiter and two cancellers: a token belongs to one waiter, and two are what it takes
  for a second `Cancel()` to overtake the first one (it returns while the first is still on
  its way). Any number of both is proved. The model has no bound: tokens are reset and used
  again, for ever.
* three tasks: one running, one behind it under the same token, one without a token;
  two outsiders: one that executes and one that releases.
* the paged buffer: pushes that end within a chunk, at the end of a page, and beyond one;
  7 bytes make two pages, so that a whole page can be dropped before and behind the read
  position. `Width` is far above all offsets that the properties call good, so a difference
  below zero is a large number, as with 64 bits.
* the pipes: a write that fits in the reader's buffer and one that does not, reads of a part
  of the buffer; the third write begins while the bytes of the first are still there.
* the rings: a size that packets do not divide (5 with packets of up to 3, so that padding
  of 1 and 2 occurs) and that input and output packets divide differently (6 with 2 and 3);
  enough packets and bytes to go round twice.
* the asynchronous stream: a write that overwrites, one that continues and one that
  is merged into what the worker has not begun; a region with room left and one without;
  one block in each of two rings; a block written in part and put back.
* the timer: time 0 and 1 give the order of times, equal times and a deadline; the period
  of 0 is the hardest case for the drain and the restart, since the callback is always due.
  Three deferrals are one that is replaced, one that is cancelled, one that follows.
* the pool: three threads are the main worker and two slots, enough for a sweep that
  passes one slot and destroys another, and for the trimming of the last one; five
  tasks fill it once and refill it.
* the signal: a second connection to be called before and after the first one; three
  invocations, so that one is in progress, one finished and one to come.
* the dictionary: three keys, so that an enumerator has an entry before and behind one that
  is added, replaced or removed; two values make a replacement. The constraint `Focus`
  keeps snapshots and observers apart, which do not meet in the code, and takes one key away
  while either is there; all three keys are used with neither, and for an enumerator of a
  transaction as long as the maps do not change under it. What is left out is proved. The two threads are
  symmetric, and the run has no liveness property. Clients call again for ever.

The deadlock check is off in `signal` (when the invocations have been used up and everybody
has disconnected, there is nothing left to do) and in `async_byte_stream` (the object is
destroyed). All bounds are constants of the modules: `MaxBytes`, `MaxPackets`, `MaxWrites`,
`MaxPosition`, `MaxWrite`, `MaxSyncs`, `MaxBuffers`, `MaxTime`, `MaxInvocations`,
`MaxThreads`, and the sets `Once` and `Offers`. Elsewhere each task and each connection is
used once, and the sets are the bounds.

What the liveness properties `EveryoneReturns`, `SerialExecutorsGoOn`, `NobodyWaitsForThePool`,
`WritesAndGetsEnd`, `EverybodyReturns`, `EverythingSettles` and `CallsReturn` say differs by module; each is a
conjunction of leads-to properties with names of their own next to it: that a cancelled
wait ends and `Cancel()` returns, that every task is taken from the queue and the
destructor and `Release()` return, that the flag of a deferred executor is cleared again, that `WaitQueue` returns as long as the tasks in the
slots end, that a write through a pipe ends while somebody reads.

## 6. Fairness

Nobody has to call anything: no fairness is assumed for `AddTask`, `Push`, `Set`, `Write`,
`Pop`, `Seek`, `Defer`, `Clear`, a cancellation, a release, a timeout or an idle timeout.
What is assumed:

* **a running thread goes on** (weak fairness for the steps of a worker, of a canceller and
  of a thread in the middle of a call). This is the operating system's scheduling.
* **a mutex that is free again and again is obtained** (strong fairness for the steps
  that lock): `CancellableWait`, the life tokens, `CompletedHandler` and `Retry` of the
  pool, the users of the signal, the writers of the buffers. POSIX does not promise it, but
  each of the mutexes is held for short sections with pauses between them. The pool's sweep
  pauses for a whole idle timeout.
* **tasks, slots, consumers and copies end**, where a property depends on it. A slot is
  promised to end only while it can have the signal's mutex, as it may be one that takes it;
  the slots that do not need it may end at any time. The pool's
  `TaskIsStarted` does not: it holds though every task runs for ever. `WaitQueueReturns`
  assumes only the tasks in the slots to end, and says so in the formula. Of the deferred
  executor it is the thread in `ExecuteTasks` that goes on.
* **a sleeping worker is woken by its cancellation**: in `AsyncTaskExecutor` this is weak
  fairness of `WakeUp /\ cancelled`, and is what `CancellableWait` shows.
* **the clock goes on** (`Timer`).
* **a reader keeps reading** (`PacketBuffer`, `DataBuffer`, `Pipe`), and a writer whose data
  was not taken keeps offering it (`ConsumeAll` does).
* **a stream takes something now and then** (strong fairness of `Progress` in
  `AsyncByteStream`): one that takes nothing of what it is given, again and again, keeps the
  worker in its loop, and the destructor waits for it. The destructor cancels the token
  that the worker passes to the stream (`AsyncByteStream.cpp:376`). A stream that answers
  by taking nothing at all would keep the destructor waiting for ever, and is excluded by
  this assumption; one that throws is `WorkerFails`. Streams like `MemoryByteStream` do not
  look at the token.

`PagedBuffer` and `TransactionalDictionary` are checked for safety only. In the dictionary the thread with the transaction may keep it, so that a constructor
may wait for ever; `WaitersAreWoken` is what the code can promise.

## 7. Proofs

Proved by TLAPS for every value of the constants that satisfies the named assumptions
(threads, tokens and tasks are distinct from each other and from the null values, each
waiter has a token of its own, and what a cell holds before it is written, like the content
of a stream that has failed, is none of the contents that are compared; the keys of the
dictionary are a finite set of integers, as ordered as any keys, an iterator at the end is at
none of them, and watched keys are keys). No other assumption
is used, but for the one that `WaitersWillBeWokenAlways` states itself. Each proof has a lemma for the
initial states, lemmas for groups of actions with a step per action, one that joins them
into the inductive step, and the theorems follow by propositional temporal logic. None of
the safety properties is inductive by itself; what each proof adds is this.

**`Waits_proofs`**: of the plain wait `TypeCorrect`, `HandlerAliveAlways`,
`NoLostCancelAlways`, for any number of waiters and cancellers. `IInv` adds:

* `MutexInv`: who holds the waiters' mutex, by position;
* `HandlerInv`: a token has a handler exactly while its waiter is between registration and
  withdrawal;
* `WaitInv`: who is blocked is at the place where one blocks, and not on account of a
  cancellation that is complete;
* `Cancelling` and `OneCanceller`: a canceller between its first and last section has set
  `cancelled` and nobody has set `cancelDone`, and there is one such canceller per token.
  This keeps `HandlerAlive`: the waiter can leave only after `cancelDone`, and nobody but the
  very canceller that is in the call will set it;
* `WakerComing`: whoever is blocked, or about to, on a cancelled token will be woken: the
  call of the handler is still to come. From it `NoLostCancel` follows, since with
  `cancelDone` there is no such canceller.

Of the wait on two joined tokens `JoinedWaitIsAlwaysSafe`. `Remembered` ties what the joined
token remembers to the waiter's position, `JoinedHandlers` to the tokens; `CallsRegistered`
says that a token whose canceller is about to call is remembered, so that the waiter has not
passed the withdrawal from it. `JoinedWakerComing` is as above for each token that *took*
the handler, and not for both: the invariant breaks off exactly where `joining_wait_lost`
begins.

**`TaskExecutors_proofs`**: of `AsyncTaskExecutor` `TypeCorrect`,
`NothingRunsAfterReleaseAlways`, `Implements`. `IInv` adds `HolderInv` (the mutex of a life
token is held, once, by exactly the thread that executes under it: the worker or an
outsider) and `ReleasedInv` (a released token is dead). A `Release()` that gets the mutex so
finds nobody executing, and the cleared flag lets nobody in afterwards. `Implements` shows
that every step of the executor is, under the refinement mapping `Promise`, a step of
`SerialExecutor` or changes nothing there; `PutBack` and `TakeOut` are the two facts about
sequences it needs: a task that is taken from the queue and put back in front of it leaves
it as it was. Of `DeferredTaskExecutor` `DeferredImplements`, the same refinement. There any
thread may execute; what it rests on is that at most one of them is past the first lines of
`ExecuteTasks`, and has the task that is taken out.

Of `ThreadPool` `NobodyIsForgottenAlways`, `JoinsOnlySleepersAlways`. `IsIdle` looks at three
flags that were set at different moments; `PoolPositions` says what they tell of the place
where the worker is, so that a worker without a task, completed and idle, is asleep without
a timeout, or has ended. `PoolCancels` says that before the destructor only the worker that
is being joined is cancelled, and the pool's mutex keeps tasks from that one; so no task is
given to a worker that will not run it. `PoolWaiting` is what the clients wait to queue. The
steps of a worker, and of the main one, differ in few things that matter: `Moves` and
`MainMoves` say in which, and the invariant is proved once for each.

**`PagesAndPipes_proofs`**: of `PagedBuffer` `NothingSkippedAlways`,
`PushesStayWholeAlways`, `WaitsOnlyWithoutDataAlways`, for pages, chunks and pushes of any
size. The first needs `Following`: a `Read` gives up the mutex between the offset it
remembers and the offset it compares with, and the position in the *stream* that it began
at is kept whatever is popped in between, as long as that has been read. So the comparison
of `PagedBuffer.cpp:112` says the right thing; `Room` and `Width` keep the unsigned
differences from wrapping. The second needs `Continues`, which says, for each place where
`Push` has given up the mutex, which push the bytes behind the end of the data belong to.
Of the pipes `PipesImplementRendezvous`: `Holding` says that the client that has swapped the
inner pipe out is the only one inside, `Referring` that the pipe refers to bytes only while
their owner is there, so each step is one of `Rendezvous` or changes nothing there.

**`RingBuffers_proofs`**: of `PacketBuffer` `PacketsStayInPlaceAlways`,
`WaitersWillBeWokenAlways`, `PacketsImplementFifo`. The packets have places in the ring, one
behind the other from the read offset to the end of the data, each in one piece, where
`Skip` moves the one that comes behind the padding to the beginning of the storage (`Laid`);
their bytes are there (`Held`). So the reader finds its packet where `AtPadding` says that
it is, and a writer that has left the mutex works outside all of these places (`Writing`),
whatever is popped and skipped meanwhile. The places are an existential: each lemma of a
step names the new ones, by dropping the first, adding a last one, or moving the first
behind the padding. After a `Clear` that threw they are lost, and all that is left of them
is that the packets are no more than the data (`Measured`); it is enough for the number of
packets to be bounded by the bytes, which the refinement needs. The wake ups are proved for
packets of at most half the storage, rounded up, which the theorem assumes in its statement;
larger ones may wait for ever (section 8). `EmptyFits` is the arithmetic of it.

Of `DataBuffer` `BytesStayApartAlways`, `BytesImplementFifoAlways`. `PuttingBytes` and
`TakingBytes` say that each side works within the region it was given, in whole packets;
`BytesPushed` and `BytesPopped` that a `Push` does not make the reader's region smaller, nor
a `Pop` the writer's, whichever of them turns `_dataIsContiguous`. The rest is arithmetic:
whole packets added to whole packets, or cut off, are whole packets (`WholePackets`), so an
offset meets the end of the storage and never steps over it. For the refinement `Slice` is
what the ring holds, and four lemmas say how it changes: copying outside it does not
(`SliceStays`), and it gets longer behind (`SliceGrows`) and shorter in front
(`SliceShrinks`).

**`Timer_proofs`**: of `Timer` `NothingRunsAfterRemovalAlways`, `NeverOversleepsAlways`,
`StartedInOrderAlways`, `DrainedAtExitAlways`. The invariant says where each callback is:
once added it is queued, with the worker, served or erased, and an erased one is not queued
(`Places`); nobody but the worker executes, so a token's mutex is locked once (`Holding`).
`Precedence` says that for the callbacks of delay 0 the order of times is the order of
additions, and that the queue is in that order where times are equal: it is here that an
insertion must come behind its equals. `Ending` relates the drain to the time of the
cancellation. The lemmas about `RemoveAt` and `InsertAt` (`Removed`, `Inserted`, `TakenOut`,
`PutIn`) say that a queue stays sorted and which order its elements keep. Of
`ExecutionDeferrer`: `DeferrerUsesTimer`, that each of its steps is one of `Timer`, so all
that is proved of the timer holds under it; and `NothingEscapesCancelAlways`. `UnderTester`
says that a deferral is made under the tester that is given out, `Held` that the callback
that is set is the one the deferrer's token removes, `Killed` that what was removed is dead;
so when `Cancel` gives out a new tester nothing is left that runs, or will, of the old one
(`Final`). The mutex of the life token is what makes `Held` hold between the steps
of `DoDefer`.

**`Signal_proofs`**: `NothingCalledAfterDisconnectAlways`,
`ImplementsObservableAlways`. For the first, the types say who holds a
connection's token: exactly the thread that is in its slot, once (`OneDeep`). A thread that is
not in the slot and gets the mutex finds nobody there, and the flag it clears keeps out who
comes with an old copy of the handlers or an old task in the executor's queue. The second is
that a signal that is invoked under its mutex is an observable value: every connection is
told each value from its connection on, once and in order, the one it finds included if it
is populated (`Subscribes`). What a connection is *owed* are
the arguments of its tasks in the executor, found by their ranks among all tasks, then that
of the invocation under way. `Copies` says that an invocation calls each connection once
and that an invocation that is under way holds the signal's mutex, so it is the only one;
`Attached` that whoever is in the list of handlers is alive, `Strangers` that a connection
to come has no tasks yet. The lemmas about ranks
say that a task added behind is the last of its connection and the one taken in front
was the first (`ArgumentAppended`, `ArgumentTaken`); they go by induction over the natural
numbers, which `AllNumbers` states for sets, from the well-foundedness of `<`.

**`AsyncByteStream_proofs`**: `BlocksFollowTheRingAlways`, `FileImplemented`,
`ReturnsAreLate`, for any number of rings of any size. The invariant is about the
operations that are not done, the write that the worker has taken out, or failed at, in
front of those queued (`Pending`), and the rings: whoever starts at the place that is read and follows the
operations, from region to region and to the next ring where a `PopBuffer` is, ends at the
place that is written (`Laid`); regions of one ring share no cell and lie in its data
(`RegionsHeld`). So the worker is always given the block that it is to write. There is one
lemma for each way to change the two: an operation is queued, a region is used further, the
first write is taken in part or as a whole, a ring is popped, one is added.

For the content, `OutcomeAt` is what a place will hold: the datum of the last operation that
covers it, or what is in the stream. The same changes are followed: taking a block in part
moves the place where a datum is from a region to the stream, popping cells touches no
region that is left, and using a region further (`OutcomeUses`) changes the places of the
new write only, since nothing behind that block covers those or writes to them
(`NothingBehind`): that is what `MergeTarget` looks for. So each
`Write` is one of `WrittenFile` and nothing else changes what the file is going to be, until
the stream throws. `ReturnsAreLate` is the safety part of `CallsReturn`: `QueueOrdered` says
that the `Sync` or `Stop` that a caller waits for is the last operation that is queued, so
when it is done nothing is left.

**`TransactionalDictionary_proofs`**: `NobodyIsForgotten`, `SnapshotsNeverChange`,
`AnswersAgree`, `ObserversHaveTheItems`, `DictionaryIsAStore`. While a commit is under way
the items are the old ones, less what was removed and with some of what was added, and what
is left to add is known (`Halfway`); so the transaction's view is constant throughout and is
the items at the end. A key that is added over one that is there is also removed, and what is
removed is there (`MapsAgree`, of the transaction `Matched`), so removing it again leaves
nothing. `NotHeld` says that the items a commit changes entry by entry are in no snapshot.
With one transaction at a time (`OneOwner`) each step is a step of `DictionaryStore` or
changes nothing there; `EditsMaps` reduces all operations of a transaction to one.

`AnswersAgree` is about maps and iterators that other steps replace and copy meanwhile.
`WalkSound` says of a walk by its iterators which keys are ahead: the added ones that the
iterator into the added has not left behind, and of the items, where they are not removed,
those that the iterator into the items has not; and that the iterators into the items and
the removed have left the same removed entries behind. With `MapsAgree` of the three maps
that the walk holds it follows, with a lemma for each kind of entry, that the enumerator
never finds a removed entry which is not among the items, that what it gives is the first
entry of the overlaid maps among the keys ahead, and that a turn of the loop leaves the
three iterators as they should be: an entry that is passed as removed has the key of none
that should be given. `FirstExists`, that a non-empty set of keys has a first one in either
direction, is where the keys have to be finite, as they are for the counts. What is left is
that no step changes what a holder finds, which is the argument of `SnapshotsNeverChange`
again. The numbers of entries follow from `Cardinality` of disjoint unions.

For `ObserversHaveTheItems`, `DiffSound` says of the two iterators of the diff that an added
entry is not left behind before the removed one with its key. `ToldSound` says key by key
what an observer has between two steps (`Heard`): the added value if that entry has been
told, nothing if only the removed one has been, and what was there before the commit
otherwise. At the end both iterators are past the end, and every key has the value of the
items.

**Only model-checked**, for the bounds above: liveness, and whatever needs `ENABLED`, which
the prover does not reach. Every invariant of the runs that hold has a theorem.

## 8. Where the code and the expectation part

Two runs end in a counterexample, and are kept because of it.

* **`joining_wait_lost`.** A `JoiningCancellationToken` registers the handler in its two
  tokens and accepts if either took it (`JoiningCancellationToken.cpp:53`). If one of
  them is cancelled after the caller tested the joined token and before the registration,
  the wait blocks on a token that is cancelled, and the canceller, long gone, does not wake
  it. `JoiningCancellationToken::Sleep` is such a wait. `JoinedWaitIsSafe` shows what is
  left: the other token's cancellation ends the wait.
* **`paged_buffer_pop`.** `PagedBuffer::Read` takes an unchanged number in
  `_currentOffset` for an unchanged position (`PagedBuffer.cpp:112`). A `Pop` of whole pages
  past the read position, while `Read` is in the page, moves the position and can leave the
  number as it was; `Read` then moves it once more, behind the data, and the next
  `Read` computes a huge unread size and throws its "Broken invariant". As long as what is
  popped has been read, `NothingSkipped` holds and the exception is not thrown.

Behaviour seen while modelling for which nothing in the repository says what is right, so
that no run claims it; each is in the hazards of `PROJECT.json`:

* a packet of more than half the storage may wait for ever in an empty `PacketBuffer`, if
  it needs padding (`PacketBuffer.h:118`);
* `PacketBuffer::Clear` that throws has emptied the queue of packets, not the ring
  (`PacketBuffer.h:196`), and no property follows it from there;
* `DataBuffer::WaitForData` with a threshold above what the writers can fill, and the
  writers, wait for each other (`DataBuffer.h:93`);
* `PagedBuffer::Seek` back does not wake a waiting reader (`PagedBuffer.cpp:241`);
* an accepted task that has not started is dropped by the destructor of `ThreadPool`
  (`ThreadPool.cpp:81`);
* a `Commit` that throws half way leaves the items half changed, tells no observer, and
  leaves the transaction with maps that no longer fit the items
  (`TransactionalDictionary.h:490`);
* a cancelled `Write` to a pipe may have sent everything (`BithreadPipe.h:66`).

## 9. What is not modelled

* *Memory orders and object lifetimes:* the atomics of `thread/atomic`, reference counts,
  singletons, a timer callback that destroys its own function object. TLC interleaves
  sequentially consistent steps and would not see their difficulty.
* *What user code can do to itself:* a task that waits for room in its own pool, two slots
  that disconnect each other, a slot that sets the value it is told of or starts a
  transaction on the dictionary it observes. Each leads to a deadlock or to an order nobody
  wants, without anyone having promised otherwise.
* *Parts of modelled components:* `TransactionalList` (a diff of positions), the proxies of
  transactional collections, the length and the low water mark of `AsyncByteStream`, the
  threadless policy and `SendCurrentState` on its own of signals, the remaining time of timed tokens.
* *Sequential code:* collections, caches, ranges, strings, time, locale, serialization,
  compression, numbers, functions, metaprogramming. It is most of the repository; a
  unit test reaches it.
* *Output:* logging, diagnostics, profilers.
* *Real time:* a timeout is a choice that may come at any moment; in `Timer` time has an
  order and a deadline but steps take none of it.

## 10. Plan

The order was: what everything waits on (tokens), what everything runs under (life tokens),
the executors, the buffers, the timer, the pool, signals; then what stands on them: the
deferrer, the pipes, futures, the asynchronous stream, and the transactional dictionary.
All of these are modelled and checked.

Every invariant, every action property and every refinement that the passing runs check is
also proved; what is left to TLC is listed in section 7.

Next, models: `TransactionalList` with its diffs of positions, slots that invoke their
signal again, the caches as pure algorithms against a reference.
