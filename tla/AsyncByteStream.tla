--------------------------- MODULE AsyncByteStream ----------------------------
(***************************************************************************)
(* io/AsyncByteStream.cpp: writes to a stream are queued and a worker      *)
(* thread makes them. The data of a queued write lies in a region of a     *)
(* ring buffer that is larger than the data where there is room, so that   *)
(* the writes that continue it may be merged into it.                      *)
(*                                                                         *)
(* The queue is used under a mutex that the worker gives up while it calls *)
(* the stream, which may take any part of the data, or throw. All waits    *)
(* are for a second at most: who waits looks again without being woken, so *)
(* broadcasts and the low water mark of Write are not in the model.        *)
(*                                                                         *)
(* One thread uses the object, as its position is unprotected. A chunk of  *)
(* ring that is popped becomes Junk, as its next user need not write it.   *)
(***************************************************************************)
EXTENDS Integers, Sequences, SequencesExt

CONSTANTS
    Bytes,          \* what the user writes
    Old,            \* what the stream contains at first
    Once,           \* bound: the bytes of which there is one write at most
    Junk,           \* what a free cell of a ring contains
    Lost,
    Configs,        \* configurations: records of size, prealloc, nonBlocking
    FirstConfig,    \* that of the constructor
    MaxPosition,    \* bound of positions
    MaxWrite,       \* bound of the size of a write
    MaxSyncs,       \* bound of the number of calls of Sync
    MaxBuffers      \* bound of the number of rings there ever are

ASSUME ConfigsAssumption ==
    /\ Configs \subseteq [size : Nat \ {0}, prealloc : Nat \ {0}, nonBlocking : BOOLEAN]
    /\ FirstConfig \in Configs

VARIABLES
    position,       \* _position
    queue,          \* _streamOpQueue
    buffers,        \* _buffers, from the worker's to the one that is written
    config,         \* _config
    syncNext,       \* _syncNext
    syncDone,       \* _syncDone
    wasException,   \* _wasException
    worker,         \* where the worker is
    opData,         \* the operation it performs
    user,           \* where the user is
    stream,         \* external: what the stream contains
    synced,         \* external: it was not written since its synchronization
    bufferCount,    \* history: how many rings there have been
    spent           \* history: the bytes of Once that were written

syncVars == <<syncNext, syncDone>>
streamVars == <<stream, synced>>
configVars == <<config, bufferCount>>
vars == <<position, queue, buffers, configVars, syncVars, wasException, worker,
          opData, user, streamVars, spent>>

Places == 0 .. MaxPosition - 1

ASSUME ContentAssumption ==
    /\ Junk \notin Bytes \cup {Old}
    /\ Lost \notin [Places -> Bytes \cup {Old, Junk}]
ASSUME PositionAssumption == MaxPosition \in Nat

Larger(m, n) == IF m < n THEN n ELSE m
Smaller(m, n) == IF m < n THEN m ELSE n

-----------------------------------------------------------------------------
(* BithreadCircularBuffer, one of several *)

Ring(id, size) ==
    [id |-> id, size |-> size, write |-> 0, read |-> 0, contiguous |-> TRUE,
     cells |-> [c \in 0 .. size - 1 |-> Junk]]

DataSize(ring) ==
    IF ring.contiguous THEN ring.write - ring.read
    ELSE ring.size - ring.read + ring.write

FreeSize(ring) == ring.size - DataSize(ring)

WriterSize(ring) ==
    (IF ring.contiguous THEN ring.size ELSE ring.read) - ring.write

Wrapped(ring, offset) == IF offset = ring.size THEN 0 ELSE offset

Push(ring, n) ==
    [ring EXCEPT !.write = Wrapped(ring, @ + n),
                 !.contiguous = @ # (ring.write + n = ring.size)]

Pop(ring, n) ==
    [ring EXCEPT !.read = Wrapped(ring, @ + n),
                 !.contiguous = @ # (ring.read + n = ring.size),
                 !.cells = [c \in DOMAIN @ |->
                               IF c \in ring.read .. ring.read + n - 1
                               THEN Junk ELSE @[c]]]

-----------------------------------------------------------------------------
(* StreamOpData *)

\* A write of the used bytes at offset of ring to arg of the stream; size is
\* that of its region.
WriteOp(arg, ring, offset, size, used) ==
    [op |-> "Write", arg |-> arg, ring |-> ring, offset |-> offset,
     size |-> size, used |-> used]

OtherOp(op, arg) ==
    [op |-> op, arg |-> arg, ring |-> 0, offset |-> 0, size |-> 0, used |-> 0]

NoOp == OtherOp("NoOp", 0)

EndOffset(op) == op.arg + op.used
LimitOffset(op) == op.arg + op.size
FreeSpace(op) == op.size - op.used

Intersects(op, other) ==
    op.arg < LimitOffset(other) /\ other.arg < LimitOffset(op)

PopWriteData(op, n) ==
    [op EXCEPT !.offset = @ + n, !.arg = @ + n, !.size = @ - n, !.used = @ - n]

-----------------------------------------------------------------------------

Init ==
    /\ position = 0
    /\ queue = <<>>
    /\ buffers = <<Ring(1, FirstConfig.size)>>
    /\ bufferCount = 1
    /\ config = FirstConfig
    /\ syncNext = 1 /\ syncDone = 0
    /\ wasException = FALSE
    /\ worker = "ready" /\ opData = NoOp
    /\ user = "idle"
    /\ stream = [p \in Places |-> Old]
    /\ synced = TRUE
    /\ spent = {}

\* The methods check that the worker has not failed, and then wait for the mutex:
\* a call goes on when it fails in between.
Usable == (user = "idle" /\ ~wasException) \/ user = "called"

-----------------------------------------------------------------------------
(* The user's calls *)

\* Mutated form of MergeTarget: later writes are not looked at.
MergeTargetAnyway ==
    LET ending == {i \in DOMAIN queue : EndOffset(queue[i]) = position}
        last == Max(ending)
    IN IF ending # {} /\ FreeSpace(queue[last]) > 0 THEN last ELSE 0

\* The queued operation that a write at the position is merged into, or 0:
\* the last one that ends there, if it has room and nothing behind it
\* touches its region.
MergeTarget ==
    LET ending == {i \in DOMAIN queue : EndOffset(queue[i]) = position}
        last == Max(ending)
    IN IF /\ ending # {}
          /\ FreeSpace(queue[last]) > 0
          /\ \A i \in last + 1 .. Len(queue) : ~Intersects(queue[last], queue[i])
       THEN last ELSE 0

\* PushWriteData of n bytes b to the operation at i of the queue ops.
PushWriteData(ops, rings, i, b, n) ==
    LET op == ops[i]
        first == op.offset + op.used
    IN /\ queue' = [ops EXCEPT ![i].used = @ + n]
       /\ buffers' = [j \in DOMAIN rings |->
             IF rings[j].id # op.ring THEN rings[j]
             ELSE [rings[j] EXCEPT !.cells =
                     [c \in DOMAIN @ |-> IF c \in first .. first + n - 1
                                         THEN b ELSE @[c]]]]
       /\ position' = position + n

\* Write of n bytes b takes as many as there is room for.
Write(b, n) ==
    /\ Usable
    /\ position + n <= MaxPosition
    /\ b \notin spent
    /\ spent' = spent \cup ({b} \cap Once)
    /\ FreeSize(Last(buffers)) > 0
    /\ LET ring == Last(buffers)
           size == Smaller(WriterSize(ring), Larger(config.prealloc, n))
           new == WriteOp(position, ring.id, ring.write, size, 0)
       IN IF MergeTarget # 0
          THEN PushWriteData(queue, buffers, MergeTarget, b,
                             Smaller(n, FreeSpace(queue[MergeTarget])))
          ELSE PushWriteData(Append(queue, new),
                             [buffers EXCEPT ![Len(buffers)] = Push(ring, size)],
                             Len(queue) + 1, b, Smaller(n, size))
    /\ user' = "idle"
    /\ UNCHANGED <<configVars, syncVars, wasException, worker, opData, streamVars>>

\* There is no data, or no room for it.
WriteNothing ==
    /\ Usable
    /\ user' = "idle"
    /\ UNCHANGED <<position, queue, buffers, configVars, syncVars, wasException,
                   worker, opData, streamVars, spent>>

\* To any place: _length, which SeekMode::End begins from, is not modelled.
Seek(p) ==
    /\ Usable
    /\ position' = p
    /\ user' = "idle"
    /\ UNCHANGED <<queue, buffers, configVars, syncVars, wasException,
                   worker, opData, streamVars, spent>>

\* Sync; unless it is configured not to, the caller waits.
Sync ==
    /\ Usable
    /\ syncNext <= MaxSyncs
    /\ queue' = Append(queue, OtherOp("Sync", syncNext))
    /\ syncNext' = syncNext + 1
    /\ user' = IF config.nonBlocking THEN "idle" ELSE "syncing"
    /\ UNCHANGED <<position, buffers, configVars, syncDone, wasException, worker,
                   opData, streamVars, spent>>

\* The user is in Sync the last to have asked for a synchronization.
SyncReturns ==
    /\ user = "syncing"
    /\ ~wasException
    /\ syncDone - (syncNext - 1) >= 0
    /\ user' = "idle"
    /\ UNCHANGED <<position, queue, buffers, configVars, syncVars, wasException,
                   worker, opData, streamVars, spent>>

SyncThrows ==
    /\ user = "syncing"
    /\ wasException
    /\ user' = "idle"
    /\ UNCHANGED <<position, queue, buffers, configVars, syncVars, wasException,
                   worker, opData, streamVars, spent>>

Reconfigure(new) ==
    /\ Usable
    /\ bufferCount < MaxBuffers
    /\ queue' = Append(queue, OtherOp("PopBuffer", 0))
    /\ buffers' = Append(buffers, Ring(bufferCount + 1, new.size))
    /\ bufferCount' = bufferCount + 1
    /\ config' = new
    /\ user' = "idle"
    /\ UNCHANGED <<position, syncVars, wasException, worker, opData, streamVars, spent>>

\* The destructor; it joins the worker.
Destroy ==
    /\ user = "idle"
    /\ queue' = Append(queue, OtherOp("Stop", 0))
    /\ user' = "closing"
    /\ UNCHANGED <<position, buffers, configVars, syncVars, wasException, worker,
                   opData, streamVars, spent>>

Joined ==
    /\ user = "closing"
    /\ worker \in {"stopped", "failed"}
    /\ user' = "closed"
    /\ UNCHANGED <<position, queue, buffers, configVars, syncVars, wasException,
                   worker, opData, streamVars, spent>>

-----------------------------------------------------------------------------
(* ThreadFunc *)

\* What the ring contains for the place p of op.
Datum(op, p) ==
    LET ring == CHOOSE r \in Range(buffers) : r.id = op.ring
    IN ring.cells[op.offset + p - op.arg]

\* What the stream contains after the first n bytes of op.
Written(op, n) ==
    [p \in Places |-> IF p \in op.arg .. op.arg + n - 1
                      THEN Datum(op, p) ELSE stream[p]]

PointersInSync(op) == op.ring = Head(buffers).id /\ op.offset = Head(buffers).read

\* The first operation is taken from the queue.
Take(op, next) ==
    /\ worker = "ready" /\ queue # <<>>
    /\ Head(queue).op = op
    /\ queue' = Tail(queue)
    /\ worker' = next

TakeWrite ==
    /\ Take("Write", "writing")
    /\ PointersInSync(Head(queue))
    /\ opData' = Head(queue)
    /\ UNCHANGED <<position, buffers, configVars, syncVars, wasException, user, streamVars, spent>>

TakeSync ==
    /\ Take("Sync", "synchronizing")
    /\ opData' = Head(queue)
    /\ UNCHANGED <<position, buffers, configVars, syncVars, wasException, user, streamVars, spent>>

TakeStop ==
    /\ Take("Stop", "stopped")
    /\ UNCHANGED <<position, buffers, configVars, syncVars, wasException, opData,
                   user, streamVars, spent>>

TakePopBuffer ==
    /\ Take("PopBuffer", "ready")
    /\ buffers' = Tail(buffers)
    /\ UNCHANGED <<position, configVars, syncVars, wasException, opData, user, streamVars, spent>>

\* Mutated form of StreamWrites: a block that was written leaves its free
\* space in the ring.
StreamWritesUsedOnly(n) ==
    /\ worker = "writing" /\ n <= opData.used
    /\ stream' = Written(opData, n)
    /\ synced' = (synced /\ n = 0)
    /\ buffers' = [buffers EXCEPT ![1] = Pop(@, n)]
    /\ queue' = IF n = opData.used THEN queue
                ELSE <<PopWriteData(opData, n)>> \o queue
    /\ worker' = "ready" /\ opData' = NoOp
    /\ UNCHANGED <<position, configVars, syncVars, wasException, user, spent>>

\* The stream takes n bytes. The rest of the block goes back to the front;
\* a block that was written gives its free space back to the ring as well.
StreamWrites(n) ==
    /\ worker = "writing" /\ n <= opData.used
    /\ stream' = Written(opData, n)
    /\ synced' = (synced /\ n = 0)
    /\ buffers' = [buffers EXCEPT ![1] =
                     Pop(@, IF n = opData.used THEN opData.size ELSE n)]
    /\ queue' = IF n = opData.used THEN queue
                ELSE <<PopWriteData(opData, n)>> \o queue
    /\ worker' = "ready" /\ opData' = NoOp
    /\ UNCHANGED <<position, configVars, syncVars, wasException, user, spent>>

\* Mutated form of StreamSyncs: which synchronization is done is not noted.
StreamSyncsUnnoted ==
    /\ worker = "synchronizing"
    /\ synced' = TRUE
    /\ worker' = "ready" /\ opData' = NoOp
    /\ UNCHANGED <<position, queue, buffers, configVars, syncVars, wasException,
                   user, stream, spent>>

StreamSyncs ==
    /\ worker = "synchronizing"
    /\ synced' = TRUE
    /\ syncDone' = opData.arg
    /\ worker' = "ready" /\ opData' = NoOp
    /\ UNCHANGED <<position, queue, buffers, configVars, syncNext, wasException,
                   user, stream, spent>>

\* The stream throws, or the pointers are out of sync; perhaps while the user is
\* in a call that has not got the mutex yet.
WorkerFails ==
    /\ \/ worker \in {"writing", "synchronizing"}
       \/ /\ worker = "ready" /\ queue # <<>>
          /\ Head(queue).op = "Write" /\ ~PointersInSync(Head(queue))
    /\ worker' = "failed"
    /\ wasException' = TRUE
    /\ user' \in {user} \cup (IF user = "idle" THEN {"called"} ELSE {})
    /\ UNCHANGED <<position, queue, buffers, configVars, syncVars, opData, streamVars, spent>>

-----------------------------------------------------------------------------

UserCalls ==
    \/ \E b \in Bytes, n \in 1 .. MaxWrite : Write(b, n)
    \/ \E p \in 0 .. MaxPosition : Seek(p)
    \/ \E new \in Configs : Reconfigure(new)
    \/ WriteNothing \/ Sync \/ Destroy

UserReturns == SyncReturns \/ SyncThrows \/ Joined

Writes == \E n \in 0 .. MaxPosition : StreamWrites(n)

WorkerSteps ==
    TakeWrite \/ TakeSync \/ TakeStop \/ TakePopBuffer \/ Writes \/ StreamSyncs

Next == UserCalls \/ UserReturns \/ WorkerSteps \/ WorkerFails

Spec == Init /\ [][Next]_vars

\* A stream that is written again and again takes something now and then, also
\* after the destructor has cancelled the token that the worker passes to it.
Progress == \E n \in 1 .. MaxPosition : StreamWrites(n)

Fairness ==
    /\ WF_vars(WorkerSteps) /\ SF_vars(Progress)
    /\ WF_vars(UserReturns)

LiveSpec == Spec /\ Fairness

-----------------------------------------------------------------------------
(* Properties *)

\* The operations that are not done, the write that the worker performs, or
\* failed at, first; those that write nothing use nothing.
Pending ==
    (IF worker \in {"writing", "failed"} /\ opData.op = "Write" THEN <<opData>> ELSE <<>>)
        \o queue

\* Those of ops that write the place p.
Covering(ops, p) == {i \in DOMAIN ops : p \in ops[i].arg .. EndOffset(ops[i]) - 1}

\* What the stream will contain when all of them are done.
Final ==
    LET ops == Pending
    IN [p \in Places |->
           LET over == Covering(ops, p)
           IN IF over = {} THEN stream[p] ELSE Datum(ops[Max(over)], p)]

File == INSTANCE WrittenFile WITH
            contents <- IF wasException THEN Lost ELSE Final

\* However writes are merged, taken in part and put back, and whatever ring
\* their data lies in, the stream gets the content that it would have got
\* from the same writes made at once, until it fails: each Write, of as many
\* bytes as it takes, is a write of the file. A call that began before the
\* failure may still move the position.
ImplementsFile ==
    /\ File!Spec
    /\ [][\A b \in Bytes, n \in 1 .. MaxWrite :
             Write(b, n) /\ ~wasException => \E m \in 1 .. n : File!Write(b, m)]_vars

\* The block that the worker is to write is always what the ring gives it to
\* read, so that it never throws "buffer pointers out of sync".
BlocksFollowTheRing ==
    worker = "ready" /\ queue # <<>> /\ Head(queue).op = "Write"
        => PointersInSync(Head(queue))

\* When a Sync that waits returns, and when the destructor does without the
\* worker having failed, all that was written is in the stream; after a Sync
\* it is so as of the stream's own synchronization.
ReturnsMeanWritten ==
    [][/\ SyncReturns => synced /\ stream = Final
       /\ Joined /\ ~wasException => stream = Final]_vars

\* Sync and the destructor return, and not before.
CallsReturn ==
    /\ ReturnsMeanWritten
    /\ (user \in {"syncing", "closing"}) ~> (user \in {"idle", "closed"})
=============================================================================
