----------------------------- MODULE DataBuffer ------------------------------
(***************************************************************************)
(* io/DataBuffer.h with its io/BufferedDataConsumer.cpp for the writers    *)
(* and io/BufferedDataSource.cpp for the reader, over one circular buffer. *)
(* The writers put whole input packets, the reader takes whole output      *)
(* packets, as many as are in one piece; a part of the data may be taken,  *)
(* and ConsumeAll() offers the rest again. Copying and consuming are done  *)
(* without the mutex, every other section is one action under it.          *)
(***************************************************************************)
EXTENDS CircularBuffer

CONSTANTS
    Writers,            \* the threads that call Process until all is taken
    NoWriter,
    InputPacket,        \* _inputPacketSize
    OutputPacket,       \* _outputPacketSize
    RequiredFree,       \* _requiredFreeSpace
    Sizes,              \* the sizes of data that are offered
    Thresholds,         \* the arguments of WaitForData
    MaxBytes            \* bound: bytes put

\* What the constructors and WaitForData check; RingBuffers assumes it.
PacketAssumption ==
    /\ InputPacket \in Nat \ {0} /\ Size % InputPacket = 0
    /\ OutputPacket \in Nat \ {0} /\ Size % OutputPacket = 0
    /\ RequiredFree \in 0..Size
    /\ Sizes \subseteq Nat \ {0}
    /\ \A t \in Thresholds : t \in 1..Size - 1 /\ t % OutputPacket = 0

WritersAssumption == NoWriter \notin Writers /\ MaxBytes \in Nat

VARIABLES
    writer,         \* the thread that SharedWriteSynchronizer let in
    writing,        \* what it does: "none", "copying", "copied", "waiting"
    size,           \* and how many bytes it copies
    offer,          \* for each writer the bytes it still has to put
    put,            \* history: bytes put so far
    reader,         \* "idle", "waiting" in Read, "awaiting" in WaitForData,
                    \* or "processing"
    wanted,         \* the argument of WaitForData, or the size consumed
    discardOnOverflow   \* _discardOnOverflow

writerVars == <<writer, writing, size, offer, put>>
readerVars == <<reader, wanted>>
vars == <<bufferVars, writerVars, readerVars, discardOnOverflow>>

\* Types; offsets stay on the limits of the packets of their side.
TypeOK ==
    /\ RingTypeOK
    /\ writeOffset % InputPacket = 0
    /\ readOffset % OutputPacket = 0
    /\ writer \in Writers \cup {NoWriter}
    /\ writing \in {"none", "copying", "copied", "waiting"}
    /\ writer = NoWriter <=> writing = "none"
    /\ size \in 0..Size
    /\ offer \in [Writers -> Nat]
    /\ put \in 0..MaxBytes
    /\ reader \in {"idle", "waiting", "awaiting", "processing"}
    /\ wanted \in 0..Size
    /\ discardOnOverflow \in BOOLEAN

Init ==
    /\ RingInit
    /\ writer = NoWriter
    /\ writing = "none"
    /\ size = 0
    /\ offer = [p \in Writers |-> 0]
    /\ put = 0
    /\ reader = "idle"
    /\ wanted = 0
    /\ discardOnOverflow \in BOOLEAN

\* Broadcast() of _bufferEmpty and of _bufferFull.
WakeReader == reader' = IF reader \in {"waiting", "awaiting"} THEN "idle" ELSE reader
WakeWriter ==
    IF writing = "waiting"
    THEN writing' = "none" /\ writer' = NoWriter
    ELSE UNCHANGED <<writing, writer>>

Ended == eod \/ failed

\* n rounded down to whole packets.
Packetized(n, packet) == n - (n % packet)

-----------------------------------------------------------------------------
(* Process *)

\* Mutated form of ToWrite: all that is free, not what is free in one piece.
ToWriteAcross(p) ==
    IF offer[p] < FreeSize THEN offer[p] ELSE Packetized(FreeSize, InputPacket)

\* What of a writer's data there is room for now, in one piece.
ToWrite(p) ==
    LET room == Packetized(WriterSize, InputPacket)
    IN  IF offer[p] < room THEN offer[p] ELSE room

Overflow == Packetized(WriterSize, InputPacket) = 0 \/ FreeSize < RequiredFree

\* Data that are not whole packets are refused: they count as taken.
Offer(p, n) ==
    /\ offer[p] = 0
    /\ n % InputPacket = 0
    /\ offer' = [offer EXCEPT ![p] = n]
    /\ UNCHANGED <<bufferVars, writer, writing, size, put, readerVars,
                   discardOnOverflow>>

\* The token is cancelled, or the data come after the end.
GiveUp(p) ==
    /\ offer[p] # 0
    /\ writer # p
    /\ offer' = [offer EXCEPT ![p] = 0]
    /\ UNCHANGED <<bufferVars, writer, writing, size, put, readerVars,
                   discardOnOverflow>>

\* How much is written is settled before the mutex is left.
BeginPut(p) ==
    /\ offer[p] # 0
    /\ writer = NoWriter
    /\ ~Ended
    /\ ~Overflow
    /\ put + ToWrite(p) <= MaxBytes
    /\ writer' = p
    /\ writing' = "copying"
    /\ size' = ToWrite(p)
    /\ UNCHANGED <<bufferVars, offer, put, readerVars, discardOnOverflow>>

CopyData ==
    /\ writing = "copying"
    /\ Copy(writeOffset, [i \in 1..size |-> put + i])
    /\ writing' = "copied"
    /\ UNCHANGED <<ringVars, endVars, writer, size, offer, put, readerVars,
                   discardOnOverflow>>

\* Mutated form of EndPut: the reader is not told.
EndPutSilently ==
    /\ writing = "copied"
    /\ PushBytes(size)
    /\ put' = put + size
    /\ offer' = [offer EXCEPT ![writer] = @ - size]
    /\ writer' = NoWriter
    /\ writing' = "none"
    /\ UNCHANGED <<cells, endVars, size, readerVars, discardOnOverflow>>

EndPut ==
    /\ writing = "copied"
    /\ PushBytes(size)
    /\ put' = put + size
    /\ offer' = [offer EXCEPT ![writer] = @ - size]
    /\ writer' = NoWriter
    /\ writing' = "none"
    /\ WakeReader
    /\ UNCHANGED <<cells, endVars, size, wanted, discardOnOverflow>>

\* No room: the data are dropped and count as taken.
Discard(p) ==
    /\ discardOnOverflow
    /\ offer[p] # 0
    /\ writer = NoWriter
    /\ ~Ended
    /\ Overflow
    /\ offer' = [offer EXCEPT ![p] = 0]
    /\ UNCHANGED <<bufferVars, writer, writing, size, put, readerVars,
                   discardOnOverflow>>

\* Or Process waits once; other writers stay out meanwhile.
WaitFull(p) ==
    /\ ~discardOnOverflow
    /\ offer[p] # 0
    /\ writer = NoWriter
    /\ ~Ended
    /\ Overflow
    /\ writer' = p
    /\ writing' = "waiting"
    /\ UNCHANGED <<bufferVars, size, offer, put, readerVars, discardOnOverflow>>

StopWaitFull ==
    /\ writing = "waiting"
    /\ WakeWriter
    /\ UNCHANGED <<bufferVars, size, offer, put, readerVars, discardOnOverflow>>

-----------------------------------------------------------------------------
(* Read and WaitForData; a second call at the same time throws. *)

Readable == Packetized(ReaderSize, OutputPacket)

\* Not a packet is left: the consumer gets the exception or the end of data.
ReadEnd ==
    /\ reader = "idle"
    /\ Readable = 0
    /\ Ended
    /\ UNCHANGED vars

WaitEmpty ==
    /\ reader = "idle"
    /\ Readable = 0
    /\ ~Ended
    /\ reader' = "waiting"
    /\ UNCHANGED <<bufferVars, writerVars, wanted, discardOnOverflow>>

WaitForData(threshold) ==
    /\ reader = "idle"
    /\ DataSize < threshold
    /\ ~Ended
    /\ reader' = "awaiting"
    /\ wanted' = threshold
    /\ UNCHANGED <<bufferVars, writerVars, discardOnOverflow>>

StopWaitEmpty ==
    /\ reader \in {"waiting", "awaiting"}
    /\ reader' = "idle"
    /\ UNCHANGED <<bufferVars, writerVars, wanted, discardOnOverflow>>

\* The consumer gets all whole packets that are in one piece.
BeginRead ==
    /\ reader = "idle"
    /\ Readable > 0
    /\ reader' = "processing"
    /\ wanted' = Readable
    /\ UNCHANGED <<bufferVars, writerVars, discardOnOverflow>>

\* Mutated form of EndRead: the writer is not told.
EndReadSilently(n) ==
    /\ reader = "processing"
    /\ n <= wanted
    /\ PopBytes(IF n % OutputPacket = 0 THEN n ELSE wanted)
    /\ reader' = "idle"
    /\ UNCHANGED <<cells, endVars, writerVars, wanted, discardOnOverflow>>

\* It processed n bytes; if these are not whole packets, all count as processed.
EndRead(n) ==
    /\ reader = "processing"
    /\ n <= wanted
    /\ PopBytes(IF n % OutputPacket = 0 THEN n ELSE wanted)
    /\ reader' = "idle"
    /\ WakeWriter
    /\ UNCHANGED <<cells, endVars, size, offer, put, wanted, discardOnOverflow>>

\* It processed nothing, or threw.
RefuseRead ==
    /\ reader = "processing"
    /\ reader' = "idle"
    /\ UNCHANGED <<bufferVars, writerVars, wanted, discardOnOverflow>>

-----------------------------------------------------------------------------
(* EndOfData, SetException, Clear *)

End ==
    /\ ~Ended
    /\ SetEndOfData \/ SetException
    /\ WakeReader
    /\ UNCHANGED <<ringVars, cells, writerVars, wanted, discardOnOverflow>>

\* Clear() throws, and changes nothing, while Process or Read is active.
Clear ==
    /\ reader = "idle"
    /\ writer = NoWriter
    /\ ClearRing
    /\ UNCHANGED <<writerVars, reader, wanted, discardOnOverflow>>

-----------------------------------------------------------------------------

Next ==
    \/ \E p \in Writers :
        \/ GiveUp(p) \/ BeginPut(p) \/ Discard(p) \/ WaitFull(p)
        \/ \E n \in Sizes : Offer(p, n)
    \/ CopyData \/ EndPut \/ StopWaitFull
    \/ ReadEnd \/ WaitEmpty \/ StopWaitEmpty
    \/ \E t \in Thresholds : WaitForData(t)
    \/ BeginRead \/ RefuseRead
    \/ \E n \in 1..Size : EndRead(n)
    \/ End \/ Clear

Spec == Init /\ [][Next]_vars

(***************************************************************************)
(* The copying thread runs, a reader keeps calling Read, its consumer      *)
(* takes something in the end, and a thread that keeps calling Process is  *)
(* not kept out of the mutexes for ever.                                   *)
(***************************************************************************)
Fairness ==
    /\ WF_vars(CopyData \/ EndPut)
    /\ SF_vars(BeginRead) /\ SF_vars(\E n \in 1..Size : EndRead(n))
    /\ \A p \in Writers : SF_vars(BeginPut(p))

FairSpec == Spec /\ Fairness

-----------------------------------------------------------------------------
(* Properties *)

(***************************************************************************)
(* Types, and the region the writer copies to and the region the consumer  *)
(* reads, both without the mutex, are apart, within the storage, and stay  *)
(* so whatever the other side pushes or pops meanwhile.                    *)
(***************************************************************************)
RegionsApart ==
    /\ TypeOK
    /\ writing \in {"copying", "copied"} =>
        Region(writeOffset, size) \subseteq Cells(Size)
    /\ reader = "processing" => Region(readOffset, wanted) \subseteq Cells(Size)
    /\ writing \in {"copying", "copied"} /\ reader = "processing" =>
        Region(writeOffset, size) \cap Region(readOffset, wanted) = {}

\* The bytes come out in order, each once: FifoBuffer.
Fifo == INSTANCE FifoBuffer WITH
    Capacity <- Size,
    held <- [i \in 1..DataSize |-> cells[(readOffset + i - 1) % Size]],
    put <- put

ImplementsFifo == Fifo!Spec

\* A writer gets rid of all its data, unless the data end before that.
OfferIsTaken ==
    \A p \in Writers :
        (offer[p] # 0) ~> (offer[p] = 0 \/ Ended \/ put + Size > MaxBytes)

=============================================================================
