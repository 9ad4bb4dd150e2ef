---------------------------- MODULE PacketBuffer -----------------------------
(***************************************************************************)
(* io/PacketBuffer.h: packets in a circular buffer, each of them in one    *)
(* piece; where the end of the storage is too near, it is filled up with   *)
(* padding. Writers are serialised by SharedWriteSynchronizer. Read gives  *)
(* the packet to the consumer, and Process copies it, without the mutex;   *)
(* every other section is one action under it. A wait on _bufferEmpty or   *)
(* _bufferFull ends after a broadcast, or for no reason, or cancelled.     *)
(***************************************************************************)
EXTENDS CircularBuffer

CONSTANTS
    Writers,            \* the threads that call Process, until it takes the packet
    NoWriter,
    Sizes,              \* the sizes of packets
    MaxPackets          \* bound: packets stored

ASSUME SizesAssumption == Sizes \subseteq 1..Size
ASSUME WritersAssumption == NoWriter \notin Writers /\ MaxPackets \in Nat

VARIABLES
    packets,        \* _packetQueue: sequence of [id, size]
    padding,        \* _paddingSize
    writer,         \* the thread that SharedWriteSynchronizer let in
    writing,        \* what it does: "none", "copying", "copied", "waiting"
    offer,          \* for each writer the size of its packet, 0 if it has none
    stored,         \* history: packets stored so far
    reader,         \* "idle", "waiting", or "processing" outside the mutex
    discardOnOverflow,  \* _discardOnOverflow
    clearThrew      \* history: a Clear() threw, and none has succeeded since

writerVars == <<writer, writing, offer, stored>>
ruleVars == <<discardOnOverflow, clearThrew>>
vars == <<bufferVars, packets, padding, writerVars, reader, ruleVars>>

\* Types, and a padding only where the ring goes on behind it.
TypeOK ==
    /\ RingTypeOK
    /\ packets \in Seq([id : 1..MaxPackets, size : Sizes])
    /\ padding \in 0..Size - 1
    /\ padding > 0 /\ ~clearThrew =>
        ~contiguous /\ readOffset + padding <= Size
    /\ writer \in Writers \cup {NoWriter}
    /\ writing \in {"none", "copying", "copied", "waiting"}
    /\ writer = NoWriter <=> writing = "none"
    /\ offer \in [Writers -> Sizes \cup {0}]
    /\ writer # NoWriter => offer[writer] > 0
    /\ stored \in 0..MaxPackets
    /\ reader \in {"idle", "waiting", "processing"}
    /\ reader = "processing" => packets # <<>>
    /\ discardOnOverflow \in BOOLEAN
    /\ clearThrew \in BOOLEAN

Init ==
    /\ RingInit
    /\ packets = <<>>
    /\ padding = 0
    /\ writer = NoWriter
    /\ writing = "none"
    /\ offer = [p \in Writers |-> 0]
    /\ stored = 0
    /\ reader = "idle"
    /\ discardOnOverflow \in BOOLEAN
    /\ clearThrew = FALSE

\* Broadcast() of _bufferEmpty and of _bufferFull.
WakeReader == reader' = IF reader = "waiting" THEN "idle" ELSE reader
WakeWriter ==
    IF writing = "waiting"
    THEN writing' = "none" /\ writer' = NoWriter
    ELSE UNCHANGED <<writing, writer>>

Empty == packets = <<>>
Ended == eod \/ failed

-----------------------------------------------------------------------------
(* Process *)

\* Mutated form of PaddingFor: no packet is kept in one piece.
PaddingForNone(n) == 0

\* The padding a packet of n bytes needs now, and whether there is room for both.
PaddingFor(n) == IF WriterSize < n /\ WriterAtEnd THEN WriterSize ELSE 0
Fits(n) == FreeSize >= PaddingFor(n) + n

\* A thread has a packet to store: ConsumeAll() calls Process until it is taken.
Offer(p, n) ==
    /\ offer[p] = 0
    /\ stored < MaxPackets
    /\ offer' = [offer EXCEPT ![p] = n]
    /\ UNCHANGED <<bufferVars, packets, padding, writer, writing, stored,
                   reader, ruleVars>>

\* Its call ends: the token is cancelled, or the packet comes after the end.
GiveUp(p) ==
    /\ offer[p] # 0
    /\ writer # p
    /\ offer' = [offer EXCEPT ![p] = 0]
    /\ UNCHANGED <<bufferVars, packets, padding, writer, writing, stored,
                   reader, ruleVars>>

\* There is room: the padding is pushed and the mutex left to copy the packet.
BeginStore(p) ==
    /\ offer[p] # 0
    /\ writer = NoWriter
    /\ stored < MaxPackets
    /\ ~Ended
    /\ Fits(offer[p])
    /\ IF PaddingFor(offer[p]) > 0
       THEN PushBytes(PaddingFor(offer[p])) /\ padding' = PaddingFor(offer[p])
       ELSE UNCHANGED <<ringVars, padding>>
    /\ writer' = p
    /\ writing' = "copying"
    /\ UNCHANGED <<cells, endVars, packets, offer, stored, reader, ruleVars>>

CopyPacket ==
    /\ writing = "copying"
    /\ Copy(writeOffset, [i \in 1..offer[writer] |-> stored + 1])
    /\ writing' = "copied"
    /\ UNCHANGED <<ringVars, endVars, packets, padding, writer, offer, stored,
                   reader, ruleVars>>

\* Mutated form of EndStore: the reader is not told.
EndStoreSilently ==
    /\ writing = "copied"
    /\ packets' = Append(packets, [id |-> stored + 1, size |-> offer[writer]])
    /\ PushBytes(offer[writer])
    /\ stored' = stored + 1
    /\ offer' = [offer EXCEPT ![writer] = 0]
    /\ writer' = NoWriter
    /\ writing' = "none"
    /\ UNCHANGED <<cells, endVars, padding, reader, ruleVars>>

\* Mutated form of EndStore: the packet goes to the wrong end of the queue.
EndStoreInFront ==
    /\ writing = "copied"
    /\ packets' = <<[id |-> stored + 1, size |-> offer[writer]]>> \o packets
    /\ PushBytes(offer[writer])
    /\ stored' = stored + 1
    /\ offer' = [offer EXCEPT ![writer] = 0]
    /\ writer' = NoWriter
    /\ writing' = "none"
    /\ WakeReader
    /\ UNCHANGED <<cells, endVars, padding, ruleVars>>

\* Back under the mutex the packet is queued and its bytes are pushed.
EndStore ==
    /\ writing = "copied"
    /\ packets' = Append(packets, [id |-> stored + 1, size |-> offer[writer]])
    /\ PushBytes(offer[writer])
    /\ stored' = stored + 1
    /\ offer' = [offer EXCEPT ![writer] = 0]
    /\ writer' = NoWriter
    /\ writing' = "none"
    /\ WakeReader
    /\ UNCHANGED <<cells, endVars, padding, ruleVars>>

\* No room: the packet is dropped and counts as taken.
Discard(p) ==
    /\ discardOnOverflow
    /\ offer[p] # 0
    /\ writer = NoWriter
    /\ ~Ended
    /\ ~Fits(offer[p])
    /\ offer' = [offer EXCEPT ![p] = 0]
    /\ UNCHANGED <<bufferVars, packets, padding, writer, writing, stored,
                   reader, ruleVars>>

\* Or Process waits once; other writers stay out meanwhile.
WaitFull(p) ==
    /\ ~discardOnOverflow
    /\ offer[p] # 0
    /\ writer = NoWriter
    /\ ~Ended
    /\ ~Fits(offer[p])
    /\ writer' = p
    /\ writing' = "waiting"
    /\ UNCHANGED <<bufferVars, packets, padding, offer, stored, reader,
                   ruleVars>>

StopWaitFull ==
    /\ writing = "waiting"
    /\ WakeWriter
    /\ UNCHANGED <<bufferVars, packets, padding, offer, stored, reader,
                   ruleVars>>

-----------------------------------------------------------------------------
(* Read and WaitForPacket; a second call at the same time throws. *)

\* No packet: the consumer gets the exception or the end of data.
ReadEnd ==
    /\ reader = "idle"
    /\ Empty
    /\ Ended
    /\ UNCHANGED vars

WaitEmpty ==
    /\ reader = "idle"
    /\ Empty
    /\ ~Ended
    /\ reader' = "waiting"
    /\ UNCHANGED <<bufferVars, packets, padding, writerVars, ruleVars>>

StopWaitEmpty ==
    /\ reader = "waiting"
    /\ reader' = "idle"
    /\ UNCHANGED <<bufferVars, packets, padding, writerVars, ruleVars>>

\* What the reader finds at the read offset is padding.
AtPadding == ReaderSize = padding /\ ReaderAtEnd

\* Mutated form of BeginRead: padding is taken for data.
BeginReadPadded ==
    /\ reader = "idle"
    /\ ~Empty
    /\ reader' = "processing"
    /\ UNCHANGED <<bufferVars, packets, padding, writerVars, ruleVars>>

\* Padding is skipped, and the mutex left to process the first packet.
BeginRead ==
    /\ reader = "idle"
    /\ ~Empty
    /\ IF AtPadding
       THEN PopBytes(padding) /\ padding' = 0
       ELSE UNCHANGED <<ringVars, padding>>
    /\ Head(packets).size <= ReaderSize'
    /\ reader' = "processing"
    /\ UNCHANGED <<cells, endVars, packets, writerVars, ruleVars>>

\* Mutated form of EndRead: the writer is not told.
EndReadSilently ==
    /\ reader = "processing"
    /\ PopBytes(Head(packets).size)
    /\ packets' = Tail(packets)
    /\ reader' = "idle"
    /\ UNCHANGED <<cells, endVars, padding, writerVars, ruleVars>>

\* The consumer has processed the packet: it leaves the buffer.
EndRead ==
    /\ reader = "processing"
    /\ PopBytes(Head(packets).size)
    /\ packets' = Tail(packets)
    /\ reader' = "idle"
    /\ WakeWriter
    /\ UNCHANGED <<cells, endVars, padding, offer, stored, ruleVars>>

\* The consumer did not process it, or threw: it stays, and may be read again.
RefuseRead ==
    /\ reader = "processing"
    /\ reader' = "idle"
    /\ UNCHANGED <<bufferVars, packets, padding, writerVars, ruleVars>>

-----------------------------------------------------------------------------
(* EndOfData, SetException, Clear *)

Inactive == reader = "idle" /\ writer = NoWriter

End ==
    /\ ~Ended
    /\ SetEndOfData \/ SetException
    /\ WakeReader
    /\ UNCHANGED <<ringVars, cells, packets, padding, writerVars, ruleVars>>

Clear ==
    /\ Inactive
    /\ ClearRing
    /\ packets' = <<>>
    /\ padding' = 0
    /\ clearThrew' = FALSE
    /\ UNCHANGED <<writerVars, reader, discardOnOverflow>>

\* BufferLock::Clear() throws when the queue has already been cleared. (While
\* the consumer has a packet, this destroys the packet under Read, which then
\* pops from an empty queue: undefined, and left out.)
ClearThrows ==
    /\ ~Inactive
    /\ reader # "processing"
    /\ packets' = <<>>
    /\ padding' = 0
    /\ clearThrew' = TRUE
    /\ UNCHANGED <<bufferVars, writerVars, reader, discardOnOverflow>>

-----------------------------------------------------------------------------

Next ==
    \/ \E p \in Writers :
        \/ GiveUp(p) \/ BeginStore(p) \/ Discard(p) \/ WaitFull(p)
        \/ \E n \in Sizes : Offer(p, n)
    \/ CopyPacket \/ EndStore \/ StopWaitFull
    \/ ReadEnd \/ WaitEmpty \/ StopWaitEmpty
    \/ BeginRead \/ EndRead \/ RefuseRead
    \/ End \/ Clear \/ ClearThrows

Spec == Init /\ [][Next]_vars

(***************************************************************************)
(* The copying thread runs, a reader keeps calling Read, its consumer      *)
(* takes a packet in the end, and a thread that keeps calling Process is   *)
(* not kept out of the mutexes for ever.                                   *)
(***************************************************************************)
Fairness ==
    /\ WF_vars(CopyPacket \/ EndStore)
    /\ WF_vars(BeginRead) /\ SF_vars(EndRead)
    /\ \A p \in Writers : SF_vars(BeginStore(p))

FairSpec == Spec /\ Fairness

-----------------------------------------------------------------------------
(* Properties *)

(***************************************************************************)
(* As long as no Clear() throws: while the consumer reads a packet without *)
(* the mutex, its cells hold that packet and nothing else; no writer, and  *)
(* no wrap of the ring, gets at them.                                      *)
(***************************************************************************)
ConsumerSeesItsPacket ==
    reader = "processing" /\ ~clearThrew =>
        \A c \in Region(readOffset, Head(packets).size) :
            c \in Cells(Size) /\ cells[c] = Head(packets).id

(***************************************************************************)
(* Read never finds less than the packet it looks for: as long as no       *)
(* Clear() throws, the exception "Reader size ... is lesser than packet    *)
(* size" is never thrown.                                                  *)
(***************************************************************************)
ReaderFindsPacket ==
    reader = "idle" /\ ~Empty /\ ~clearThrew =>
        Head(packets).size <=
            (IF AtPadding
             THEN IF contiguous THEN 0 ELSE writeOffset
             ELSE ReaderSize)

\* Both: a packet is where the reader looks for it, and stays there while it
\* is consumed.
PacketsStayInPlace == ReaderFindsPacket /\ ConsumerSeesItsPacket

(***************************************************************************)
(* Types, and no wake up is lost: a reader waits only while there is       *)
(* nothing to read, and a writer, as long as no Clear() throws, only while *)
(* a packet is left whose reading will wake it. So in an empty buffer      *)
(* there is room for each packet, whatever padding it needs: this is what  *)
(* makes packets of at most half the storage (rounded up) safe.            *)
(***************************************************************************)
WaitersWillBeWoken ==
    /\ TypeOK
    /\ reader = "waiting" => Empty /\ ~Ended
    /\ writing = "waiting" /\ ~clearThrew => ~Empty

\* Packets come out in order, each once: FifoBuffer.
Fifo == INSTANCE FifoBuffer WITH
    Capacity <- Size,
    held <- [i \in 1..Len(packets) |-> packets[i].id],
    put <- stored

ImplementsFifo == Fifo!Spec

(***************************************************************************)
(* A writer that keeps calling Process gets its packet stored, unless it   *)
(* gives up, the data end, or a Clear() throws.                            *)
(***************************************************************************)
OfferIsTaken ==
    \A p \in Writers :
        (offer[p] # 0) ~> \/ offer[p] = 0 \/ Ended \/ stored = MaxPackets
                          \/ clearThrew

=============================================================================
