------------------------------ MODULE RingBuffers ------------------------------
(***************************************************************************)
(* The two buffers over a circular buffer, PacketBuffer for packets and    *)
(* DataBuffer for bytes; which of them is used is decided at the start.    *)
(***************************************************************************)
EXTENDS PacketBuffer

CONSTANTS
    Capacity,                       \* Size of the DataBuffer
    InputPacket, OutputPacket, RequiredFree, DataSizes, Thresholds, MaxBytes

VARIABLES
    kind,           \* "packets" or "bytes"
    bWriteOffset, bReadOffset, bContiguous, bCells, bEod, bFailed,
    bWriter, bWriting, bSize, bOffer, bPut, bReader, bWanted, bDiscard

byteVars == <<bWriteOffset, bReadOffset, bContiguous, bCells, bEod, bFailed,
              bWriter, bWriting, bSize, bOffer, bPut, bReader, bWanted, bDiscard>>
allVars == <<vars, byteVars, kind>>

Bytes == INSTANCE DataBuffer WITH
    Size <- Capacity, Sizes <- DataSizes,
    writeOffset <- bWriteOffset, readOffset <- bReadOffset,
    contiguous <- bContiguous, cells <- bCells, eod <- bEod, failed <- bFailed,
    writer <- bWriter, writing <- bWriting, size <- bSize, offer <- bOffer,
    put <- bPut, reader <- bReader, wanted <- bWanted,
    discardOnOverflow <- bDiscard

ASSUME ByteAssumptions ==
    Bytes!SizeAssumption /\ Bytes!PacketAssumption /\ Bytes!WritersAssumption

RingsInit == kind \in {"packets", "bytes"} /\ Init /\ Bytes!Init

RingsNext ==
    \/ kind = "packets" /\ Next /\ UNCHANGED <<byteVars, kind>>
    \/ kind = "bytes" /\ Bytes!Next /\ UNCHANGED <<vars, kind>>

RingsSpec == RingsInit /\ [][RingsNext]_allVars

\* One of them is used; how the other one was constructed does not matter.
PacketsStart == RingsInit /\ kind = "packets" /\ ~bDiscard
BytesStart == RingsInit /\ kind = "bytes" /\ ~discardOnOverflow

PacketsFairSpec == PacketsStart /\ [][RingsNext]_allVars /\ Fairness
BytesFairSpec == BytesStart /\ [][RingsNext]_allVars /\ Bytes!Fairness

-----------------------------------------------------------------------------
(* Properties *)

\* What the writer copies to and what the consumer reads are apart.
BytesStayApart == Bytes!RegionsApart

\* Bytes come out in order, each once.
BytesImplementFifo == Bytes!ImplementsFifo

\* A writer gets rid of all its data, unless the data end before that.
BytesAreTaken == Bytes!OfferIsTaken
=============================================================================
