--------------------------- MODULE CircularBuffer ----------------------------
(***************************************************************************)
(* io/BithreadCircularBuffer.cpp and the shared state that                 *)
(* io/SharedCircularBuffer.h puts around it: one thread reads and one      *)
(* writes, each in a contiguous region of the storage that it works on     *)
(* without the mutex. PacketBuffer and DataBuffer are built from these     *)
(* operations. A write offset that gets to the end of the storage returns  *)
(* to 0 and _dataIsContiguous becomes false; the read offset turns it back.*)
(***************************************************************************)
EXTENDS Integers, Sequences

CONSTANT
    Size            \* bytes of storage

ASSUME SizeAssumption == Size \in Nat \ {0}

VARIABLES
    writeOffset,    \* _writeOffset
    readOffset,     \* _readOffset
    contiguous,     \* _dataIsContiguous
    cells,          \* the storage: which byte, or packet, is in each cell
    eod,            \* _eod
    failed          \* _exception is set

ringVars == <<writeOffset, readOffset, contiguous>>
endVars == <<eod, failed>>
bufferVars == <<ringVars, cells, endVars>>

\* The cells of a storage of n bytes.
Cells(n) == 0..n - 1

RingTypeOK ==
    /\ writeOffset \in Cells(Size)
    /\ readOffset \in Cells(Size)
    /\ contiguous \in BOOLEAN
    /\ IF contiguous THEN readOffset <= writeOffset ELSE writeOffset <= readOffset
    /\ DOMAIN cells = Cells(Size)
    /\ eod \in BOOLEAN /\ failed \in BOOLEAN
    /\ ~(eod /\ failed)

RingInit ==
    /\ writeOffset = 0
    /\ readOffset = 0
    /\ contiguous = TRUE
    /\ cells = [c \in Cells(Size) |-> 0]
    /\ eod = FALSE
    /\ failed = FALSE

DataSize ==
    IF contiguous THEN writeOffset - readOffset ELSE Size - readOffset + writeOffset
FreeSize == Size - DataSize

\* The sizes of the regions that Write() and Read() give.
WriterSize == IF contiguous THEN Size - writeOffset ELSE readOffset - writeOffset
ReaderSize == IF contiguous THEN writeOffset - readOffset ELSE Size - readOffset

\* IsBufferEnd() of these regions.
WriterAtEnd == writeOffset + WriterSize = Size
ReaderAtEnd == readOffset + ReaderSize = Size

Region(offset, n) == offset .. offset + n - 1

\* Mutated form of Wrapped: the offset may stay at the end.
WrappedLate(offset) == IF offset > Size THEN 0 ELSE offset

\* An offset that has got to the end of the storage begins again.
Wrapped(offset) == IF offset = Size THEN 0 ELSE offset

\* Push(n) and Pop(n).
PushBytes(n) ==
    /\ writeOffset' = Wrapped(writeOffset + n)
    /\ contiguous' = (contiguous # (writeOffset + n = Size))
    /\ UNCHANGED readOffset

PopBytes(n) ==
    /\ readOffset' = Wrapped(readOffset + n)
    /\ contiguous' = (contiguous # (readOffset + n = Size))
    /\ UNCHANGED writeOffset

\* memcpy() of the items s to the region that Write() gave.
Copy(offset, s) ==
    cells' = [c \in Cells(Size) |->
                IF c \in Region(offset, Len(s)) THEN s[c - offset + 1] ELSE cells[c]]

\* BufferLock::Clear() of a buffer that is neither read nor written.
ClearRing ==
    /\ writeOffset' = 0
    /\ readOffset' = 0
    /\ contiguous' = TRUE
    /\ eod' = FALSE
    /\ failed' = FALSE
    /\ UNCHANGED cells

\* SetEndOfData() and SetException(); each throws after the other.
SetEndOfData == ~failed /\ eod' = TRUE /\ UNCHANGED failed
SetException == ~eod /\ failed' = TRUE /\ UNCHANGED eod

=============================================================================
