----------------------------- MODULE PagedBuffer -----------------------------
(***************************************************************************)
(* io/PagedBuffer.cpp: a byte stream kept in a deque of pages. One thread  *)
(* reads, any number push, and any thread pops what is no longer needed.   *)
(* The offsets count from the first page still kept, so dropping pages     *)
(* shifts them. Read and Push let go of _mutex while a page is read or     *)
(* written, and use what they saw before afterwards; that is what the      *)
(* model is about. Page number k, counted from the first ever made, holds  *)
(* the bytes of the stream from k * PageSize on.                           *)
(*                                                                         *)
(* IPage is implemented outside this repository. A page is taken to offer  *)
(* a reader the bytes that Push() has counted, not already those that it   *)
(* has put into the page and not yet taken off _tailSize.                  *)
(***************************************************************************)
EXTENDS Integers, Sequences

CONSTANTS
    PageSize,       \* _pageSize
    ChunkSize,      \* _chunkSize
    Pushers,        \* the threads that call Push
    Sizes,          \* the sizes of the data they push
    MaxBytes,       \* bound: bytes of all pushes together
    NoPusher,
    Width           \* 2^64, or less: offsets are computed modulo Width

ASSUME SizesAssumption ==
    /\ PageSize \in Nat \ {0} /\ ChunkSize \in Nat \ {0}
    /\ PageSize % ChunkSize = 0
    /\ Sizes \subseteq Nat \ {0}
    /\ MaxBytes \in Nat /\ Width \in Nat /\ Width > 2 * (MaxBytes + PageSize)
ASSUME PushersAssumption == NoPusher \notin Pushers

VARIABLES
    dropped,        \* pages ever dropped
    pages,          \* pages kept, _pages.size()
    cells,          \* history: the bytes of the pages, <<push, index>> or Blank
    start,          \* _startOffset
    current,        \* _currentOffset
    tail,           \* _tailSize
    writer,         \* the thread that has _activeWrite, or NoPusher
    push,           \* the Push(): number, bytes written, bytes left, phase
    pushes,         \* history: calls of Push so far
    budget,         \* bytes that may still be pushed
    reader,         \* "idle", "waiting", or "reading" outside _mutex
    read,           \* Read(): where it reads, and the currentOffset it saved
    seenTo,         \* history: the consumer has seen all the stream up to here
    sequential      \* history: so far no Seek(), and no Pop() past the position

pushVars == <<cells, writer, push, pushes, budget>>
readVars == <<reader, read, seenTo>>
vars == <<dropped, pages, start, current, tail, sequential, pushVars, readVars>>

Blank == <<0, 0>>
Lesser(a, b) == IF a < b THEN a ELSE b
Greater(a, b) == IF a > b THEN a ELSE b

StorageSize == PageSize * pages - start - tail
UnreadSize == (PageSize * pages - current - tail) % Width

\* Positions in the stream: of the reader, and of the end of what is stored.
Position == PageSize * dropped + current
StreamEnd == PageSize * (dropped + pages) - tail

\* Types, and offsets within the pages as the code expects them between calls.
TypeOK ==
    /\ dropped \in Nat /\ pages \in Nat
    /\ Len(cells) = PageSize * (dropped + pages)
    /\ start \in 0..PageSize - 1
    /\ start \in 0..current
    /\ tail \in 0..PageSize - 1
    /\ pages = 0 => tail = 0
    /\ writer \in Pushers \cup {NoPusher}
    /\ push \in [number : 0..pushes, done : Nat, left : Nat,
                 phase : {"none", "tail", "written", "pages"}]
    /\ writer = NoPusher <=> push.phase = "none"
    /\ budget \in 0..MaxBytes
    /\ reader \in {"idle", "waiting", "reading"}
    /\ read \in [position : Nat, saved : Nat]

NoPush == [number |-> 0, done |-> 0, left |-> 0, phase |-> "none"]

Init ==
    /\ dropped = 0 /\ pages = 0 /\ cells = <<>>
    /\ start = 0 /\ current = 0 /\ tail = 0
    /\ writer = NoPusher /\ push = NoPush /\ pushes = 0
    /\ budget = MaxBytes
    /\ reader = "idle" /\ read = [position |-> 0, saved |-> 0]
    /\ seenTo = 0
    /\ sequential = TRUE

-----------------------------------------------------------------------------
(* Push *)

\* The first n bytes that the push has left, as they are kept in cells.
Bytes(n) == [i \in 1..n |-> <<push.number, push.done + i>>]

\* _dataPushed.Broadcast()
WakeReader == reader' = IF reader = "waiting" THEN "idle" ELSE reader

\* WriteGuard lets one Push in; it sees whether the last page has room.
BeginPush(p, n) ==
    /\ writer = NoPusher
    /\ n <= budget
    /\ writer' = p
    /\ pushes' = pushes + 1
    /\ push' = [number |-> pushes', done |-> 0, left |-> n,
                phase |-> IF tail > 0 THEN "tail" ELSE "pages"]
    /\ budget' = budget - n
    /\ UNCHANGED <<dropped, pages, cells, start, current, tail, readVars,
                   sequential>>

ToTail == Lesser(tail, push.left)

\* tailPage->Write, without _mutex.
WriteTail ==
    /\ push.phase = "tail"
    /\ cells' = SubSeq(cells, 1, StreamEnd) \o Bytes(ToTail)
                \o [i \in 1..(tail - ToTail) |-> Blank]
    /\ push' = [push EXCEPT !.phase = "written"]
    /\ UNCHANGED <<dropped, pages, start, current, tail,
                   writer, pushes, budget, readVars, sequential>>

\* Mutated form of CountTail: the reader is not told.
CountTailSilently ==
    /\ push.phase = "written"
    /\ tail' = tail - ToTail
    /\ IF push.left = ToTail
       THEN writer' = NoPusher /\ push' = NoPush
       ELSE /\ push' = [push EXCEPT !.phase = "pages", !.done = @ + ToTail,
                                    !.left = @ - ToTail]
            /\ UNCHANGED writer
    /\ UNCHANGED <<dropped, pages, cells, start, current, pushes, budget,
                   readVars, sequential>>

\* Back under _mutex: the tail is smaller, and Push is done or makes pages.
CountTail ==
    /\ push.phase = "written"
    /\ tail' = tail - ToTail
    /\ WakeReader
    /\ IF push.left = ToTail
       THEN writer' = NoPusher /\ push' = NoPush
       ELSE /\ push' = [push EXCEPT !.phase = "pages", !.done = @ + ToTail,
                                    !.left = @ - ToTail]
            /\ UNCHANGED writer
    /\ UNCHANGED <<dropped, pages, cells, start, current, pushes, budget, read,
                   seenTo, sequential>>

\* Mutated form of AppendPages: the room in the last page is not kept.
AppendPagesFull ==
    /\ push.phase = "pages"
    /\ LET made == (push.left + PageSize - 1) \div PageSize
       IN  /\ pages' = pages + made
           /\ tail' = 0
           /\ cells' = cells \o Bytes(push.left)
                      \o [i \in 1..(made * PageSize - push.left) |-> Blank]
    /\ WakeReader
    /\ writer' = NoPusher
    /\ push' = NoPush
    /\ UNCHANGED <<dropped, start, current, pushes, budget, read, seenTo,
                   sequential>>

\* The rest goes to new pages, which nobody sees before they are inserted.
AppendPages ==
    /\ push.phase = "pages"
    /\ LET made == (push.left + PageSize - 1) \div PageSize
       IN  /\ pages' = pages + made
           /\ tail' = made * PageSize - push.left
           /\ cells' = cells \o Bytes(push.left) \o [i \in 1..tail' |-> Blank]
    /\ WakeReader
    /\ writer' = NoPusher
    /\ push' = NoPush
    /\ UNCHANGED <<dropped, start, current, pushes, budget, read, seenTo,
                   sequential>>

\* A page cannot be made or written, or the token is cancelled: Push throws.
\* What it has counted stays in the buffer.
FailPush ==
    /\ push.phase \in {"tail", "pages"}
    /\ writer' = NoPusher
    /\ push' = NoPush
    /\ UNCHANGED <<dropped, pages, cells, start, current, tail,
                   pushes, budget, readVars, sequential>>

-----------------------------------------------------------------------------
(* Read *)

\* Not a chunk is there: wait, once, for a broadcast or for the token.
WaitForData ==
    /\ reader = "idle"
    /\ UnreadSize < ChunkSize
    /\ reader' = "waiting"
    /\ UNCHANGED <<dropped, pages, start, current, tail, pushVars, read, seenTo,
                   sequential>>

StopWaiting ==
    /\ reader = "waiting"
    /\ reader' = "idle"
    /\ UNCHANGED <<dropped, pages, start, current, tail, pushVars, read, seenTo,
                   sequential>>

\* The page and the offset in it are chosen, and _mutex is left.
BeginRead ==
    /\ reader = "idle"
    /\ UnreadSize >= ChunkSize
    /\ current \div PageSize < pages
    /\ reader' = "reading"
    /\ read' = [position |-> Position, saved |-> current]
    /\ UNCHANGED <<dropped, pages, start, current, tail, pushVars, seenTo,
                   sequential>>

\* How much of its page the reader can be offered.
Offered ==
    LET pageEnd == (read.position \div PageSize + 1) * PageSize
    IN  Lesser(pageEnd, StreamEnd) - read.position

Saw(n) == seenTo' = IF read.position <= seenTo
                    THEN Greater(seenTo, read.position + n) ELSE seenTo

\* Mutated form of EndRead: a chunk of which a part was processed is skipped.
EndReadRoundedUp(n) ==
    /\ reader = "reading"
    /\ n <= Offered
    /\ Saw(n)
    /\ current' = IF current = read.saved
                  THEN current + ((n + ChunkSize - 1) \div ChunkSize) * ChunkSize
                  ELSE current
    /\ reader' = "idle"
    /\ UNCHANGED <<dropped, pages, start, tail, pushVars, read, sequential>>

\* The consumer processed n bytes; whole chunks count, if _currentOffset is
\* what it was.
EndRead(n) ==
    /\ reader = "reading"
    /\ n <= Offered
    /\ Saw(n)
    /\ current' = IF current = read.saved
                  THEN current + (n - (n % ChunkSize)) ELSE current
    /\ reader' = "idle"
    /\ UNCHANGED <<dropped, pages, start, tail, pushVars, read, sequential>>

\* The consumer throws, or the token is cancelled.
AbortRead ==
    /\ reader = "reading"
    /\ reader' = "idle"
    /\ UNCHANGED <<dropped, pages, start, current, tail, pushVars, read, seenTo,
                   sequential>>

-----------------------------------------------------------------------------
(* Pop and Seek *)

\* Whole pages before the new start go; the position moves if it was there.
Pop(n) ==
    /\ n <= StorageSize
    /\ n % ChunkSize = 0
    /\ sequential' = (sequential /\ start + n <= current)
    /\ LET newStart == start + n
           whole == newStart \div PageSize
       IN  /\ dropped' = dropped + whole
           /\ pages' = pages - whole
           /\ start' = newStart - whole * PageSize
           /\ current' = Greater(newStart, current) - whole * PageSize
    /\ UNCHANGED <<tail, pushVars, readVars>>

Seek(offset) ==
    /\ sequential' = FALSE
    /\ offset <= StorageSize
    /\ offset % ChunkSize = 0
    /\ current' = start + offset
    /\ UNCHANGED <<dropped, pages, start, tail, pushVars, readVars>>

-----------------------------------------------------------------------------

Next ==
    \/ \E p \in Pushers, n \in Sizes : BeginPush(p, n)
    \/ WriteTail \/ CountTail \/ AppendPages \/ FailPush
    \/ WaitForData \/ StopWaiting \/ BeginRead \/ AbortRead
    \/ \E n \in 0..PageSize : EndRead(n)
    \/ \E n \in 1..MaxBytes : Pop(n)
    \/ \E offset \in 0..MaxBytes : Seek(offset)

Spec == Init /\ [][Next]_vars

-----------------------------------------------------------------------------
(* Properties *)

(***************************************************************************)
(* Read never finds its position outside the pages, so it never throws     *)
(* "Broken invariant: current offset ... that is out of range".            *)
(***************************************************************************)
NoBrokenInvariant ==
    reader = "idle" /\ UnreadSize >= ChunkSize => current \div PageSize < pages

(***************************************************************************)
(* As long as nobody seeks or pops what is not read, the read position     *)
(* never gets past a byte the consumer has not seen, whatever is pushed and *)
(* popped while Read is outside its mutex, and it stays within the data:   *)
(* the exception above is not thrown.                                      *)
(***************************************************************************)
NothingSkipped ==
    sequential =>
        /\ Position <= seenTo /\ Position <= StreamEnd
        /\ NoBrokenInvariant

(***************************************************************************)
(* The stored stream is the pushes one after another: none has another's   *)
(* bytes in it, and one that fails leaves a beginning of its data.         *)
(***************************************************************************)
PushesStayWhole ==
    \A i \in 1..StreamEnd :
        /\ cells[i] # Blank
        /\ \/ cells[i][2] = 1 /\ (i > 1 => cells[i][1] > cells[i - 1][1])
           \/ i > 1 /\ cells[i] = <<cells[i - 1][1], cells[i - 1][2] + 1>>

\* Types, and as long as nobody seeks a reader waits only while there is no chunk
\* to read: no wake up is lost.
WaitsOnlyWithoutData ==
    /\ TypeOK
    /\ sequential /\ reader = "waiting" => UnreadSize < ChunkSize

=============================================================================
