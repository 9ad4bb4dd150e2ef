------------------------- MODULE PagesAndPipes_proofs --------------------------
(***************************************************************************)
(* Proofs about PagesAndPipes, for every size of the pages, of the chunks  *)
(* and of the data, and any number of threads.                             *)
(*                                                                         *)
(* PagedBuffer: as long as nobody seeks, the reader's position stays       *)
(* within the data and behind what the consumer has seen (NothingSkipped), *)
(* and a waiting reader has no chunk to read. Following ties the position  *)
(* that a Read has begun at to the one it finds when it ends, whatever was *)
(* popped in between. The pushes stay whole (PushesStayWhole) because a    *)
(* push continues what is stored: Continues says where the stored bytes    *)
(* end, at each point where _mutex is let go.                              *)
(*                                                                         *)
(* Pipe: the pipes implement Rendezvous. The write underway is that of the *)
(* only client inside the inner Write (Holding), whose bytes the pipe      *)
(* refers to only while the client is there (Referring).                   *)
(***************************************************************************)
EXTENDS PagesAndPipes, SequenceTheorems, TLAPS

\* The end of the data is within the last page, and the start is not behind it.
Room ==
    /\ start <= PageSize * pages - tail
    /\ tail <= PageSize * (dropped + pages)

\* A push is the latest one; while it has room in the last page no byte of it is
\* counted, and it makes pages when the room is used up.
Pushing ==
    /\ push.phase # "none" => push.number = pushes /\ push.left > 0
    /\ push.phase \in {"tail", "written"} => tail > 0 /\ push.done = 0
    /\ push.phase = "pages" => tail = 0

\* The push continues the stored bytes: they end with what it has counted, or
\* with those of an earlier push.
Continues ==
    /\ cells \in Seq(Nat \X Nat)
    /\ StreamEnd > 0 => cells[StreamEnd][1] <= pushes
    /\ push.phase # "none" =>
        IF push.done = 0
        THEN StreamEnd > 0 => cells[StreamEnd][1] < push.number
        ELSE StreamEnd > 0 /\ cells[StreamEnd] = <<push.number, push.done>>
    /\ push.phase = "written" =>
        \A i \in 1..ToTail : cells[StreamEnd + i] = <<push.number, push.done + i>>

\* Without a Seek, the reader's position is at most where it has seen everything,
\* and it is the one that a Read under way has begun at.
Following ==
    /\ seenTo \in Nat
    /\ sequential =>
        /\ Position <= seenTo /\ Position <= StreamEnd
        /\ reader = "reading" => read.position = Position

\* Without a Seek, whoever waits has no chunk to read.
Waiting == sequential /\ reader = "waiting" => UnreadSize < ChunkSize

Counters == sequential \in BOOLEAN /\ current \in Nat /\ pushes \in Nat

IInv ==
    /\ TypeOK /\ Counters
    /\ Room
    /\ Pushing
    /\ Continues /\ PushesStayWhole
    /\ Following
    /\ Waiting

-----------------------------------------------------------------------------
(* Offsets *)

DroppedBytes == PageSize * dropped
KeptBytes == PageSize * pages

\* The products of the definitions, named.
LEMMA Stream ==
  ASSUME TypeOK, Counters
  PROVE  /\ DroppedBytes \in Nat /\ KeptBytes \in Nat
         /\ PageSize * (dropped + pages) = DroppedBytes + KeptBytes
         /\ Position = DroppedBytes + current
         /\ StreamEnd = DroppedBytes + KeptBytes - tail
         /\ StorageSize = KeptBytes - start - tail
         /\ UnreadSize = (KeptBytes - current - tail) % Width
<1> DEFINE All == PageSize * (dropped + pages)
<1>1. dropped \in Nat /\ pages \in Nat /\ PageSize \in Nat /\ tail \in Int
  BY SizesAssumption DEF TypeOK
<1>2. /\ DroppedBytes \in Nat /\ KeptBytes \in Nat
      /\ All = DroppedBytes + KeptBytes
  BY <1>1, SMTT(30) DEF DroppedBytes, KeptBytes
<1>3. /\ Position = DroppedBytes + current
      /\ StreamEnd = All - tail
      /\ StorageSize = KeptBytes - start - tail
      /\ UnreadSize = (KeptBytes - current - tail) % Width
  BY Zenon DEF DroppedBytes, KeptBytes, Position, StreamEnd, StorageSize, UnreadSize
<1> HIDE DEF All
<1>4. /\ DroppedBytes \in Nat /\ KeptBytes \in Nat
      /\ All = DroppedBytes + KeptBytes
      /\ Position = DroppedBytes + current
      /\ StreamEnd = DroppedBytes + KeptBytes - tail
      /\ StorageSize = KeptBytes - start - tail
      /\ UnreadSize = (KeptBytes - current - tail) % Width
  BY <1>1, <1>2, <1>3
<1> QED
  BY <1>4, Zenon DEF All

\* What lies within the pages lies in one of them.
LEMMA WithinPages ==
  ASSUME NEW p \in Nat \ {0}, NEW n \in Nat, NEW a \in Nat, a < p * n
  PROVE  a \div p < n
<1>1. a \div p \in Nat /\ p * (a \div p) <= a
  BY SMTT(30)
<1>2. ASSUME a \div p >= n PROVE FALSE
  <2>1. p * (a \div p) >= p * n
    BY <1>1, <1>2, SMTT(30)
  <2> QED
    BY <1>1, <2>1, SMTT(30)
<1> QED
  BY <1>1, <1>2

\* The whole pages before an offset, and where it is in the next one.
LEMMA WholePages ==
  ASSUME NEW p \in Nat \ {0}, NEW a \in Nat
  PROVE  /\ a \div p \in Nat
         /\ (a \div p) * p \in Nat /\ (a \div p) * p <= a
         /\ a - (a \div p) * p \in 0..p - 1
  BY SMTT(30)

\* Whole pages that hold n bytes, the last one at least one of them.
LEMMA PagesFor ==
  ASSUME NEW p \in Nat \ {0}, NEW n \in Nat \ {0},
         NEW made, made = (n + p - 1) \div p
  PROVE  made \in Nat \ {0} /\ made * p \in Nat /\ made * p - n \in 0..p - 1
<1> DEFINE a == n + p - 1
<1>1. a \in Nat /\ a >= p
  OBVIOUS
<1> HIDE DEF a
<1>2. /\ a \div p \in Nat
      /\ (a \div p) * p \in Nat /\ (a \div p) * p <= a
      /\ a - (a \div p) * p \in 0..p - 1
  BY <1>1, WholePages
<1>3. a \div p # 0
  BY <1>1, <1>2
<1> QED
  BY <1>2, <1>3 DEF a

\* The chunks in n bytes.
LEMMA Chunks ==
  ASSUME NEW c \in Nat \ {0}, NEW n \in Nat
  PROVE  n % c \in Int /\ n - (n % c) \in 0..n
  BY SMTT(30)

-----------------------------------------------------------------------------
(* The stored pushes *)

\* The first e bytes of s are pushes one after another.
Whole(s, e) ==
    \A i \in 1..e :
        /\ s[i] # Blank
        /\ \/ s[i][2] = 1 /\ (i > 1 => s[i][1] > s[i - 1][1])
           \/ i > 1 /\ s[i] = <<s[i - 1][1], s[i - 1][2] + 1>>

\* That is what PushesStayWhole says of the buffer.
LEMMA WholeBuffer == PushesStayWhole <=> Whole(cells, StreamEnd)
  BY DEF PushesStayWhole, Whole

\* It depends on those bytes only.
LEMMA SameBytes ==
  ASSUME NEW s, NEW t, NEW e \in Nat, \A i \in 1..e : s[i] = t[i], Whole(s, e)
  PROVE  Whole(t, e)
<1> SUFFICES ASSUME NEW i \in 1..e
             PROVE  /\ t[i] # Blank
                    /\ \/ t[i][2] = 1 /\ (i > 1 => t[i][1] > t[i - 1][1])
                       \/ i > 1 /\ t[i] = <<t[i - 1][1], t[i - 1][2] + 1>>
  BY DEF Whole
<1>1. /\ s[i] # Blank
      /\ \/ s[i][2] = 1 /\ (i > 1 => s[i][1] > s[i - 1][1])
         \/ i > 1 /\ s[i] = <<s[i - 1][1], s[i - 1][2] + 1>>
  BY DEF Whole
<1>2. s[i] = t[i] /\ (i > 1 => s[i - 1] = t[i - 1])
  OBVIOUS
<1> QED
  BY <1>1, <1>2

\* The next n bytes of the latest push keep them whole.
LEMMA Extended ==
  ASSUME NEW s, NEW e \in Nat, Whole(s, e), NEW n \in Nat,
         NEW number \in Nat, NEW done \in Nat,
         done = 0 => (e > 0 => s[e][1] < number),
         done # 0 => e > 0 /\ s[e] = <<number, done>>,
         \A i \in 1..n : s[e + i] = <<number, done + i>>
  PROVE  Whole(s, e + n)
<1> SUFFICES ASSUME NEW i \in 1..(e + n)
             PROVE  /\ s[i] # Blank
                    /\ \/ s[i][2] = 1 /\ (i > 1 => s[i][1] > s[i - 1][1])
                       \/ i > 1 /\ s[i] = <<s[i - 1][1], s[i - 1][2] + 1>>
  BY DEF Whole
<1>1. CASE i <= e
  BY <1>1 DEF Whole
<1>2. CASE i > e
  <2>1. PICK j \in 1..n : i = e + j
    <3>1. i - e \in 1..n /\ i = e + (i - e)
      BY <1>2
    <3> QED
      BY <3>1
  <2>2. s[i] = <<number, done + j>> /\ s[i] # Blank
    <3>1. s[i] = <<number, done + j>>
      BY <2>1
    <3>2. done + j # 0
      OBVIOUS
    <3> QED
      BY <3>1, <3>2 DEF Blank
  <2>3. CASE j = 1
    <3>1. i - 1 = e /\ (i > 1 <=> e > 0)
      BY <2>1, <2>3
    <3>2. CASE done = 0
      BY <2>2, <2>3, <3>1, <3>2
    <3>3. CASE done # 0
      BY <2>2, <2>3, <3>1, <3>3
    <3> QED
      BY <3>2, <3>3
  <2>4. CASE j # 1
    <3>1. j - 1 \in 1..n /\ i - 1 = e + (j - 1) /\ i > 1
      BY <2>1, <2>4
    <3>2. s[i - 1] = <<number, done + (j - 1)>>
      BY <3>1
    <3>3. done + j = (done + (j - 1)) + 1
      OBVIOUS
    <3> QED
      BY <2>2, <3>1, <3>2, <3>3
  <2> QED
    BY <2>3, <2>4
<1> QED
  BY <1>1, <1>2

-----------------------------------------------------------------------------
(* The invariant *)

\* It holds at the start.
LEMMA InitInvariant == Init => IInv
<1> SUFFICES ASSUME Init PROVE IInv
  OBVIOUS
<1>1. TypeOK /\ Counters
  <2>1. PageSize * (dropped + pages) = 0 /\ PageSize - 1 \in Nat
    BY SizesAssumption DEF Init
  <2>2. push = NoPush /\ push.phase = "none"
    BY DEF Init, NoPush
  <2> QED
    BY <2>1, <2>2, SizesAssumption DEF Init, TypeOK, Counters, NoPush
<1>2. DroppedBytes = 0 /\ KeptBytes = 0
  BY SizesAssumption DEF Init, DroppedBytes, KeptBytes
<1>3. StreamEnd = 0 /\ Position = 0
  BY <1>1, <1>2, Stream DEF Init
<1>4. Room
  BY <1>1, <1>2, Stream DEF Room, Init, KeptBytes
<1>5. push.phase = "none"
  BY DEF Init, NoPush
<1>6. Pushing /\ Continues /\ PushesStayWhole
  BY <1>3, <1>5, EmptySeq DEF Init, Pushing, Continues, PushesStayWhole
<1>7. Following /\ Waiting
  BY <1>3 DEF Init, Following, Waiting
<1> QED
  BY <1>1, <1>4, <1>6, <1>7 DEF IInv

\* The stored stream is what is in the cells, up to the room that is left.
LEMMA Offsets ==
  ASSUME IInv
  PROVE  /\ Position \in Nat /\ StreamEnd \in Nat /\ tail \in Nat
         /\ StreamEnd + tail = Len(cells) /\ cells \in Seq(Nat \X Nat)
<1>1. TypeOK /\ Counters
  BY DEF IInv
<1>2. /\ DroppedBytes \in Nat /\ KeptBytes \in Nat
      /\ PageSize * (dropped + pages) = DroppedBytes + KeptBytes
      /\ Position = DroppedBytes + current
      /\ StreamEnd = DroppedBytes + KeptBytes - tail
  BY <1>1, Stream
<1> DEFINE All == PageSize * (dropped + pages)
<1>3. tail \in 0..PageSize - 1 /\ PageSize \in Nat /\ current \in Nat
      /\ Len(cells) = All /\ tail <= All /\ cells \in Seq(Nat \X Nat)
  BY SizesAssumption DEF IInv, TypeOK, Counters, Room, Continues
<1>4. All = DroppedBytes + KeptBytes
  BY <1>2
<1> HIDE DEF All
<1> QED
  BY <1>2, <1>3, <1>4

\* A step that leaves the push and the stored stream alone keeps what is said of them.
LEMMA PushKept ==
  ASSUME IInv, UNCHANGED <<tail, pushVars>>, StreamEnd' = StreamEnd
  PROVE  Pushing' /\ Continues' /\ PushesStayWhole'
<1>1. ToTail' = ToTail
  BY DEF ToTail, pushVars
<1>2. Pushing'
  BY DEF IInv, Pushing, pushVars
<1>3. Continues'
  BY <1>1, Zenon DEF IInv, Continues, pushVars
<1>4. PushesStayWhole'
  BY Zenon DEF IInv, PushesStayWhole, pushVars
<1> QED
  BY <1>2, <1>3, <1>4

\* A step that leaves the pages and the reader alone keeps what is said of the reader.
LEMMA ReaderKept ==
  ASSUME IInv, UNCHANGED <<dropped, pages, start, current, tail, readVars, sequential>>
  PROVE  Room' /\ Following' /\ Waiting'
  BY DEF IInv, Room, Following, Waiting, Position, StreamEnd, UnreadSize, readVars

\* More data and a broadcast keep it, too.
LEMMA ReaderWoken ==
  ASSUME IInv, UNCHANGED <<dropped, start, current, read, seenTo, sequential>>, WakeReader,
         StreamEnd' \in Int, StreamEnd' >= StreamEnd
  PROVE  Following' /\ Waiting'
<1>1. Position' = Position /\ Position \in Int /\ StreamEnd \in Int
  <2>1. Position' = Position
    BY DEF Position
  <2>2. Position \in Int /\ StreamEnd \in Int
    BY Offsets
  <2> QED
    BY <2>1, <2>2
<1>2. reader' # "waiting" /\ (reader' = "reading" => reader = "reading")
  BY DEF WakeReader
<1>3. Following'
  BY <1>1, <1>2 DEF IInv, Following
<1> QED
  BY <1>2, <1>3 DEF Waiting

-----------------------------------------------------------------------------
(* Push *)

\* A Push begins.
LEMMA BeginPushInvariant ==
  ASSUME IInv, NEW p \in Pushers, NEW n \in Sizes, BeginPush(p, n)
  PROVE  IInv'
<1>1. n \in Nat \ {0} /\ n <= budget /\ budget \in 0..MaxBytes /\ MaxBytes \in Nat
  BY SizesAssumption DEF BeginPush, IInv, TypeOK
<1>2. push' = [number |-> pushes + 1, done |-> 0, left |-> n,
               phase |-> IF tail > 0 THEN "tail" ELSE "pages"]
  BY DEF BeginPush
<1>3. /\ push'.number = pushes + 1 /\ push'.done = 0 /\ push'.left = n
      /\ push'.phase = IF tail > 0 THEN "tail" ELSE "pages"
      /\ pushes' = pushes + 1 /\ pushes \in Nat
  BY <1>2 DEF BeginPush, IInv, Counters
<1>4. StreamEnd' = StreamEnd
  BY DEF BeginPush, StreamEnd
<1>5. TypeOK' /\ Counters'
  <2>1. push' \in [number : 0..pushes', done : Nat, left : Nat,
                   phase : {"none", "tail", "written", "pages"}]
    BY <1>1, <1>2, <1>3
  <2>2. writer' = p /\ p # NoPusher /\ push'.phase # "none" /\ budget' = budget - n
    BY <1>3, PushersAssumption DEF BeginPush
  <2> QED
    BY <1>1, <1>3, <2>1, <2>2 DEF BeginPush, IInv, TypeOK, Counters, readVars
<1>6. Pushing'
  BY <1>1, <1>3 DEF BeginPush, Pushing, IInv, TypeOK
<1>7. Continues'
  <2>1. cells' = cells /\ cells \in Seq(Nat \X Nat) /\ StreamEnd \in Int
        /\ StreamEnd <= Len(cells)
    BY Offsets DEF BeginPush
  <2>2. StreamEnd > 0 => cells[StreamEnd][1] \in Nat /\ cells[StreamEnd][1] <= pushes
    <3>1. StreamEnd > 0 => StreamEnd \in 1..Len(cells)
      BY <2>1, LenProperties
    <3>2. StreamEnd > 0 => cells[StreamEnd] \in Nat \X Nat
      BY <2>1, <3>1, ElementOfSeq
    <3> QED
      BY <3>2 DEF IInv, Continues
  <2> QED
    BY <1>3, <1>4, <2>1, <2>2 DEF Continues
<1>8. PushesStayWhole'
  BY <1>4, Zenon DEF BeginPush, IInv, PushesStayWhole
<1>9. Room' /\ Following' /\ Waiting'
  BY ReaderKept DEF BeginPush
<1> QED
  BY <1>5, <1>6, <1>7, <1>8, <1>9 DEF IInv

\* A Push fails: the bytes it has counted stay, whole.
LEMMA FailPushInvariant ==
  ASSUME IInv, FailPush
  PROVE  IInv'
<1>1. push' = NoPush /\ push'.phase = "none" /\ UNCHANGED <<pushes, cells>>
  BY DEF FailPush, NoPush
<1>2. StreamEnd' = StreamEnd
  BY DEF FailPush, StreamEnd
<1>3. TypeOK' /\ Counters'
  <2>1. push' \in [number : 0..pushes', done : Nat, left : Nat,
                   phase : {"none", "tail", "written", "pages"}]
    BY <1>1 DEF NoPush, IInv, Counters
  <2> QED
    BY <1>1, <2>1 DEF FailPush, IInv, TypeOK, Counters, readVars
<1>4. Pushing' /\ Continues'
  BY <1>1, <1>2 DEF IInv, Pushing, Continues
<1>5. PushesStayWhole'
  BY <1>1, <1>2, Zenon DEF IInv, PushesStayWhole
<1>6. Room' /\ Following' /\ Waiting'
  BY ReaderKept DEF FailPush
<1> QED
  BY <1>3, <1>4, <1>5, <1>6 DEF IInv

\* What a push writes of the last page is a part of its data and of the room.
LEMMA TailWritten ==
  ASSUME IInv, push.phase \in {"tail", "written"}
  PROVE  /\ ToTail \in 1..tail /\ ToTail \in 1..push.left
         /\ ToTail = tail \/ ToTail = push.left
         /\ push.number = pushes /\ pushes \in Nat /\ push.done = 0 /\ push.left \in Nat
<1>1. /\ tail \in Nat /\ tail > 0 /\ push.left \in Nat /\ push.left > 0
      /\ push.number = pushes /\ pushes \in Nat /\ push.done = 0
  BY SizesAssumption DEF IInv, TypeOK, Counters, Pushing
<1> QED
  BY <1>1 DEF ToTail, Lesser

\* The bytes go where the stored ones end; nothing is counted yet.
LEMMA WriteTailInvariant ==
  ASSUME IInv, WriteTail
  PROVE  IInv'
<1> DEFINE n == ToTail
           stored == SubSeq(cells, 1, StreamEnd)
           room == [i \in 1..(tail - n) |-> Blank]
           bytes == Bytes(n)
<1>1. /\ n \in 1..tail /\ n \in 1..push.left /\ tail \in Nat
      /\ push.number = pushes /\ pushes \in Nat /\ push.done = 0 /\ push.left \in Nat
  BY TailWritten, Offsets DEF WriteTail
<1>2. cells' = stored \o bytes \o room
  BY Zenon DEF WriteTail
<1>3. stored \in Seq(Nat \X Nat) /\ Len(stored) = StreamEnd
      /\ \A i \in 1..StreamEnd : stored[i] = cells[i]
  <2>1. StreamEnd \in Nat /\ \A i \in 1..StreamEnd : cells[i] \in Nat \X Nat
    BY Offsets, ElementOfSeq
  <2> QED
    BY <2>1, SubSeqProperties
<1>4. bytes \in Seq(Nat \X Nat) /\ Len(bytes) = n
      /\ \A i \in 1..n : bytes[i] = <<push.number, push.done + i>>
  BY <1>1 DEF Bytes
<1>5. room \in Seq(Nat \X Nat) /\ Len(room) = tail - n
  BY <1>1 DEF Blank
<1>6. StreamEnd \in Nat /\ StreamEnd + tail = Len(cells)
  BY Offsets
<1> HIDE DEF n, stored, room, bytes
<1>7. stored \o bytes \in Seq(Nat \X Nat) /\ Len(stored \o bytes) = StreamEnd + n
      /\ \A i \in 1..(StreamEnd + n) : (stored \o bytes)[i] =
            IF i <= StreamEnd THEN stored[i] ELSE bytes[i - StreamEnd]
  BY <1>3, <1>4, ConcatProperties
<1> DEFINE front == stored \o bytes
<1>8. /\ cells' \in Seq(Nat \X Nat) /\ Len(cells') = Len(cells)
      /\ \A i \in 1..(StreamEnd + n) : cells'[i] = front[i]
  <2>1. front \in Seq(Nat \X Nat) /\ Len(front) = StreamEnd + n /\ cells' = front \o room
    BY <1>2, <1>7
  <2> HIDE DEF front
  <2>2. /\ front \o room \in Seq(Nat \X Nat)
        /\ Len(front \o room) = Len(front) + Len(room)
        /\ \A i \in 1..Len(front) + Len(room) :
              (front \o room)[i] = IF i <= Len(front) THEN front[i] ELSE room[i - Len(front)]
    BY <1>5, <2>1, ConcatProperties
  <2>3. Len(front) + Len(room) = Len(cells) /\ StreamEnd + n <= Len(cells)
    <3>1. Len(front) = StreamEnd + n /\ Len(room) = tail - n
      BY <1>5, <2>1
    <3>2. n \in Int /\ n <= tail /\ tail \in Int
      BY <1>1
    <3> QED
      BY <1>6, <3>1, <3>2
  <2>4. ASSUME NEW i \in 1..(StreamEnd + n) PROVE (front \o room)[i] = front[i]
    <3>1. i \in 1..Len(front) + Len(room) /\ i <= Len(front)
      BY <1>1, <1>6, <2>1, <2>3
    <3> QED
      BY <2>2, <3>1
  <2> QED
    BY <2>1, <2>2, <2>3, <2>4
<1>9. /\ \A i \in 1..StreamEnd : cells'[i] = cells[i]
      /\ \A i \in 1..n : cells'[StreamEnd + i] = <<push.number, push.done + i>>
  <2>1. ASSUME NEW i \in 1..StreamEnd PROVE cells'[i] = cells[i]
    <3>1. i \in 1..(StreamEnd + n) /\ i <= StreamEnd
      BY <1>1, <1>6
    <3> QED
      BY <1>3, <1>7, <1>8, <3>1
  <2>2. ASSUME NEW i \in 1..n PROVE cells'[StreamEnd + i] = <<push.number, push.done + i>>
    <3>1. /\ StreamEnd + i \in 1..(StreamEnd + n) /\ ~(StreamEnd + i <= StreamEnd)
          /\ (StreamEnd + i) - StreamEnd = i
      BY <1>1, <1>6
    <3> QED
      BY <1>4, <1>7, <1>8, <3>1
  <2> QED
    BY <2>1, <2>2
<1>10. /\ push' = [push EXCEPT !.phase = "written"] /\ push.phase = "tail"
       /\ push \in [number : 0..pushes, done : Nat, left : Nat,
                    phase : {"none", "tail", "written", "pages"}]
  BY DEF WriteTail, IInv, TypeOK
<1>11. /\ push'.phase = "written" /\ push'.number = push.number
       /\ push'.done = push.done /\ push'.left = push.left
       /\ push' \in [number : 0..pushes, done : Nat, left : Nat,
                     phase : {"none", "tail", "written", "pages"}]
  BY <1>10
<1>12. StreamEnd' = StreamEnd /\ ToTail' = n
  BY <1>11 DEF n, ToTail, StreamEnd, WriteTail
<1>13. TypeOK' /\ Counters'
  BY <1>8, <1>10, <1>11 DEF WriteTail, IInv, TypeOK, Counters, readVars
<1>14. Pushing'
  BY <1>10, <1>11 DEF WriteTail, IInv, Pushing
<1>15. Continues'
  <2>1. StreamEnd > 0 => cells'[StreamEnd] = cells[StreamEnd]
    BY <1>6, <1>9
  <2>2. pushes' = pushes
    BY DEF WriteTail
  <2> QED
    BY <1>8, <1>9, <1>10, <1>11, <1>12, <2>1, <2>2 DEF IInv, Continues
<1>16. PushesStayWhole'
  <2>1. Whole(cells', StreamEnd)
    BY <1>6, <1>9, SameBytes, WholeBuffer DEF IInv
  <2> QED
    BY <1>12, <2>1 DEF PushesStayWhole, Whole
<1>17. Room' /\ Following' /\ Waiting'
  BY ReaderKept DEF WriteTail
<1> QED
  BY <1>13, <1>14, <1>15, <1>16, <1>17 DEF IInv

\* The bytes written are counted, and Push is done or goes on with a full page.
LEMMA CountTailInvariant ==
  ASSUME IInv, CountTail
  PROVE  IInv'
<1> DEFINE n == ToTail
<1>1. /\ n \in 1..tail /\ n \in 1..push.left /\ tail \in Nat /\ (n = tail \/ n = push.left)
      /\ push.number = pushes /\ pushes \in Nat /\ push.done = 0 /\ push.left \in Nat
  BY TailWritten, Offsets DEF CountTail
<1>2. push.phase = "written" /\ tail' = tail - n
      /\ UNCHANGED <<dropped, pages, cells, start, current, pushes, budget, read,
                     seenTo, sequential>>
  BY DEF CountTail
<1>3. StreamEnd \in Nat /\ StreamEnd' = StreamEnd + n
  <2>1. StreamEnd \in Nat /\ StreamEnd + tail = Len(cells)
    BY Offsets
  <2>2. Len(cells) = PageSize * (dropped + pages)
    BY DEF IInv, TypeOK
  <2> DEFINE All == PageSize * (dropped + pages)
  <2>3. StreamEnd = All - tail /\ StreamEnd' = All - tail'
    BY <1>2, Zenon DEF StreamEnd
  <2>4. All = Len(cells) /\ Len(cells) \in Int
    BY <1>1, <2>1, <2>2
  <2> HIDE DEF All
  <2> QED
    BY <1>1, <1>2, <2>1, <2>3, <2>4
<1>4. \A i \in 1..n : cells[StreamEnd + i] = <<push.number, push.done + i>>
  BY <1>2 DEF IInv, Continues
<1>5. tail' \in 0..PageSize - 1 /\ (pages' = 0 => tail' = 0) /\ tail' \in Int
  BY <1>1, <1>2, SizesAssumption DEF IInv, TypeOK
<1> DEFINE Pushes == [number : 0..pushes, done : Nat, left : Nat,
                      phase : {"none", "tail", "written", "pages"}]
<1>6. ASSUME push' \in Pushes, writer' \in Pushers \cup {NoPusher},
             writer' = NoPusher <=> push'.phase = "none"
      PROVE  TypeOK' /\ Counters'
  <2>1. reader' \in {"idle", "waiting", "reading"}
    BY DEF CountTail, WakeReader, IInv, TypeOK
  <2>2. /\ dropped' \in Nat /\ pages' \in Nat /\ start' \in 0..PageSize - 1
        /\ start' \in 0..current' /\ budget' \in 0..MaxBytes
        /\ read' \in [position : Nat, saved : Nat]
        /\ Len(cells') = PageSize * (dropped' + pages')
    BY <1>2, Zenon DEF IInv, TypeOK
  <2>3. Counters'
    BY <1>2 DEF IInv, Counters
  <2>4. push' \in [number : 0..pushes', done : Nat, left : Nat,
                   phase : {"none", "tail", "written", "pages"}]
    BY <1>2, <1>6, Zenon
  <2> QED
    BY <1>5, <1>6, <2>1, <2>2, <2>3, <2>4, Zenon DEF TypeOK
<1>10. push \in Pushes /\ writer \in Pushers \cup {NoPusher} /\ writer # NoPusher
  BY <1>2 DEF IInv, TypeOK
<1>11. ASSUME push.left = n
       PROVE  TypeOK' /\ Counters' /\ Pushing' /\ Continues'
  <2>1. push' = NoPush /\ push'.phase = "none" /\ writer' = NoPusher
    BY <1>11 DEF CountTail, NoPush
  <2>2. push' \in Pushes
    BY <1>1, <2>1 DEF NoPush
  <2>3. Pushing'
    BY <2>1 DEF Pushing
  <2>4. Continues'
    <3>1. cells[StreamEnd + n] = <<push.number, push.done + n>>
      BY <1>1, <1>4
    <3>2. cells[StreamEnd + n][1] = pushes /\ pushes <= pushes
      BY <1>1, <3>1
    <3> QED
      BY <1>2, <1>3, <2>1, <3>2 DEF IInv, Continues
  <2> QED
    BY <1>6, <2>1, <2>2, <2>3, <2>4
<1>12. ASSUME push.left # n
       PROVE  TypeOK' /\ Counters' /\ Pushing' /\ Continues'
  <2>1. /\ push' = [push EXCEPT !.phase = "pages", !.done = @ + n, !.left = @ - n]
        /\ writer' = writer
    BY <1>12 DEF CountTail
  <2>2. n = tail /\ tail' = 0 /\ push.left - n \in Nat /\ push.left - n > 0 /\ 0 + n = n
    BY <1>1, <1>2, <1>12
  <2>3. /\ push'.phase = "pages" /\ push'.number = pushes
        /\ push'.done = n /\ push'.left = push.left - n
    BY <1>1, <1>10, <2>1, <2>2
  <2>4. push' \in Pushes
    <3>1. push.done + n \in Nat /\ push.left - n \in Nat
      BY <1>1, <2>2
    <3> QED
      BY <1>10, <2>1, <3>1
  <2>5. Pushing'
    BY <1>2, <2>2, <2>3 DEF Pushing
  <2>6. Continues'
    <3>1. cells[StreamEnd + n] = <<pushes, n>>
      BY <1>1, <1>4
    <3>2. cells[StreamEnd + n][1] = pushes /\ pushes <= pushes /\ StreamEnd + n > 0 /\ n # 0
      BY <1>1, <1>3, <3>1
    <3> QED
      BY <1>2, <1>3, <2>3, <3>1, <3>2 DEF IInv, Continues
  <2> HIDE DEF Pushes
  <2> QED
    BY <1>6, <1>10, <2>1, <2>3, <2>4, <2>5, <2>6
<1>7. PushesStayWhole'
  <2>1. /\ push.done = 0 => (StreamEnd > 0 => cells[StreamEnd][1] < push.number)
        /\ push.done # 0 => StreamEnd > 0 /\ cells[StreamEnd] = <<push.number, push.done>>
    BY <1>2 DEF IInv, Continues
  <2>2. Whole(cells, StreamEnd) /\ n \in Nat /\ push.number \in Nat /\ push.done \in Nat
    BY <1>1, WholeBuffer DEF IInv
  <2>3. Whole(cells, StreamEnd + n)
    BY <1>3, <1>4, <2>1, <2>2, Extended
  <2> QED
    BY <1>2, <1>3, <2>3 DEF PushesStayWhole, Whole
<1>8. Room'
  <2>1. start \in Int /\ start <= KeptBytes - tail /\ tail <= PageSize * (dropped + pages)
    BY DEF IInv, Room, TypeOK, KeptBytes
  <2>2. KeptBytes \in Nat /\ PageSize * (dropped + pages) = DroppedBytes + KeptBytes
        /\ DroppedBytes \in Nat
    BY Stream DEF IInv
  <2>3. start' <= KeptBytes - tail'
    BY <1>1, <1>2, <2>1, <2>2
  <2>4. tail' <= DroppedBytes + KeptBytes
    BY <1>1, <1>2, <2>1, <2>2
  <2> QED
    BY <1>2, <2>2, <2>3, <2>4, Zenon DEF Room, KeptBytes
<1>9. Following' /\ Waiting'
  BY <1>1, <1>2, <1>3, ReaderWoken DEF CountTail
<1> QED
  BY <1>7, <1>8, <1>9, <1>11, <1>12 DEF IInv

\* A number of pages more is that many times a page more bytes.
LEMMA MorePages ==
  ASSUME NEW p \in Nat, NEW a \in Nat, NEW b \in Nat, NEW n \in Int
  PROVE  /\ p * a \in Nat /\ n * p \in Int
         /\ p * (b + n) = p * b + n * p
         /\ p * (a + (b + n)) = p * (a + b) + n * p
         /\ p * ((a + n) + (b - n)) = p * (a + b)
  BY SMTT(30)

\* The rest of the push fills new pages but for the room in the last one.
LEMMA AppendPagesInvariant ==
  ASSUME IInv, AppendPages
  PROVE  IInv'
<1> DEFINE n == push.left
           made == (n + PageSize - 1) \div PageSize
           more == made * PageSize
           bytes == Bytes(n)
           room == [i \in 1..tail' |-> Blank]
<1>1. /\ push.phase = "pages" /\ tail = 0 /\ n \in Nat \ {0} /\ push.number = pushes
      /\ pushes \in Nat /\ push.done \in Nat
      /\ PageSize \in Nat \ {0} /\ dropped \in Nat /\ pages \in Nat
  BY SizesAssumption DEF AppendPages, IInv, TypeOK, Counters, Pushing
<1>2. /\ pages' = pages + made /\ tail' = more - n
      /\ cells' = cells \o bytes \o room
      /\ writer' = NoPusher /\ push' = NoPush
  BY Zenon DEF AppendPages
<1>3. UNCHANGED <<dropped, start, current, pushes, budget, read, seenTo, sequential>>
  BY DEF AppendPages
<1>4. made \in Nat \ {0} /\ more \in Nat /\ more - n \in 0..PageSize - 1
  BY <1>1, PagesFor
<1>5. bytes \in Seq(Nat \X Nat) /\ Len(bytes) = n
      /\ \A i \in 1..n : bytes[i] = <<push.number, push.done + i>>
  BY <1>1, SMTT(30) DEF Bytes
<1>6. room \in Seq(Nat \X Nat) /\ Len(room) = tail'
  <2>1. tail' \in Nat
    BY <1>2, <1>4
  <2> QED
    BY <2>1 DEF Blank
<1>7. StreamEnd \in Nat /\ StreamEnd = Len(cells) /\ cells \in Seq(Nat \X Nat)
  BY <1>1, Offsets
<1>8. /\ PageSize * pages \in Nat /\ PageSize * pages' = PageSize * pages + more
      /\ PageSize * (dropped + pages') = PageSize * (dropped + pages) + more
  <2>1. made \in Int /\ PageSize \in Nat
    BY <1>1, <1>4
  <2> HIDE DEF made
  <2>2. /\ PageSize * pages \in Nat
        /\ PageSize * (pages + made) = PageSize * pages + made * PageSize
        /\ PageSize * (dropped + (pages + made)) = PageSize * (dropped + pages) + made * PageSize
    BY <1>1, <2>1, MorePages
  <2> QED
    BY <1>2, <2>2, Zenon
<1>9. Len(cells) = PageSize * (dropped + pages)
  BY DEF IInv, TypeOK
<1> HIDE DEF n, made, more, bytes, room
<1>10. StreamEnd' = StreamEnd + n
  <2> DEFINE All == PageSize * (dropped + pages')
  <2>1. StreamEnd' = All - tail'
    BY <1>3, Zenon DEF StreamEnd
  <2>2. All = StreamEnd + more
    BY <1>7, <1>8, <1>9
  <2> HIDE DEF All
  <2> QED
    BY <1>1, <1>2, <1>4, <1>7, <2>1, <2>2
<1> DEFINE front == cells \o bytes
<1>11. /\ front \in Seq(Nat \X Nat) /\ Len(front) = StreamEnd + n
       /\ \A i \in 1..(StreamEnd + n) : front[i] =
              IF i <= StreamEnd THEN cells[i] ELSE bytes[i - StreamEnd]
  BY <1>5, <1>7, ConcatProperties
<1>12. cells' = front \o room
  BY <1>2
<1> HIDE DEF front
<1>13. /\ cells' \in Seq(Nat \X Nat) /\ Len(cells') = StreamEnd + more
       /\ \A i \in 1..(StreamEnd + n) : cells'[i] = front[i]
  <2>1. /\ front \o room \in Seq(Nat \X Nat)
        /\ Len(front \o room) = Len(front) + Len(room)
        /\ \A i \in 1..Len(front) + Len(room) :
              (front \o room)[i] = IF i <= Len(front) THEN front[i] ELSE room[i - Len(front)]
    BY <1>6, <1>11, ConcatProperties
  <2>2. Len(front) + Len(room) = StreamEnd + more /\ StreamEnd + n <= Len(front) + Len(room)
    BY <1>1, <1>2, <1>4, <1>6, <1>7, <1>11
  <2>3. ASSUME NEW i \in 1..(StreamEnd + n) PROVE (front \o room)[i] = front[i]
    <3>1. i \in 1..Len(front) + Len(room) /\ i <= Len(front)
      BY <1>1, <1>7, <1>11, <2>2
    <3> QED
      BY <2>1, <3>1
  <2> QED
    BY <1>12, <2>1, <2>2, <2>3
<1>14. /\ \A i \in 1..StreamEnd : cells'[i] = cells[i]
       /\ \A i \in 1..n : cells'[StreamEnd + i] = <<push.number, push.done + i>>
  <2>1. ASSUME NEW i \in 1..StreamEnd PROVE cells'[i] = cells[i]
    <3>1. i \in 1..(StreamEnd + n) /\ i <= StreamEnd
      BY <1>1, <1>7
    <3> QED
      BY <1>11, <1>13, <3>1
  <2>2. ASSUME NEW i \in 1..n PROVE cells'[StreamEnd + i] = <<push.number, push.done + i>>
    <3>1. /\ StreamEnd + i \in 1..(StreamEnd + n) /\ ~(StreamEnd + i <= StreamEnd)
          /\ (StreamEnd + i) - StreamEnd = i
      BY <1>1, <1>7
    <3> QED
      BY <1>5, <1>11, <1>13, <3>1
  <2> QED
    BY <2>1, <2>2
<1>15. push'.phase = "none" /\ push' \in [number : 0..pushes', done : Nat, left : Nat,
                                          phase : {"none", "tail", "written", "pages"}]
  BY <1>1, <1>2, <1>3 DEF NoPush
<1>16. TypeOK' /\ Counters'
  <2>1. /\ tail' \in 0..PageSize - 1 /\ (pages' = 0 => tail' = 0) /\ pages' \in Nat
    BY <1>1, <1>2, <1>4
  <2>2. reader' \in {"idle", "waiting", "reading"}
    BY DEF AppendPages, WakeReader, IInv, TypeOK
  <2>3. /\ dropped' \in Nat /\ start' \in 0..PageSize - 1
        /\ start' \in 0..current' /\ budget' \in 0..MaxBytes
        /\ read' \in [position : Nat, saved : Nat]
    BY <1>3, Zenon DEF IInv, TypeOK
  <2>4. Counters'
    BY <1>3 DEF IInv, Counters
  <2>5. Len(cells') = PageSize * (dropped' + pages')
    BY <1>3, <1>7, <1>8, <1>9, <1>13, Zenon
  <2> QED
    BY <1>2, <1>15, <2>1, <2>2, <2>3, <2>4, <2>5, Zenon DEF TypeOK
<1>17. Room'
  <2>1. start <= PageSize * pages - tail /\ start \in Nat
    BY SizesAssumption DEF IInv, Room, TypeOK
  <2> DEFINE Kept == PageSize * pages
             Kept2 == PageSize * pages'
             All2 == PageSize * (dropped + pages')
  <2>2. /\ Kept \in Nat /\ Kept2 = Kept + more /\ All2 = StreamEnd + more
        /\ start <= Kept - tail
    BY <1>7, <1>8, <1>9, <2>1
  <2> HIDE DEF Kept, Kept2, All2
  <2>3. start <= Kept2 - tail' /\ tail' <= All2
    BY <1>1, <1>2, <1>4, <1>7, <2>1, <2>2
  <2> QED
    BY <1>3, <2>3, Zenon DEF Room, Kept2, All2
<1>18. Pushing'
  BY <1>15 DEF Pushing
<1>19. /\ push.done = 0 => (StreamEnd > 0 => cells[StreamEnd][1] < push.number)
       /\ push.done # 0 => StreamEnd > 0 /\ cells[StreamEnd] = <<push.number, push.done>>
  BY <1>1 DEF IInv, Continues
<1>20. PushesStayWhole'
  <2>1. Whole(cells', StreamEnd)
    BY <1>7, <1>14, SameBytes, WholeBuffer DEF IInv
  <2>2. StreamEnd > 0 => cells'[StreamEnd] = cells[StreamEnd]
    BY <1>7, <1>14
  <2>3. n \in Nat /\ push.number \in Nat
    BY <1>1
  <2>4. /\ push.done = 0 => (StreamEnd > 0 => cells'[StreamEnd][1] < push.number)
        /\ push.done # 0 => StreamEnd > 0 /\ cells'[StreamEnd] = <<push.number, push.done>>
    BY <1>19, <2>2
  <2>5. push.done \in Nat /\ StreamEnd \in Nat
    BY <1>1, <1>7
  <2>6. Whole(cells', StreamEnd + n)
    BY <1>14, <2>1, <2>3, <2>4, <2>5, Extended
  <2> QED
    BY <1>10, <2>6 DEF PushesStayWhole, Whole
<1>21. Continues'
  <2>1. cells'[StreamEnd + n] = <<push.number, push.done + n>>
    BY <1>1, <1>14
  <2>2. cells'[StreamEnd + n][1] = pushes /\ pushes <= pushes
    BY <1>1, <2>1
  <2> QED
    BY <1>3, <1>10, <1>13, <1>15, <2>2 DEF Continues
<1>22. Following' /\ Waiting'
  BY <1>1, <1>3, <1>7, <1>10, ReaderWoken DEF AppendPages
<1> QED
  BY <1>16, <1>17, <1>18, <1>20, <1>21, <1>22 DEF IInv

-----------------------------------------------------------------------------
(* Read, Pop and Seek *)

\* A Read waits, stops waiting, begins, or gives up.
LEMMA WaitInvariant ==
  ASSUME IInv, WaitForData \/ StopWaiting \/ BeginRead \/ AbortRead
  PROVE  IInv'
<1>1. UNCHANGED <<dropped, pages, start, current, tail, pushVars, seenTo, sequential>>
  BY DEF WaitForData, StopWaiting, BeginRead, AbortRead
<1>2. StreamEnd' = StreamEnd /\ Position' = Position /\ UnreadSize' = UnreadSize
  BY <1>1 DEF StreamEnd, Position, UnreadSize
<1>3. Position \in Nat /\ current \in Nat
  BY Offsets DEF IInv, Counters
<1>4. /\ reader' \in {"idle", "waiting", "reading"}
      /\ reader' = "waiting" => UnreadSize < ChunkSize
      /\ reader' = "reading" => read' = [position |-> Position, saved |-> current]
      /\ reader' # "reading" => read' = read
  BY DEF WaitForData, StopWaiting, BeginRead, AbortRead
<1>5. read' \in [position : Nat, saved : Nat]
  BY <1>3, <1>4 DEF IInv, TypeOK
<1>6. TypeOK' /\ Counters'
  BY <1>1, <1>4, <1>5, Zenon DEF IInv, TypeOK, Counters, pushVars
<1>7. Pushing' /\ Continues' /\ PushesStayWhole'
  BY <1>1, <1>2, PushKept
<1>8. Room'
  BY <1>1, Zenon DEF IInv, Room
<1>9. Following' /\ Waiting'
  BY <1>1, <1>2, <1>4 DEF IInv, Following, Waiting
<1> QED
  BY <1>6, <1>7, <1>8, <1>9 DEF IInv

\* Who moves by at most n is at most n further.
LEMMA NotFurther ==
  ASSUME NEW a \in Nat, NEW b \in Nat, NEW n \in Nat, NEW position \in Nat, b <= a + n
  PROVE  position + (b - a) <= position + n
  OBVIOUS

\* A Read ends: whole chunks of what the consumer has seen are behind it.
LEMMA EndReadInvariant ==
  ASSUME IInv, NEW n \in 0..PageSize, EndRead(n)
  PROVE  IInv'
<1> DEFINE chunks == n - (n % ChunkSize)
<1>1. n \in Nat /\ chunks \in 0..n
  <2>1. n \in Nat /\ ChunkSize \in Nat \ {0}
    BY SizesAssumption
  <2> QED
    BY <2>1, Chunks
<1> HIDE DEF chunks
<1>2. /\ reader = "reading" /\ reader' = "idle" /\ n <= Offered /\ Saw(n)
      /\ current' = IF current = read.saved THEN current + chunks ELSE current
      /\ UNCHANGED <<dropped, pages, start, tail, pushVars, read, sequential>>
  BY DEF EndRead, chunks
<1>3. /\ Position \in Nat /\ StreamEnd \in Nat /\ StreamEnd' = StreamEnd
      /\ current \in Nat /\ seenTo \in Nat /\ read.position \in Nat
      /\ start \in Int /\ start <= current
  <2>1. StreamEnd' = StreamEnd
    BY <1>2 DEF StreamEnd
  <2> QED
    BY <2>1, Offsets, SizesAssumption DEF IInv, TypeOK, Counters, Following
<1>4. current' \in Nat /\ current' >= current /\ current' <= current + n
  BY <1>1, <1>2, <1>3
<1>5. Position' = Position + (current' - current)
  <2>1. /\ Position = DroppedBytes + current /\ Position' = DroppedBytes + current'
        /\ DroppedBytes \in Nat
    BY <1>2, Stream DEF IInv, Position, DroppedBytes
  <2> QED
    BY <1>3, <1>4, <2>1
<1>6. TypeOK' /\ Counters'
  <2>1. start' \in 0..current'
    BY <1>2, <1>3, <1>4 DEF IInv, TypeOK
  <2> QED
    BY <1>2, <1>4, <2>1, Zenon DEF IInv, TypeOK, Counters, pushVars
<1>7. Pushing' /\ Continues' /\ PushesStayWhole'
  BY <1>2, <1>3, PushKept
<1>8. Room'
  BY <1>2, Zenon DEF IInv, Room
<1>9. Following'
  <2>1. seenTo' \in Nat /\ seenTo' >= seenTo
        /\ (read.position <= seenTo => seenTo' >= read.position + n)
    BY <1>1, <1>2, <1>3 DEF Saw, Greater
  <2>2. ASSUME sequential PROVE Position' <= seenTo' /\ Position' <= StreamEnd'
    <3>1. Position <= seenTo /\ Position <= StreamEnd /\ read.position = Position
      BY <1>2, <2>2 DEF IInv, Following
    <3> DEFINE pageEnd == (read.position \div PageSize + 1) * PageSize
    <3>2. n <= Lesser(pageEnd, StreamEnd) - read.position
      BY <1>2 DEF Offered
    <3>3. pageEnd \in Int
      <4>1. read.position \div PageSize \in Nat /\ PageSize \in Nat
        BY <1>3, SizesAssumption, WholePages
      <4> DEFINE page == read.position \div PageSize
      <4> HIDE DEF page
      <4>2. (page + 1) * PageSize \in Int
        BY <4>1, SMTT(30) DEF page
      <4> QED
        BY <4>2 DEF page
    <3> HIDE DEF pageEnd
    <3>4. read.position + n <= StreamEnd
      BY <1>1, <1>3, <3>2, <3>3 DEF Lesser
    <3>5. Position' <= read.position + n
      <4>1. Position + (current' - current) <= Position + n
        BY <1>1, <1>3, <1>4, NotFurther
      <4> QED
        BY <1>5, <3>1, <4>1
    <3>6. Position' \in Int /\ read.position + n \in Int
      BY <1>1, <1>3, <1>4, <1>5
    <3>7. read.position + n <= seenTo'
      BY <1>2, <1>3, <2>1, <3>1
    <3> QED
      BY <1>3, <2>1, <3>4, <3>5, <3>6, <3>7
  <2> QED
    BY <1>2, <2>1, <2>2 DEF Following
<1>10. Waiting'
  BY <1>2 DEF Waiting
<1> QED
  BY <1>6, <1>7, <1>8, <1>9, <1>10 DEF IInv

\* Whole pages go, and the offsets with them: the position in the stream stays
\* as long as it is not popped itself.
LEMMA PopInvariant ==
  ASSUME IInv, NEW n \in 1..MaxBytes, Pop(n)
  PROVE  IInv'
<1> DEFINE newStart == start + n
           whole == newStart \div PageSize
           gone == whole * PageSize
<1>1. /\ PageSize \in Nat \ {0} /\ n \in Nat /\ dropped \in Nat /\ pages \in Nat
      /\ start \in Nat /\ current \in Nat /\ start <= current /\ tail \in 0..PageSize - 1
      /\ pages = 0 => tail = 0
  BY SizesAssumption DEF IInv, TypeOK, Counters
<1>2. newStart \in Nat /\ whole \in Nat /\ gone \in Nat /\ gone <= newStart
      /\ newStart - gone \in 0..PageSize - 1
  <2>1. newStart \in Nat
    BY <1>1
  <2> HIDE DEF newStart
  <2> QED
    BY <1>1, <2>1, WholePages
<1>3. /\ n <= StorageSize
      /\ sequential' = (sequential /\ newStart <= current)
      /\ dropped' = dropped + whole /\ pages' = pages - whole
      /\ start' = newStart - gone /\ current' = Greater(newStart, current) - gone
      /\ UNCHANGED <<tail, pushVars, readVars>>
  BY Zenon DEF Pop
<1>4. newStart = start + n
  OBVIOUS
<1>5. whole \in Int /\ PageSize \in Nat
  BY <1>1, <1>2
<1>6. /\ PageSize * (pages - whole) = PageSize * pages - gone
      /\ PageSize * (dropped + whole) = PageSize * dropped + gone
      /\ PageSize * ((dropped + whole) + (pages - whole)) = PageSize * (dropped + pages)
  <2>1. gone = whole * PageSize
    OBVIOUS
  <2> HIDE DEF whole
  <2>2. PageSize * (dropped + whole) = PageSize * dropped + whole * PageSize
    BY <1>1, <1>5, MorePages
  <2>3. PageSize * ((dropped + whole) + (pages - whole)) = PageSize * (dropped + pages)
    BY <1>1, <1>5, MorePages
  <2>4. PageSize * (pages + (0 - whole)) = PageSize * pages + (0 - whole) * PageSize
    <3>1. 0 - whole \in Int
      BY <1>5
    <3> QED
      BY <1>1, <3>1, MorePages
  <2>5. pages + (0 - whole) = pages - whole
        /\ (0 - whole) * PageSize = 0 - whole * PageSize
    BY <1>1, <1>5, SMTT(30)
  <2>6. PageSize * pages + (0 - whole * PageSize) = PageSize * pages - whole * PageSize
    <3>1. PageSize * pages \in Int /\ whole * PageSize \in Int
      BY <1>1, <1>5, SMTT(30)
    <3> DEFINE x == PageSize * pages
               y == whole * PageSize
    <3> HIDE DEF x, y
    <3>2. x + (0 - y) = x - y
      BY <3>1 DEF x, y
    <3> QED
      BY <3>2, Zenon DEF x, y
  <2>7. PageSize * (pages - whole) = PageSize * pages - whole * PageSize
    BY <2>4, <2>5, <2>6, Zenon
  <2> QED
    BY <2>2, <2>3, <2>7, Zenon
<1>7. /\ KeptBytes \in Nat /\ DroppedBytes \in Nat
      /\ StorageSize = KeptBytes - start - tail
      /\ Position = DroppedBytes + current
      /\ UnreadSize = (KeptBytes - current - tail) % Width
  BY Stream DEF IInv
<1> HIDE DEF newStart, whole, gone
<1>8. /\ KeptBytes' = KeptBytes - gone /\ DroppedBytes' = DroppedBytes + gone
      /\ PageSize * (dropped' + pages') = PageSize * (dropped + pages)
  BY <1>3, <1>6, Zenon DEF KeptBytes, DroppedBytes
<1>9. newStart <= KeptBytes - tail
  BY <1>1, <1>3, <1>4, <1>7
<1>10. pages' \in Nat /\ (pages' = 0 => tail = 0)
  <2>1. ASSUME whole > pages PROVE FALSE
    <3>1. whole * PageSize >= PageSize * pages + PageSize
      BY <1>1, <1>2, <2>1, SMTT(30)
    <3>2. gone >= KeptBytes + PageSize
      BY <3>1, Zenon DEF gone, KeptBytes
    <3> QED
      BY <1>1, <1>2, <1>7, <1>9, <3>2
  <2>2. ASSUME whole = pages PROVE tail = 0
    <3>1. whole * PageSize = PageSize * pages
      BY <1>1, <1>2, <2>2, SMTT(30)
    <3>2. gone = KeptBytes
      BY <3>1, Zenon DEF gone, KeptBytes
    <3> QED
      BY <1>1, <1>2, <1>7, <1>9, <3>2
  <2> QED
    BY <1>1, <1>2, <1>3, <2>1, <2>2
<1>11. StreamEnd' = StreamEnd
  BY <1>3, <1>8, Zenon DEF StreamEnd
<1>12. current' \in Nat /\ start' \in 0..PageSize - 1 /\ start' \in 0..current'
  BY <1>1, <1>2, <1>3, <1>4 DEF Greater
<1>13. TypeOK' /\ Counters'
  <2>1. dropped' \in Nat /\ tail' = tail
    BY <1>1, <1>2, <1>3
  <2>2. Len(cells') = PageSize * (dropped' + pages')
    BY <1>3, <1>8, Zenon DEF IInv, TypeOK, pushVars
  <2>3. sequential' \in BOOLEAN /\ pushes' \in Nat
    BY <1>3 DEF IInv, Counters, pushVars
  <2>4. /\ tail' \in 0..PageSize - 1
        /\ writer' \in Pushers \cup {NoPusher}
        /\ push' \in [number : 0..pushes', done : Nat, left : Nat,
                      phase : {"none", "tail", "written", "pages"}]
        /\ writer' = NoPusher <=> push'.phase = "none"
        /\ budget' \in 0..MaxBytes
        /\ reader' \in {"idle", "waiting", "reading"}
        /\ read' \in [position : Nat, saved : Nat]
    BY <1>3, Zenon DEF IInv, TypeOK, pushVars, readVars
  <2> QED
    BY <1>10, <1>12, <2>1, <2>2, <2>3, <2>4, Zenon DEF TypeOK, Counters
<1>14. Pushing' /\ Continues' /\ PushesStayWhole'
  BY <1>3, <1>11, PushKept
<1>15. Room'
  <2>1. start' <= KeptBytes' - tail'
    BY <1>1, <1>2, <1>3, <1>7, <1>8, <1>9
  <2>2. tail' <= PageSize * (dropped' + pages')
    BY <1>3, <1>8, Zenon DEF IInv, Room
  <2> QED
    BY <2>1, <2>2, Zenon DEF Room, KeptBytes
<1>16. ASSUME sequential' PROVE current' = current - gone /\ sequential
  <2>1. sequential /\ newStart <= current
    BY <1>3, <1>16, Zenon
  <2>2. Greater(newStart, current) = current
    BY <1>1, <1>2, <2>1 DEF Greater
  <2> QED
    BY <1>3, <2>1, <2>2
<1>17. Following'
  <2>1. UNCHANGED <<seenTo, reader, read>>
    BY <1>3 DEF readVars
  <2>2. Position' = DroppedBytes' + current'
    BY DEF Position, DroppedBytes
  <2>3. ASSUME sequential' PROVE Position' = Position
    <3>1. current' = current - gone /\ DroppedBytes' = DroppedBytes + gone
      BY <1>8, <1>16, <2>3
    <3> QED
      BY <1>1, <1>2, <1>7, <2>2, <3>1
  <2> QED
    BY <1>11, <1>16, <2>1, <2>3 DEF IInv, Following
<1>18. Waiting'
  <2>1. UnreadSize' = (KeptBytes' - current' - tail') % Width
    BY Zenon DEF UnreadSize, KeptBytes
  <2>2. ASSUME sequential' PROVE UnreadSize' = UnreadSize
    <3>1. current' = current - gone /\ KeptBytes' = KeptBytes - gone /\ tail' = tail
      BY <1>3, <1>8, <1>16, <2>2
    <3>2. KeptBytes' - current' - tail' = KeptBytes - current - tail
      BY <1>1, <1>2, <1>7, <3>1
    <3> QED
      BY <1>7, <2>1, <3>2, Zenon
  <2> QED
    BY <1>3, <1>16, <2>2 DEF IInv, Waiting, readVars
<1> QED
  BY <1>13, <1>14, <1>15, <1>17, <1>18 DEF IInv

\* After a Seek nothing is said of the position but where the start is.
LEMMA SeekInvariant ==
  ASSUME IInv, NEW offset \in 0..MaxBytes, Seek(offset)
  PROVE  IInv'
<1>1. /\ ~sequential' /\ sequential' \in BOOLEAN /\ current' = start + offset
      /\ UNCHANGED <<dropped, pages, start, tail, pushVars, readVars>>
  BY DEF Seek
<1>2. start \in Nat /\ offset \in Nat
  BY SizesAssumption DEF IInv, TypeOK
<1>3. current' \in Nat /\ start' \in 0..current'
  BY <1>1, <1>2
<1>4. TypeOK' /\ Counters'
  BY <1>1, <1>3, Zenon DEF IInv, TypeOK, Counters, pushVars, readVars
<1>5. StreamEnd' = StreamEnd
  BY <1>1 DEF StreamEnd
<1>6. Pushing' /\ Continues' /\ PushesStayWhole'
  BY <1>1, <1>5, PushKept
<1>7. Room'
  BY <1>1, Zenon DEF IInv, Room
<1>8. Following' /\ Waiting'
  BY <1>1 DEF IInv, Following, Waiting, readVars
<1> QED
  BY <1>4, <1>6, <1>7, <1>8 DEF IInv

\* Every step of the buffer keeps the invariant, ...
LEMMA StepInvariant ==
  ASSUME IInv, [Next]_vars
  PROVE  IInv'
<1>1. CASE UNCHANGED vars
  <2>1. UNCHANGED <<dropped, pages, start, current, tail, sequential, pushVars, readVars>>
    BY <1>1 DEF vars
  <2>2. StreamEnd' = StreamEnd
    BY <2>1 DEF StreamEnd
  <2>3. TypeOK' /\ Counters'
    BY <2>1, Zenon DEF IInv, TypeOK, Counters, pushVars, readVars
  <2> QED
    BY <2>1, <2>2, <2>3, PushKept, ReaderKept DEF IInv
<1>2. CASE \E p \in Pushers, n \in Sizes : BeginPush(p, n)
  BY <1>2, BeginPushInvariant
<1>3. CASE WriteTail
  BY <1>3, WriteTailInvariant
<1>4. CASE CountTail
  BY <1>4, CountTailInvariant
<1>5. CASE AppendPages
  BY <1>5, AppendPagesInvariant
<1>6. CASE FailPush
  BY <1>6, FailPushInvariant
<1>7. CASE WaitForData \/ StopWaiting \/ BeginRead \/ AbortRead
  BY <1>7, WaitInvariant
<1>8. CASE \E n \in 0..PageSize : EndRead(n)
  BY <1>8, EndReadInvariant
<1>9. CASE \E n \in 1..MaxBytes : Pop(n)
  BY <1>9, PopInvariant
<1>10. CASE \E offset \in 0..MaxBytes : Seek(offset)
  BY <1>10, SeekInvariant
<1> QED
  BY <1>1, <1>2, <1>3, <1>4, <1>5, <1>6, <1>7, <1>8, <1>9, <1>10 DEF Next

\* ... so it holds whenever what a reader waits at is the buffer, or something else
\* that leaves it alone.
LEMMA AlwaysInvariant == ReadSpec => []IInv
<1>1. ReadInit => Init
  BY Zenon DEF ReadInit
<1>2. [ReadNext]_allVars => [Next]_vars
  BY Zenon DEF ReadNext, allVars
<1> QED
  BY <1>1, <1>2, InitInvariant, StepInvariant, PTL DEF ReadSpec

-----------------------------------------------------------------------------
(* Theorems *)

(***************************************************************************)
(* As long as nobody seeks or pops what is not read, Read() skips nothing  *)
(* the consumer has not seen and stays within the data, so it does not     *)
(* throw "Broken invariant", for any size of pages, chunks and data.       *)
(***************************************************************************)
THEOREM NothingSkippedAlways == ReadSpec => []NothingSkipped
<1>1. IInv => NothingSkipped
  <2> SUFFICES ASSUME IInv, sequential PROVE NothingSkipped
    BY DEF NothingSkipped
  <2>1. Position <= seenTo /\ Position <= StreamEnd
    BY DEF IInv, Following
  <2>2. ASSUME UnreadSize >= ChunkSize PROVE current \div PageSize < pages
    <3>1. /\ KeptBytes \in Nat /\ DroppedBytes \in Nat
          /\ Position = DroppedBytes + current
          /\ StreamEnd = DroppedBytes + KeptBytes - tail
          /\ UnreadSize = (KeptBytes - current - tail) % Width
      BY Stream DEF IInv
    <3>2. /\ current \in Nat /\ tail \in Nat /\ pages \in Nat
          /\ PageSize \in Nat \ {0} /\ ChunkSize \in Nat \ {0} /\ Width \in Nat \ {0}
      BY SizesAssumption, Offsets DEF IInv, TypeOK, Counters
    <3>3. current + tail <= KeptBytes
      BY <2>1, <3>1, <3>2
    <3>4. CASE current + tail = KeptBytes
      <4>1. KeptBytes - current - tail = 0
        BY <3>1, <3>2, <3>4
      <4>2. UnreadSize = 0 % Width
        BY <3>1, <4>1, Zenon
      <4>3. 0 % Width = 0
        BY <3>2, SMTT(30)
      <4> QED
        BY <2>2, <3>2, <4>2, <4>3
    <3>5. CASE current + tail # KeptBytes
      <4>1. current < KeptBytes
        BY <3>1, <3>2, <3>3, <3>5
      <4>2. current < PageSize * pages
        BY <4>1, Zenon DEF KeptBytes
      <4> QED
        BY <3>2, <4>2, WithinPages
    <3> QED
      BY <3>4, <3>5
  <2> QED
    BY <2>1, <2>2 DEF NothingSkipped, NoBrokenInvariant
<1> QED
  BY <1>1, AlwaysInvariant, PTL

(***************************************************************************)
(* However many threads push, whatever is popped meanwhile and wherever a  *)
(* Push fails, the stored stream is the pushes one after another.          *)
(***************************************************************************)
THEOREM PushesStayWholeAlways == ReadSpec => []PushesStayWhole
<1>1. IInv => PushesStayWhole
  BY DEF IInv
<1> QED
  BY <1>1, AlwaysInvariant, PTL

(***************************************************************************)
(* The types, and that a reader of a buffer in which nobody seeks sleeps   *)
(* only while there is no chunk: each Push that adds to the data wakes it. *)
(***************************************************************************)
THEOREM WaitsOnlyWithoutDataAlways == ReadSpec => []WaitsOnlyWithoutData
<1>1. IInv => WaitsOnlyWithoutData
  BY DEF IInv, Waiting, WaitsOnlyWithoutData
<1> QED
  BY <1>1, AlwaysInvariant, PTL

-----------------------------------------------------------------------------
(* The pipes *)

\* The writes there may be; types, of what the refinement needs.
AllWrites == (1..MaxWrites) \X PipeSizes

Outside == {"idle", "queued", "woken"}
Inside == {"starting", "sending", "told", "sent", "failed"}

PipeTypeOK ==
    /\ pHolder \in Clients \cup {Nobody}
    /\ pPc \in [Clients -> Outside \cup Inside]
    /\ pWrite \in [Clients -> AllWrites \cup {Nobody}]
    /\ \A c \in Clients : pPc[c] # "idle" => pWrite[c] \in AllWrites
    /\ pData \in Seq(Nat \X Nat) /\ pBuffer \in Seq(Nat \X Nat) /\ pGot \in Seq(Nat \X Nat)
    /\ pWrites \in Nat

\* Who is in the inner Write has the pipe.
Holding == \A c \in Clients : pPc[c] \in Inside <=> pHolder = c

\* The pipe refers to bytes only while their writer is there.
Referring == pData # <<>> => \E c \in Clients : pPc[c] \in {"sending", "told"}

PipeInv == PipeTypeOK /\ Holding /\ Referring

\* One step of the rendezvous, or none.
Promised == [Pipe!Channel!Next]_(Pipe!Channel!vars)

\* The write of the only client that sends is the one underway, before a step ...
LEMMA UnderwayIs ==
  ASSUME PipeInv, NEW c \in Clients, Pipe!Sending(c)
  PROVE  Pipe!Underway = pWrite[c]
<1>1. \A d \in Clients : Pipe!Sending(d) => d = c
  BY DEF PipeInv, Holding, Inside, Pipe!Sending
<1> QED
  BY <1>1 DEF Pipe!Underway

\* ... and after it; ...
LEMMA UnderwayBecomes ==
  ASSUME PipeInv', NEW c \in Clients, pPc'[c] \in {"sending", "told", "sent"}
  PROVE  Pipe!Underway' = pWrite'[c]
<1>1. \A d \in Clients : Pipe!Sending(d)' => d = c
  BY DEF PipeInv, Holding, Inside, Pipe!Sending
<1>2. Pipe!Sending(c)'
  BY DEF Pipe!Sending
<1> QED
  BY <1>1, <1>2 DEF Pipe!Underway

\* ... if nobody sends there is none.
LEMMA NoneUnderway ==
  /\ (\A c \in Clients : pPc[c] \notin {"sending", "told", "sent"}) =>
        Pipe!Underway = Nobody
  /\ (\A c \in Clients : pPc'[c] \notin {"sending", "told", "sent"}) =>
        Pipe!Underway' = Nobody
  BY DEF Pipe!Underway, Pipe!Sending

\* It is the same if the same clients send.
LEMMA SameUnderway ==
  ASSUME PipeInv, PipeInv',
         \A c \in Clients :
            /\ pPc'[c] \in {"sending", "told", "sent"} <=> pPc[c] \in {"sending", "told", "sent"}
            /\ pPc[c] \in {"sending", "told", "sent"} => pWrite'[c] = pWrite[c]
  PROVE  Pipe!Underway' = Pipe!Underway
<1>1. CASE \E c \in Clients : pPc[c] \in {"sending", "told", "sent"}
  <2>1. PICK c \in Clients : pPc[c] \in {"sending", "told", "sent"}
    BY <1>1
  <2>2. Pipe!Underway = pWrite[c]
    BY <2>1, UnderwayIs DEF Pipe!Sending
  <2>3. Pipe!Underway' = pWrite'[c]
    BY <2>1, UnderwayBecomes
  <2> QED
    BY <2>1, <2>2, <2>3
<1>2. CASE \A c \in Clients : pPc[c] \notin {"sending", "told", "sent"}
  BY <1>2, NoneUnderway
<1> QED
  BY <1>1, <1>2

\* A step that the other side of the rendezvous does not see.
LEMMA Unseen ==
  ASSUME Pipe!Underway' = Pipe!Underway,
         UNCHANGED <<pData, pReturned>>, (pGot \o pBuffer)' = pGot \o pBuffer
  PROVE  Promised
  BY DEF Promised, Pipe!Channel!vars

\* Nobody is a client.
LEMMA NobodyIsNoClient ==
  /\ Nobody \notin Clients /\ MaxWrites \in Nat
  /\ PipeSizes \subseteq Nat \ {0} /\ ReadSizes \subseteq Nat \ {0}
  /\ BufferSize \in Nat \ {0}
  BY OtherAssumptions DEF Pipe!PipeAssumption

\* At the start there is no write and nothing is referred to.
LEMMA PipeInit == Pipe!Init => PipeInv /\ Pipe!Channel!Init
<1> SUFFICES ASSUME Pipe!Init PROVE PipeInv /\ Pipe!Channel!Init
  OBVIOUS
<1>1. PipeInv
  BY NobodyIsNoClient, EmptySeq DEF Pipe!Init, PipeInv, PipeTypeOK, Holding, Referring,
     Outside, Inside
<1>2. Pipe!Underway = Nobody
  BY NoneUnderway DEF Pipe!Init
<1>3. pGot \o pBuffer = <<>>
  BY EmptySeq, ConcatEmptySeq DEF Pipe!Init
<1> QED
  BY <1>1, <1>2, <1>3 DEF Pipe!Init, Pipe!Channel!Init

\* A client enters Write, or looks again for the pipe.
LEMMA EnterPromised ==
  ASSUME PipeInv, NEW c \in Clients,
         (\E size \in PipeSizes : Pipe!Enter(c, size)) \/ Pipe!Retry(c)
  PROVE  PipeInv' /\ Promised
<1>1. /\ pPc[c] \in {"idle", "woken"} /\ Pipe!TakeOrWait(c)
      /\ UNCHANGED <<pData, pBuffer, pGot, pReturned>>
  BY DEF Pipe!Enter, Pipe!Retry, Pipe!TakeOrWait
<1>2. /\ pPc' = [pPc EXCEPT ![c] = pPc'[c]]
      /\ IF pHolder = Nobody THEN pHolder' = c /\ pPc'[c] = "starting"
                             ELSE pHolder' = pHolder /\ pPc'[c] = "queued"
  BY <1>1 DEF Pipe!TakeOrWait, Pipe!Goto, PipeInv, PipeTypeOK
<1>3. /\ pWrite' = [pWrite EXCEPT ![c] = pWrite'[c]] /\ pWrite'[c] \in AllWrites
      /\ pWrites' \in Nat
  <2>1. CASE Pipe!Retry(c)
    BY <1>1, <2>1 DEF Pipe!Retry, PipeInv, PipeTypeOK
  <2>2. CASE \E size \in PipeSizes : Pipe!Enter(c, size)
    <3>1. PICK size \in PipeSizes : Pipe!Enter(c, size)
      BY <2>2
    <3>2. pWrites + 1 \in 1..MaxWrites /\ pWrites + 1 \in Nat
      BY <3>1, NobodyIsNoClient DEF Pipe!Enter, PipeInv, PipeTypeOK
    <3> QED
      BY <3>1, <3>2 DEF Pipe!Enter, PipeInv, PipeTypeOK, AllWrites
  <2> QED
    BY <2>1, <2>2
<1>4. PipeTypeOK'
  BY <1>1, <1>2, <1>3 DEF PipeInv, PipeTypeOK, Outside, Inside
<1>5. Holding'
  BY <1>1, <1>2, NobodyIsNoClient DEF PipeInv, PipeTypeOK, Holding, Outside, Inside
<1>6. Referring'
  BY <1>1, <1>2 DEF PipeInv, PipeTypeOK, Referring
<1>7. Pipe!Underway' = Pipe!Underway
  BY <1>1, <1>2, <1>3, <1>4, <1>5, <1>6, SameUnderway DEF PipeInv, PipeTypeOK
<1> QED
  BY <1>1, <1>4, <1>5, <1>6, <1>7, Unseen DEF PipeInv

\* Steps of a client that moves on without bytes.
LEMMA MovePromised ==
  ASSUME PipeInv, NEW c \in Clients,
         \/ Pipe!WakeUp(c) \/ Pipe!GiveUp(c) \/ Pipe!NotStarted(c) \/ Pipe!LookAgain(c)
  PROVE  PipeInv' /\ Promised
<1>1. /\ UNCHANGED <<pHolder, pData, pBuffer, pWrite, pGot, pReturned, pWrites>>
      /\ pPc' = [pPc EXCEPT ![c] = pPc'[c]]
      /\ \/ pPc[c] \in {"queued", "woken"} /\ pPc'[c] \in {"idle", "woken"}
         \/ pPc[c] = "sending" /\ pPc'[c] = "told"
         \/ pPc[c] = "starting" /\ pPc'[c] = "failed"
         \/ pPc[c] = "told" /\ pPc'[c] = "sent" /\ pData = <<>>
         \/ pPc[c] = "told" /\ pPc'[c] = "sending"
  BY DEF Pipe!WakeUp, Pipe!GiveUp, Pipe!NotStarted, Pipe!LookAgain, Pipe!Goto, Pipe!pipeVars,
     Pipe!histVars, PipeInv, PipeTypeOK
<1>2. PipeTypeOK'
  BY <1>1 DEF PipeInv, PipeTypeOK, Outside, Inside
<1>3. Holding'
  BY <1>1 DEF PipeInv, PipeTypeOK, Holding, Outside, Inside
<1>4. Referring'
  BY <1>1 DEF PipeInv, PipeTypeOK, Referring
<1>5. Pipe!Underway' = Pipe!Underway
  BY <1>1, <1>2, <1>3, <1>4, SameUnderway DEF PipeInv, PipeTypeOK
<1> QED
  BY <1>1, <1>2, <1>3, <1>4, <1>5, Unseen DEF PipeInv

\* A write of the rendezvous starts: its bytes are there, none were.
LEMMA StartPromised ==
  ASSUME PipeInv, NEW c \in Clients, Pipe!StartWrite(c)
  PROVE  PipeInv' /\ Promised
<1>1. /\ pPc[c] = "starting" /\ pData' = Pipe!BytesOf(pWrite[c])
      /\ pPc' = [pPc EXCEPT ![c] = "sending"]
      /\ UNCHANGED <<pHolder, pBuffer, pWrite, pGot, pReturned, pWrites>>
  BY DEF Pipe!StartWrite, Pipe!Goto, Pipe!histVars
<1>2. pWrite[c] \in AllWrites /\ pWrite[c][2] \in Nat /\ pWrite[c][1] \in Nat
  <2>1. pWrite[c] \in AllWrites
    BY <1>1 DEF PipeInv, PipeTypeOK
  <2>2. pWrite[c][1] \in 1..MaxWrites /\ pWrite[c][2] \in PipeSizes
    BY <2>1 DEF AllWrites
  <2>3. pWrite[c][1] \in Nat
    BY <2>2
  <2>4. pWrite[c][2] \in Nat
    BY <2>2, NobodyIsNoClient
  <2> QED
    BY <2>1, <2>3, <2>4
<1>3. pData' \in Seq(Nat \X Nat)
  BY <1>1, <1>2, SMTT(30) DEF Pipe!BytesOf
<1>4. PipeTypeOK'
  BY <1>1, <1>3 DEF PipeInv, PipeTypeOK, Outside, Inside
<1>5. Holding'
  BY <1>1 DEF PipeInv, PipeTypeOK, Holding, Outside, Inside
<1>6. pPc'[c] = "sending" /\ pWrite'[c] = pWrite[c]
  BY <1>1 DEF PipeInv, PipeTypeOK
<1>7. Referring'
  BY <1>6 DEF Referring
<1>8. Pipe!Underway = Nobody
  <2>1. \A d \in Clients : pPc[d] \notin {"sending", "told", "sent"}
    BY <1>1 DEF PipeInv, PipeTypeOK, Holding, Inside
  <2> QED
    BY <2>1, NoneUnderway
<1>9. Pipe!Underway' = pWrite[c]
  BY <1>4, <1>5, <1>6, <1>7, UnderwayBecomes DEF PipeInv
<1>10. (pGot \o pBuffer)' = pGot \o pBuffer
  BY <1>1
<1>11. Pipe!Channel!Start(pWrite[c])
  BY <1>1, <1>8, <1>9, <1>10 DEF Pipe!Channel!Start
<1>12. Pipe!Channel!Next
  BY <1>2, <1>11 DEF Pipe!Channel!Next, AllWrites
<1> QED
  BY <1>4, <1>5, <1>7, <1>12 DEF PipeInv, Promised

\* The pipe is handed back: who had it is outside, who waits is woken.
LEMMA HandedBack ==
  ASSUME PipeInv, NEW c \in Clients, pPc[c] \in {"sent", "failed"}, Pipe!HandBack(c),
         UNCHANGED <<pData, pBuffer, pWrite, pGot, pWrites>>
  PROVE  /\ PipeInv' /\ pData = <<>>
         /\ Pipe!Underway' = Nobody
         /\ pPc[c] = "sent" => Pipe!Underway = pWrite[c]
         /\ pPc[c] = "failed" => Pipe!Underway = Nobody
<1>1. /\ pHolder' = Nobody
      /\ pPc' = [d \in Clients |-> IF d = c THEN "idle"
                                   ELSE IF pPc[d] = "queued" THEN "woken" ELSE pPc[d]]
  BY DEF Pipe!HandBack
<1>2. \A d \in Clients : d # c => pPc[d] \notin Inside
  BY DEF PipeInv, PipeTypeOK, Holding, Inside
<1>3. \A d \in Clients : pPc'[d] \notin Inside
  BY <1>1, <1>2 DEF PipeInv, PipeTypeOK, Inside
<1>4. pData = <<>>
  BY <1>2 DEF PipeInv, Referring, Inside
<1>5. PipeTypeOK'
  BY <1>1 DEF PipeInv, PipeTypeOK, Outside, Inside
<1>6. Holding'
  BY <1>1, <1>3, NobodyIsNoClient DEF Holding
<1>7. Referring'
  BY <1>4 DEF Referring
<1>8. Pipe!Underway' = Nobody
  BY <1>3, NoneUnderway DEF Inside
<1>9. ASSUME pPc[c] = "failed" PROVE Pipe!Underway = Nobody
  BY <1>2, <1>9, NoneUnderway DEF Inside
<1>10. ASSUME pPc[c] = "sent" PROVE Pipe!Underway = pWrite[c]
  BY <1>10, UnderwayIs DEF Pipe!Sending
<1> QED
  BY <1>4, <1>5, <1>6, <1>7, <1>8, <1>9, <1>10 DEF PipeInv

\* Write returns: the last byte has been taken. Or it throws.
LEMMA ReturnPromised ==
  ASSUME PipeInv, NEW c \in Clients, Pipe!Return(c) \/ Pipe!ReturnThrowing(c)
  PROVE  PipeInv' /\ Promised
<1>1. /\ pPc[c] \in {"sent", "failed"} /\ Pipe!HandBack(c)
      /\ UNCHANGED <<pData, pBuffer, pWrite, pGot, pWrites>>
  BY DEF Pipe!Return, Pipe!ReturnThrowing
<1>2. /\ PipeInv' /\ pData = <<>> /\ Pipe!Underway' = Nobody
      /\ pPc[c] = "sent" => Pipe!Underway = pWrite[c]
      /\ pPc[c] = "failed" => Pipe!Underway = Nobody
  BY <1>1, HandedBack
<1>3. pWrite[c] \in AllWrites
  BY <1>1 DEF PipeInv, PipeTypeOK
<1>4. (pGot \o pBuffer)' = pGot \o pBuffer
  BY <1>1
<1>5. CASE Pipe!Return(c)
  <2>1. Pipe!Channel!Return(pWrite[c])
    BY <1>1, <1>2, <1>4, <1>5 DEF Pipe!Return, Pipe!Channel!Return
  <2> QED
    BY <1>2, <1>3, <2>1 DEF Promised, Pipe!Channel!Next, AllWrites
<1>6. CASE Pipe!ReturnThrowing(c) /\ pPc[c] = "sent"
  <2>1. Pipe!Channel!Throw(pWrite[c])
    BY <1>1, <1>2, <1>4, <1>6 DEF Pipe!ReturnThrowing, Pipe!Channel!Throw
  <2> QED
    BY <1>2, <1>3, <2>1 DEF Promised, Pipe!Channel!Next, AllWrites
<1>7. CASE Pipe!ReturnThrowing(c) /\ pPc[c] = "failed"
  BY <1>1, <1>2, <1>4, <1>7, Unseen DEF Pipe!ReturnThrowing
<1> QED
  BY <1>1, <1>5, <1>6, <1>7

\* Write is given up: what is left of its bytes is not looked at any more.
LEMMA AbandonPromised ==
  ASSUME PipeInv, NEW c \in Clients, Pipe!Abandon(c)
  PROVE  PipeInv' /\ Promised
<1>1. /\ pPc[c] \in {"sending", "told"} /\ pData' = <<>>
      /\ pPc' = [pPc EXCEPT ![c] = "failed"]
      /\ UNCHANGED <<pHolder, pBuffer, pWrite, pGot, pReturned, pWrites>>
  BY DEF Pipe!Abandon, Pipe!Goto, Pipe!histVars
<1>2. PipeTypeOK'
  BY <1>1, EmptySeq DEF PipeInv, PipeTypeOK, Outside, Inside
<1>3. Holding'
  BY <1>1 DEF PipeInv, PipeTypeOK, Holding, Outside, Inside
<1>4. Referring'
  BY <1>1 DEF Referring
<1>5. Pipe!Underway = pWrite[c] /\ pWrite[c] \in AllWrites
  BY <1>1, UnderwayIs DEF Pipe!Sending, PipeInv, PipeTypeOK
<1>6. Pipe!Underway' = Nobody
  <2>1. \A d \in Clients : pPc'[d] \notin {"sending", "told", "sent"}
    BY <1>1 DEF PipeInv, PipeTypeOK, Holding, Inside
  <2> QED
    BY <2>1, NoneUnderway
<1>7. (pGot \o pBuffer)' = pGot \o pBuffer
  BY <1>1
<1>8. Pipe!Channel!Throw(pWrite[c])
  BY <1>1, <1>5, <1>6, <1>7 DEF Pipe!Channel!Throw
<1> QED
  BY <1>2, <1>3, <1>4, <1>5, <1>8 DEF PipeInv, Promised, Pipe!Channel!Next, AllWrites

\* What is given of some bytes, and what is kept of them, are those bytes.
LEMMA Given ==
  ASSUME NEW S, NEW bytes \in Seq(S), NEW n \in Nat, pGot \in Seq(S), Pipe!Give(bytes, n)
  PROVE  /\ pGot' \in Seq(S) /\ pBuffer' \in Seq(S)
         /\ pGot' \o pBuffer' = pGot \o bytes
<1> DEFINE size == Pipe!Least(n, Len(bytes))
           first == SubSeq(bytes, 1, size)
           rest == SubSeq(bytes, size + 1, Len(bytes))
<1>1. size \in 0..Len(bytes) /\ Len(bytes) \in Nat
  BY LenProperties DEF Pipe!Least
<1>2. pGot' = pGot \o first /\ pBuffer' = rest
  BY DEF Pipe!Give
<1> HIDE DEF size
<1>3. \A i \in 1..Len(bytes) : bytes[i] \in S
  BY ElementOfSeq
<1>4. first \in Seq(S) /\ Len(first) = size /\ \A i \in 1..size : first[i] = bytes[i]
  BY <1>1, <1>3, SubSeqProperties
<1>5. rest \in Seq(S) /\ Len(rest) = Len(bytes) - size
      /\ \A i \in 1..(Len(bytes) - size) : rest[i] = bytes[size + i]
  BY <1>1, <1>3, SubSeqProperties
<1> HIDE DEF first, rest
<1>6. first \o rest = bytes
  <2>1. /\ first \o rest \in Seq(S) /\ Len(first \o rest) = Len(first) + Len(rest)
        /\ \A i \in 1..Len(first) + Len(rest) :
              (first \o rest)[i] = IF i <= Len(first) THEN first[i] ELSE rest[i - Len(first)]
    BY <1>4, <1>5, ConcatProperties
  <2>2. Len(first) + Len(rest) = Len(bytes)
    BY <1>1, <1>4, <1>5
  <2>3. ASSUME NEW i \in 1..Len(bytes) PROVE (first \o rest)[i] = bytes[i]
    <3>1. CASE i <= size
      BY <1>1, <1>4, <2>1, <2>2, <3>1
    <3>2. CASE ~(i <= size)
      <4>1. i - size \in 1..(Len(bytes) - size) /\ size + (i - size) = i /\ ~(i <= size)
        BY <1>1, <3>2
      <4>2. rest[i - size] = bytes[i]
        BY <1>5, <4>1
      <4> QED
        BY <1>4, <2>1, <2>2, <4>1, <4>2
    <3> QED
      BY <3>1, <3>2
  <2> QED
    BY <2>1, <2>2, <2>3, SeqEqual
<1>7. (pGot \o first) \o rest = pGot \o (first \o rest)
  <2>1. first \in Seq(S) /\ rest \in Seq(S)
    BY <1>4, <1>5
  <2> QED
    BY <2>1, ConcatAssociative
<1>8. pGot \o first \in Seq(S)
  BY <1>4, ConcatProperties
<1> QED
  BY <1>2, <1>5, <1>6, <1>7, <1>8

\* The reader is given bytes from the buffer, which were delivered before.
LEMMA ReadBufferedPromised ==
  ASSUME PipeInv, NEW n \in ReadSizes, Pipe!ReadBuffered(n)
  PROVE  PipeInv' /\ Promised
<1>1. /\ Pipe!Give(pBuffer, n)
      /\ UNCHANGED <<pHolder, pData, pPc, pWrite, pReturned, pWrites>>
  BY DEF Pipe!ReadBuffered
<1>2. n \in Nat /\ pBuffer \in Seq(Nat \X Nat) /\ pGot \in Seq(Nat \X Nat)
  BY NobodyIsNoClient DEF PipeInv, PipeTypeOK
<1>3. /\ pGot' \in Seq(Nat \X Nat) /\ pBuffer' \in Seq(Nat \X Nat)
      /\ pGot' \o pBuffer' = pGot \o pBuffer
  BY <1>1, <1>2, Given
<1>4. PipeInv'
  BY <1>1, <1>3, Zenon DEF PipeInv, PipeTypeOK, Holding, Referring
<1>5. Pipe!Underway' = Pipe!Underway
  BY <1>1, <1>4, SameUnderway
<1> QED
  BY <1>1, <1>3, <1>4, <1>5, Unseen

\* The buffer takes bytes of the writer, which is told when none are left.
LEMMA ReadThroughPromised ==
  ASSUME PipeInv, NEW n \in ReadSizes, Pipe!ReadThrough(n)
  PROVE  PipeInv' /\ Promised
<1> DEFINE size == Pipe!Least(BufferSize, Len(pData))
           taken == SubSeq(pData, 1, size)
<1>1. /\ pBuffer = <<>> /\ pData # <<>>
      /\ Pipe!Give(taken, n) /\ pData' = SubSeq(pData, size + 1, Len(pData))
      /\ UNCHANGED <<pHolder, pWrite, pReturned, pWrites>>
  BY DEF Pipe!ReadThrough
<1>2. /\ n \in Nat /\ pGot \in Seq(Nat \X Nat) /\ pData \in Seq(Nat \X Nat)
      /\ Len(pData) \in Nat /\ Len(pData) # 0 /\ BufferSize \in Nat \ {0}
  <2>1. n \in Nat /\ pGot \in Seq(Nat \X Nat) /\ pData \in Seq(Nat \X Nat)
        /\ BufferSize \in Nat \ {0}
    BY NobodyIsNoClient DEF PipeInv, PipeTypeOK
  <2> QED
    BY <1>1, <2>1, LenProperties, EmptySeq
<1>3. size \in 1..Len(pData)
  BY <1>2 DEF Pipe!Least
<1>4. /\ pPc' = IF pData' # <<>> THEN pPc
                ELSE [c \in Clients |-> IF pPc[c] = "sending" THEN "told" ELSE pPc[c]]
  BY DEF Pipe!ReadThrough
<1> HIDE DEF size
<1>5. taken \in Seq(Nat \X Nat) /\ pData' \in Seq(Nat \X Nat)
  <2>1. \A i \in 1..Len(pData) : pData[i] \in Nat \X Nat
    BY <1>2, ElementOfSeq
  <2>2. taken \in Seq(Nat \X Nat)
    BY <1>3, <2>1, SubSeqProperties
  <2>3. SubSeq(pData, size + 1, Len(pData)) \in Seq(Nat \X Nat)
    BY <1>2, <1>3, <2>1, SubSeqProperties
  <2> QED
    BY <1>1, <2>2, <2>3
<1>6. /\ pGot' \in Seq(Nat \X Nat) /\ pBuffer' \in Seq(Nat \X Nat)
      /\ pGot' \o pBuffer' = pGot \o taken
  BY <1>1, <1>2, <1>5, Given
<1> HIDE DEF taken
<1>7. /\ pPc' \in [Clients -> Outside \cup Inside]
      /\ \A c \in Clients :
            /\ pPc'[c] = pPc[c] \/ (pPc[c] = "sending" /\ pPc'[c] = "told")
            /\ pPc'[c] # "idle" => pPc[c] # "idle"
  <2>1. pPc \in [Clients -> Outside \cup Inside]
    BY DEF PipeInv, PipeTypeOK
  <2>2. CASE pData' # <<>>
    <3>1. pPc' = pPc
      BY <1>4, <2>2
    <3> QED
      BY <2>1, <3>1
  <2>3. CASE pData' = <<>>
    <3>1. pPc' = [c \in Clients |-> IF pPc[c] = "sending" THEN "told" ELSE pPc[c]]
      BY <1>4, <2>3
    <3> QED
      BY <2>1, <3>1 DEF Outside, Inside
  <2> QED
    BY <2>2, <2>3
<1>8. PipeTypeOK'
  BY <1>1, <1>5, <1>6, <1>7 DEF PipeInv, PipeTypeOK
<1>9. Holding'
  BY <1>1, <1>7 DEF PipeInv, Holding, Inside
<1>10. Referring'
  BY <1>1, <1>4 DEF PipeInv, Referring
<1>11. Pipe!Underway' = Pipe!Underway
  BY <1>1, <1>7, <1>8, <1>9, <1>10, SameUnderway DEF PipeInv
<1>12. (pGot \o pBuffer)' = (pGot \o pBuffer) \o taken
  BY <1>1, <1>2, <1>6, ConcatEmptySeq
<1>13. Pipe!Channel!Deliver(size)
  BY <1>1, <1>11, <1>12 DEF Pipe!Channel!Deliver, taken
<1>14. Pipe!Channel!Next
  BY <1>3, <1>13 DEF Pipe!Channel!Next
<1> QED
  BY <1>8, <1>9, <1>10, <1>14 DEF PipeInv, Promised

\* Every step of the pipes keeps the invariant and is one of the rendezvous, or none.
LEMMA PipeStep ==
  ASSUME PipeInv, [Pipe!Next]_(Pipe!vars)
  PROVE  PipeInv' /\ Promised
<1>1. ASSUME UNCHANGED <<pHolder, pData, pBuffer, pPc, pWrite, pGot, pReturned, pWrites>>
      PROVE  PipeInv' /\ Promised
  <2>1. PipeInv'
    BY <1>1, Zenon DEF PipeInv, PipeTypeOK, Holding, Referring
  <2>2. Pipe!Underway' = Pipe!Underway
    BY <1>1, <2>1, SameUnderway
  <2>3. (pGot \o pBuffer)' = pGot \o pBuffer
    BY <1>1
  <2> QED
    BY <1>1, <2>1, <2>2, <2>3, Unseen
<1>2. CASE UNCHANGED Pipe!vars
  BY <1>1, <1>2 DEF Pipe!vars, Pipe!pipeVars, Pipe!histVars
<1>3. ASSUME NEW c \in Clients,
             \/ \E size \in PipeSizes : Pipe!Enter(c, size)
             \/ Pipe!WakeUp(c) \/ Pipe!GiveUp(c) \/ Pipe!NotStarted(c) \/ Pipe!Abandon(c)
             \/ Pipe!WriterStep(c)
      PROVE  PipeInv' /\ Promised
  BY <1>3, EnterPromised, MovePromised, StartPromised, ReturnPromised, AbandonPromised
     DEF Pipe!WriterStep
<1>4. CASE Pipe!Read
  <2>1. CASE Pipe!WaitForData
    BY <1>1, <2>1 DEF Pipe!WaitForData, Pipe!pipeVars, Pipe!histVars
  <2>2. CASE \E n \in ReadSizes : Pipe!ReadBuffered(n) \/ Pipe!ReadThrough(n)
    BY <2>2, ReadBufferedPromised, ReadThroughPromised
  <2> QED
    BY <1>4, <2>1, <2>2 DEF Pipe!Read
<1>5. CASE Pipe!WakeUpReader \/ Pipe!CancelRead
  BY <1>1, <1>5 DEF Pipe!WakeUpReader, Pipe!CancelRead, Pipe!pipeVars, Pipe!histVars
<1> QED
  BY <1>2, <1>3, <1>4, <1>5 DEF Pipe!Next

(***************************************************************************)
(* The pipes implement the rendezvous, for any number of clients and every *)
(* size of what they write, of what is read and of the buffer: the writes  *)
(* do not mix, a Write returns only when all its bytes were taken, and     *)
(* none are taken from one that has ended.                                 *)
(***************************************************************************)
THEOREM PipesImplementRendezvous == ReadSpec => PipesAreARendezvous
<1>1. ReadInit => Pipe!Init
  BY Zenon DEF ReadInit
<1>2. [ReadNext]_allVars => [Pipe!Next]_(Pipe!vars)
  <2>1. UNCHANGED pipeVars => UNCHANGED Pipe!vars
    BY DEF pipeVars, Pipe!vars, Pipe!pipeVars, Pipe!histVars
  <2> QED
    BY <2>1, Zenon DEF ReadNext, allVars
<1>3. Pipe!Init => PipeInv /\ Pipe!Channel!Init
  BY PipeInit
<1>4. PipeInv /\ [Pipe!Next]_(Pipe!vars) => PipeInv' /\ Promised
  BY PipeStep
<1> QED
  BY <1>1, <1>2, <1>3, <1>4, PTL
     DEF ReadSpec, PipesAreARendezvous, Pipe!ImplementsRendezvous, Pipe!Channel!Spec, Promised
=============================================================================
