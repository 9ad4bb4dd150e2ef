-------------------------- MODULE RingBuffers_proofs --------------------------
(***************************************************************************)
(* Proofs about RingBuffers, for every size of the storage, of packets and *)
(* of data, and any number of writers.                                     *)
(*                                                                         *)
(* PacketBuffer: there are places for the packets, one behind the other    *)
(* from the read offset to the end of the data and each in one piece, but  *)
(* for the padding before one of them (Laid), and their bytes are there    *)
(* (Held). A writer works outside of them, within the region that was free *)
(* when it left the mutex, and a reader within the first of them (Writing, *)
(* Reading). After a Clear() that threw there may be bytes of packets that *)
(* are gone: the others still take no more than the data (Measured).       *)
(*                                                                         *)
(* DataBuffer: each side works within the region that it was given         *)
(* (PuttingBytes, TakingBytes): a Push leaves the reader's region as large *)
(* as it was, a Pop the writer's, whichever of them turns the flag.        *)
(***************************************************************************)
EXTENDS RingBuffers, SequenceTheorems, TLAPS

\* Offsets in order, as RingTypeOK has them.
Ordered ==
    /\ writeOffset \in Cells(Size) /\ readOffset \in Cells(Size) /\ contiguous \in BOOLEAN
    /\ IF contiguous THEN readOffset <= writeOffset ELSE writeOffset <= readOffset

\* A place beyond the end of the storage is the one as far from its beginning.
Place(u) == IF u < Size THEN u ELSE u - Size

\* The next packet after place u begins there, or behind the padding.
Skip(pad, u) == IF pad > 0 /\ u = Size - pad THEN Size ELSE u

\* The packets lie one after the other from the read offset to the end of the
\* data, each in one piece; pos[i] is where the i-th of them begins.
Laid(pos) ==
    /\ pos \in [1..Len(packets) + 1 -> Nat]
    /\ pos[1] = Skip(padding, readOffset)
    /\ pos[Len(packets) + 1] = readOffset + DataSize
    /\ \A i \in 1..Len(packets) :
        /\ pos[i + 1] = Skip(padding, pos[i] + packets[i].size)
        /\ pos[i] >= Size \/ pos[i] + packets[i].size <= Size - padding
    /\ \A i, j \in 1..Len(packets) + 1 : i <= j => pos[i] <= pos[j]

\* Their bytes are in these places.
Held(pos) ==
    \A i \in 1..Len(packets), u \in Nat :
        pos[i] <= u /\ u < pos[i] + packets[i].size => cells[Place(u)] = packets[i].id

\* As long as no Clear() throws, there are such places.
Placed == ~clearThrew => \E pos : Laid(pos) /\ Held(pos)

\* Even after a Clear() that threw, the packets and the padding are no more than
\* the data: low[i] are the bytes of the packets before the i-th.
Measured(low) ==
    /\ low \in [1..Len(packets) + 1 -> Nat]
    /\ \A i, j \in 1..Len(packets) + 1 : i <= j => low[j] - low[i] >= j - i
    /\ \A i \in 1..Len(packets) : low[i + 1] >= low[i] + packets[i].size
    /\ low[Len(packets) + 1] + padding <= DataSize

Filled == \E low : Measured(low)

\* A writer is at work without the mutex: its packet fits into its region, and its
\* bytes are there once they are copied.
Busy == writing \in {"copying", "copied"}

Writing ==
    /\ Busy => offer[writer] \in 1..WriterSize /\ stored < MaxPackets
    /\ writing = "copied" =>
        \A i \in 1..offer[writer] : cells[writeOffset + i - 1] = stored + 1

\* The reader has its first packet in its region.
Reading ==
    reader = "processing" =>
        /\ Head(packets).size \in 1..ReaderSize
        /\ ~clearThrew => Skip(padding, readOffset) = readOffset

\* Padding is followed by a packet.
Padded == ~clearThrew /\ padding > 0 /\ ~Busy => writeOffset > 0

\* Waiting for room in an empty buffer needs a packet of more than half of it.
Waits ==
    /\ reader = "waiting" => Empty /\ ~Ended
    /\ writing = "waiting" /\ ~clearThrew /\ (\A n \in Sizes : 2 * n <= Size + 1) => ~Empty

IInv ==
    /\ TypeOK
    /\ cells \in [Cells(Size) -> Nat]
    /\ Writing /\ Reading
    /\ Filled /\ Placed /\ Padded
    /\ Waits

-----------------------------------------------------------------------------
(* The ring *)

\* The sizes of what is held and of both regions.
LEMMA RegionSizes ==
  ASSUME Ordered
  PROVE  /\ DataSize \in 0..Size
         /\ WriterSize \in 0..Size /\ DataSize + WriterSize <= Size
         /\ ReaderSize \in 0..DataSize
  BY SizeAssumption DEF Ordered, Cells, DataSize, WriterSize, ReaderSize

\* A Push adds what it is told to, and does not make the reader's region smaller.
LEMMA Pushed ==
  ASSUME Ordered, NEW n \in 1..WriterSize, PushBytes(n)
  PROVE  /\ Ordered'
         /\ DataSize' = DataSize + n
         /\ ReaderSize \in Int /\ ReaderSize' \in Int /\ ReaderSize' >= ReaderSize
<1> USE SizeAssumption DEF Cells, DataSize, ReaderSize, WriterSize, Wrapped
<1>1. CASE contiguous
  <2>1. /\ n \in 1..(Size - writeOffset) /\ readOffset <= writeOffset
        /\ writeOffset \in 0..Size - 1 /\ readOffset \in 0..Size - 1
    BY <1>1 DEF Ordered
  <2>2. CASE writeOffset + n = Size
    <3>1. /\ writeOffset' = 0 /\ ~contiguous' /\ contiguous' \in BOOLEAN
          /\ readOffset' = readOffset
      BY <1>1, <2>2 DEF PushBytes, Ordered
    <3> QED
      BY <1>1, <2>1, <2>2, <3>1 DEF Ordered
  <2>3. CASE writeOffset + n # Size
    <3>1. writeOffset' = writeOffset + n /\ contiguous' = TRUE /\ readOffset' = readOffset
      BY <1>1, <2>3 DEF PushBytes, Ordered
    <3> QED
      BY <1>1, <2>1, <2>3, <3>1 DEF Ordered
  <2> QED
    BY <2>2, <2>3
<1>2. CASE ~contiguous
  <2>1. /\ n \in 1..(readOffset - writeOffset)
        /\ writeOffset \in 0..Size - 1 /\ readOffset \in 0..Size - 1
    BY <1>2 DEF Ordered
  <2>2. writeOffset + n # Size
    BY <2>1
  <2>3. /\ writeOffset' = writeOffset + n /\ ~contiguous' /\ contiguous' \in BOOLEAN
          /\ readOffset' = readOffset
    BY <1>2, <2>2 DEF PushBytes, Ordered
  <2> QED
    BY <1>2, <2>1, <2>3 DEF Ordered
<1> QED
  BY <1>1, <1>2

\* A Pop takes away what it is told to, and does not make the writer's smaller.
LEMMA Popped ==
  ASSUME Ordered, NEW n \in 1..ReaderSize, PopBytes(n)
  PROVE  /\ Ordered'
         /\ DataSize' = DataSize - n
         /\ WriterSize \in Int /\ WriterSize' \in Int /\ WriterSize' >= WriterSize
<1> USE SizeAssumption DEF Cells, DataSize, ReaderSize, WriterSize, Wrapped
<1>1. CASE contiguous
  <2>1. /\ n \in 1..(writeOffset - readOffset)
        /\ writeOffset \in 0..Size - 1 /\ readOffset \in 0..Size - 1
    BY <1>1 DEF Ordered
  <2>2. readOffset + n # Size
    BY <2>1
  <2>3. readOffset' = readOffset + n /\ contiguous' = TRUE /\ writeOffset' = writeOffset
    BY <1>1, <2>2 DEF PopBytes, Ordered
  <2> QED
    BY <1>1, <2>1, <2>3 DEF Ordered
<1>2. CASE ~contiguous
  <2>1. /\ n \in 1..(Size - readOffset) /\ writeOffset <= readOffset
        /\ writeOffset \in 0..Size - 1 /\ readOffset \in 0..Size - 1
    BY <1>2 DEF Ordered
  <2>2. CASE readOffset + n = Size
    <3>1. readOffset' = 0 /\ contiguous' = TRUE /\ writeOffset' = writeOffset
      BY <1>2, <2>2 DEF PopBytes, Ordered
    <3> QED
      BY <1>2, <2>1, <2>2, <3>1 DEF Ordered
  <2>3. CASE readOffset + n # Size
    <3>1. /\ readOffset' = readOffset + n /\ ~contiguous' /\ contiguous' \in BOOLEAN
          /\ writeOffset' = writeOffset
      BY <1>2, <2>3 DEF PopBytes, Ordered
    <3> QED
      BY <1>2, <2>1, <2>3, <3>1 DEF Ordered
  <2> QED
    BY <2>2, <2>3
<1> QED
  BY <1>1, <1>2

\* The types have the offsets in order.
LEMMA TypeOrdered == ASSUME TypeOK PROVE Ordered
  BY DEF TypeOK, RingTypeOK, Ordered

\* What the invariant says of a packet.
LEMMA PacketSize ==
  ASSUME TypeOK, NEW i \in 1..Len(packets)
  PROVE  /\ packets[i].size \in Sizes /\ packets[i].size \in 1..Size
         /\ packets[i].id \in Nat
<1>1. packets \in Seq([id : 1..MaxPackets, size : Sizes])
  BY DEF TypeOK
<1>2. packets[i] \in [id : 1..MaxPackets, size : Sizes]
  BY ONLY <1>1, i \in 1..Len(packets), ElementOfSeq
<1>3. packets[i].size \in Sizes /\ packets[i].id \in 1..MaxPackets
  BY ONLY <1>2
<1>4. packets[i].size \in 1..Size
  BY <1>3, SizesAssumption
<1>5. packets[i].id \in Nat
  BY <1>3, WritersAssumption
<1> QED
  BY <1>3, <1>4, <1>5

\* The invariant holds at the start.
LEMMA InitInv == Init => IInv
<1> SUFFICES ASSUME Init PROVE IInv
  OBVIOUS
<1> USE SizeAssumption, WritersAssumption DEF Init, RingInit, Cells
<1>1. packets = <<>> /\ Len(packets) = 0 /\ padding = 0 /\ readOffset = 0 /\ DataSize = 0
  BY DEF DataSize
<1>2. RingTypeOK
  <2>1. DOMAIN cells = Cells(Size)
    OBVIOUS
  <2>2. /\ contiguous /\ contiguous \in BOOLEAN
        /\ ~eod /\ eod \in BOOLEAN /\ ~failed /\ failed \in BOOLEAN
    OBVIOUS
  <2>3. writeOffset \in Cells(Size) /\ readOffset \in Cells(Size) /\ readOffset <= writeOffset
    OBVIOUS
  <2> QED
    BY ONLY <2>1, <2>2, <2>3 DEF RingTypeOK
<1>3. TypeOK
  BY <1>1, <1>2 DEF TypeOK
<1>4. Measured([i \in 1..1 |-> 0])
  BY <1>1 DEF Measured
<1>5. Laid([i \in 1..1 |-> 0]) /\ Held([i \in 1..1 |-> 0])
  BY <1>1 DEF Laid, Held, Skip
<1>6. cells \in [Cells(Size) -> Nat] /\ Writing /\ Reading /\ Padded /\ Waits
  BY <1>1 DEF Writing, Busy, Reading, Padded, Waits
<1> QED
  BY <1>3, <1>4, <1>5, <1>6 DEF IInv, Filled, Placed

-----------------------------------------------------------------------------
(* The steps *)

\* Neither the ring nor the queue changes.
LEMMA Same ==
  ASSUME UNCHANGED <<writeOffset, readOffset, contiguous, cells, packets, padding,
                     clearThrew>>
  PROVE  (Filled => Filled') /\ (Placed => Placed')
<1>1. ASSUME NEW low, Measured(low) PROVE Measured(low)'
  BY <1>1 DEF Measured, DataSize
<1>2. ASSUME NEW pos, Laid(pos), Held(pos) PROVE Laid(pos)' /\ Held(pos)'
  BY <1>2 DEF Laid, Held, Skip, DataSize
<1> QED
  BY <1>1, <1>2 DEF Filled, Placed

\* A packet lies within the data, which it begins if it is the first one.
LEMMA Within ==
  ASSUME TypeOK, NEW pos, Laid(pos), NEW i \in 1..Len(packets)
  PROVE  /\ pos[i] \in Nat /\ pos[i + 1] \in Nat
         /\ readOffset <= pos[i]
         /\ pos[i] + packets[i].size <= pos[i + 1]
         /\ pos[i + 1] <= readOffset + DataSize
<1>1. i \in 1..Len(packets) + 1 /\ i + 1 \in 1..Len(packets) + 1 /\ Len(packets) \in Nat
      /\ 1 \in 1..Len(packets) + 1 /\ Len(packets) + 1 \in 1..Len(packets) + 1
  BY DEF TypeOK
<1>2. padding \in Nat /\ Size \in Nat /\ readOffset \in Nat /\ readOffset < Size
  BY SizeAssumption DEF TypeOK, RingTypeOK, Cells
<1>3. packets[i].size \in Nat
  BY PacketSize, SizeAssumption
<1>4. \A u \in Nat : Skip(padding, u) >= u
  BY <1>2 DEF Skip
<1>5. pos[1] >= readOffset /\ pos[i + 1] >= pos[i] + packets[i].size
  <2>1. /\ pos[1] = Skip(padding, readOffset)
        /\ pos[i + 1] = Skip(padding, pos[i] + packets[i].size)
    BY <1>1 DEF Laid
  <2>2. pos[i] + packets[i].size \in Nat
    BY <1>1, <1>3 DEF Laid
  <2> QED
    BY <1>2, <1>4, <2>1, <2>2
<1>6. pos[1] <= pos[i] /\ pos[i + 1] <= pos[Len(packets) + 1] /\ pos[1] \in Nat
      /\ pos[i] \in Nat /\ pos[i + 1] \in Nat
  BY <1>1 DEF Laid
<1>7. pos[Len(packets) + 1] = readOffset + DataSize
  BY DEF Laid
<1> QED
  BY <1>2, <1>5, <1>6, <1>7

\* The padding goes to the end of the storage, and leaves room before the reader.
LEMMA Room ==
  ASSUME Ordered, NEW n \in 1..Size, Fits(n)
  PROVE  /\ PaddingFor(n) = 0 => n \in 1..WriterSize
         /\ PaddingFor(n) # 0 =>
                /\ contiguous /\ PaddingFor(n) = Size - writeOffset
                /\ PaddingFor(n) \in 1..WriterSize /\ PaddingFor(n) \in 1..Size - 1
                /\ n <= readOffset
<1> USE SizeAssumption DEF Ordered, Cells, Fits, PaddingFor, FreeSize, DataSize, WriterSize,
       WriterAtEnd
<1>1. CASE contiguous
  BY <1>1
<1>2. CASE ~contiguous
  BY <1>2
<1> QED
  BY <1>1, <1>2

\* The types of the ring are kept where its order is.
LEMMA RingTypes ==
  ASSUME RingTypeOK, Ordered', UNCHANGED endVars, DOMAIN cells' = Cells(Size)
  PROVE  RingTypeOK'
  BY DEF RingTypeOK, Ordered, endVars, Cells

\* The padding is pushed: the packets are where they were, and the next one
\* comes behind it.
LEMMA PadInv ==
  ASSUME IInv, NEW p \in Writers, BeginStore(p), PaddingFor(offer[p]) # 0
  PROVE  IInv'
<1> DEFINE k == Size - writeOffset
           n == Len(packets)
<1>1. /\ offer[p] # 0 /\ writer = NoWriter /\ stored < MaxPackets /\ Fits(offer[p])
      /\ padding' = PaddingFor(offer[p]) /\ PushBytes(PaddingFor(offer[p]))
      /\ writer' = p /\ writing' = "copying"
      /\ UNCHANGED <<cells, eod, failed, packets, offer, stored, reader, discardOnOverflow,
                     clearThrew>>
  <2>1. PaddingFor(offer[p]) > 0
    <3>1. offer[p] \in 1..Size
      BY SizesAssumption DEF IInv, TypeOK, BeginStore
    <3> QED
      BY <3>1, Room, TypeOrdered DEF BeginStore, IInv
  <2> QED
    BY <2>1 DEF BeginStore, endVars, ruleVars
<1>2. offer[p] \in 1..Size /\ Ordered
  BY <1>1, SizesAssumption, TypeOrdered DEF IInv, TypeOK
<1>3. /\ contiguous /\ PaddingFor(offer[p]) = k /\ k \in 1..WriterSize /\ k \in 1..Size - 1
      /\ offer[p] <= readOffset
  BY <1>1, <1>2, Room
<1>4. /\ Ordered' /\ DataSize' = DataSize + k
      /\ ReaderSize \in Int /\ ReaderSize' \in Int /\ ReaderSize' >= ReaderSize
  BY <1>1, <1>2, <1>3, Pushed
<1>5. writeOffset' = 0 /\ ~contiguous' /\ readOffset' = readOffset
  <2>1. PushBytes(k) /\ writeOffset + k = Size
    BY <1>1, <1>2, <1>3, SizeAssumption DEF Ordered, Cells
  <2> QED
    BY <1>3, <2>1 DEF PushBytes, Wrapped
<1>6. n \in Nat /\ readOffset \in Nat /\ writeOffset \in Nat /\ writeOffset < Size
      /\ readOffset <= writeOffset /\ DataSize = writeOffset - readOffset /\ Size \in Nat
  BY <1>2, <1>3, SizeAssumption DEF Ordered, Cells, IInv, TypeOK, DataSize
<1>7. TypeOK'
  <2>1. RingTypeOK'
    BY <1>1, <1>4, RingTypes DEF IInv, TypeOK, endVars, RingTypeOK
  <2>2. padding' \in 0..Size - 1 /\ readOffset' + padding' <= Size
    BY <1>1, <1>3, <1>5, <1>6
  <2> QED
    BY <1>1, <1>2, <1>5, <2>1, <2>2, WritersAssumption DEF IInv, TypeOK
<1>8. Writing' /\ Padded' /\ Waits' /\ cells' \in [Cells(Size) -> Nat]
  <2>1. offer[p] \in 1..WriterSize'
    BY <1>2, <1>3, <1>5, <1>6 DEF WriterSize
  <2> QED
    BY <1>1, <2>1 DEF IInv, Writing, Padded, Waits, Busy, Empty, Ended
<1>9. Reading'
  <2> SUFFICES ASSUME reader = "processing" 
               PROVE  /\ Head(packets).size \in 1..ReaderSize'
                      /\ ~clearThrew => Skip(padding', readOffset') = readOffset'
    BY <1>1 DEF Reading
  <2>1. Head(packets).size \in 1..ReaderSize /\ readOffset < writeOffset
    BY <1>3, <1>6 DEF IInv, Reading, ReaderSize
  <2>2. readOffset' # Size - padding'
    BY <1>1, <1>3, <1>5, <1>6, <2>1
  <2> QED
    BY <1>4, <2>1, <2>2 DEF Skip
<1>10. Filled'
  <2>1. PICK low : Measured(low)
    BY DEF IInv, Filled
  <2>2. low[n + 1] + padding <= DataSize /\ low[n + 1] \in Nat /\ padding \in Nat
    <3>1. n + 1 \in 1..n + 1
      BY <1>6
    <3>2. low[n + 1] + padding <= DataSize /\ low \in [1..n + 1 -> Nat]
      BY <2>1 DEF Measured
    <3>3. padding \in Nat
      BY <1>6 DEF IInv, TypeOK
    <3> QED
      BY <3>1, <3>2, <3>3
  <2>3. low[n + 1] + padding' <= DataSize'
    BY <1>1, <1>3, <1>4, <1>6, <2>2
  <2>4. Measured(low)'
    BY <1>1, <2>1, <2>3 DEF Measured
  <2> QED
    BY <2>4 DEF Filled
<1>11. Placed'
  <2> SUFFICES ASSUME ~clearThrew PROVE \E pos : Laid(pos)' /\ Held(pos)'
    BY <1>1 DEF Placed
  <2>1. PICK pos : Laid(pos) /\ Held(pos)
    BY DEF IInv, Placed
  <2>2. padding = 0
    BY <1>3, <1>6 DEF IInv, TypeOK
  <2>3. pos \in [1..n + 1 -> Nat] /\ pos[1] = readOffset /\ pos[n + 1] = writeOffset
        /\ \A i, j \in 1..n + 1 : i <= j => pos[i] <= pos[j]
    <3>1. /\ pos \in [1..n + 1 -> Nat] /\ pos[1] = Skip(padding, readOffset)
          /\ pos[n + 1] = readOffset + DataSize
          /\ \A i, j \in 1..n + 1 : i <= j => pos[i] <= pos[j]
      BY <2>1 DEF Laid
    <3>2. Skip(padding, readOffset) = readOffset /\ readOffset + DataSize = writeOffset
      BY <1>6, <2>2 DEF Skip
    <3> QED
      BY <3>1, <3>2
  <2>4. \A i \in 1..n : /\ pos[i + 1] = pos[i] + packets[i].size
                        /\ packets[i].size \in 1..Size
                        /\ pos[i + 1] <= writeOffset /\ pos[i] < writeOffset
    <3> TAKE i \in 1..n
    <3>1. pos[i + 1] = pos[i] + packets[i].size
      BY <2>1, <2>2 DEF Laid, Skip
    <3>2. packets[i].size \in 1..Size /\ pos[i] \in Nat
      BY <2>3, PacketSize DEF IInv
    <3>3. pos[i + 1] <= writeOffset
      BY <1>6, <2>1, Within DEF IInv
    <3> QED
      BY <1>6, <3>1, <3>2, <3>3
  <2>5. PICK new : new = [pos EXCEPT ![n + 1] = Size]
    OBVIOUS
  <2>6. /\ new \in [1..n + 1 -> Nat] /\ new[n + 1] = Size
        /\ \A i \in 1..n : new[i] = pos[i]
    BY <1>6, <2>3, <2>5
  <2>7. /\ padding' = k /\ Size - padding' = writeOffset /\ padding' > 0
        /\ \A u \in Nat : Skip(padding', u) = IF u = writeOffset THEN Size ELSE u
    BY <1>1, <1>3, <1>6 DEF Skip
  <2> HIDE DEF k, n
  <2>8. new[1] = Skip(padding', readOffset')
    <3>1. CASE n = 0
      BY <1>5, <1>6, <2>3, <2>6, <2>7, <3>1
    <3>2. CASE n # 0
      BY <1>5, <1>6, <2>3, <2>4, <2>6, <2>7, <3>2
    <3> QED
      BY <3>1, <3>2
  <2>9. ASSUME NEW i \in 1..n
        PROVE  /\ new[i + 1] = Skip(padding', new[i] + packets[i].size)
               /\ new[i] + packets[i].size <= Size - padding'
    <3>1. /\ new[i] = pos[i] /\ pos[i] + packets[i].size = pos[i + 1]
          /\ pos[i + 1] <= writeOffset /\ pos[i + 1] \in Nat
      BY <1>6, <2>3, <2>4, <2>6
    <3>2. CASE i = n
      BY <1>6, <2>3, <2>6, <2>7, <3>1, <3>2
    <3>3. CASE i # n
      <4>1. i + 1 \in 1..n
        BY <1>6, <3>3
      <4> QED
        BY <1>6, <2>4, <2>6, <2>7, <3>1, <4>1
    <3> QED
      BY <3>2, <3>3
  <2>10. ASSUME NEW i \in 1..n + 1, NEW j \in 1..n + 1, i <= j PROVE new[i] <= new[j]
    <3>1. CASE j = n + 1
      <4>1. i = n + 1 \/ i \in 1..n
        BY <1>6
      <4> QED
        BY <1>6, <2>4, <2>6, <3>1, <4>1, <2>3
    <3>2. CASE j # n + 1
      <4>1. i \in 1..n /\ j \in 1..n
        BY <1>6, <2>10, <3>2
      <4> QED
        BY <2>3, <2>6, <2>10, <4>1
    <3> QED
      BY <3>1, <3>2
  <2>11. new[n + 1] = readOffset' + DataSize'
    BY <1>4, <1>5, <1>6, <2>6 DEF k
  <2>12. Laid(new)'
    BY <1>1, <2>6, <2>8, <2>9, <2>10, <2>11 DEF Laid, n
  <2>13. Held(new)'
    BY <1>1, <2>1, <2>6 DEF Held, n
  <2> QED
    BY <2>12, <2>13
<1> QED
  BY <1>7, <1>8, <1>9, <1>10, <1>11 DEF IInv

\* A packet is begun where there is room for it.
LEMMA BeginInv ==
  ASSUME IInv, NEW p \in Writers, BeginStore(p), PaddingFor(offer[p]) = 0
  PROVE  IInv'
<1>1. /\ offer[p] # 0 /\ writer = NoWriter /\ stored < MaxPackets /\ Fits(offer[p])
      /\ writer' = p /\ writing' = "copying"
      /\ UNCHANGED <<writeOffset, readOffset, contiguous, cells, eod, failed, packets,
                     padding, offer, stored, reader, discardOnOverflow, clearThrew>>
  BY DEF BeginStore, endVars, ruleVars, ringVars
<1>2. offer[p] \in 1..Size /\ Ordered
  BY <1>1, SizesAssumption, TypeOrdered DEF IInv, TypeOK
<1>3. offer[p] \in 1..WriterSize
  BY <1>1, <1>2, Room
<1>4. TypeOK'
  BY <1>1, <1>2, WritersAssumption DEF IInv, TypeOK, RingTypeOK
<1>5. Writing' /\ Padded' /\ Waits' /\ Reading' /\ cells' \in [Cells(Size) -> Nat]
  BY <1>1, <1>3 DEF IInv, Writing, Padded, Waits, Reading, Busy, Empty, Ended, WriterSize,
                    ReaderSize
<1>6. Filled' /\ Placed'
  BY <1>1, Same DEF IInv
<1> QED
  BY <1>4, <1>5, <1>6 DEF IInv

\* A writer copies to where there are no data.
LEMMA CopyInv ==
  ASSUME IInv, CopyPacket
  PROVE  IInv'
<1> DEFINE m == offer[writer]
<1>1. /\ writing = "copying" /\ writing' = "copied"
      /\ UNCHANGED <<writeOffset, readOffset, contiguous, eod, failed, packets, padding,
                     writer, offer, stored, reader, discardOnOverflow, clearThrew>>
      /\ Copy(writeOffset, [i \in 1..m |-> stored + 1])
  BY DEF CopyPacket, ringVars, endVars, ruleVars
<1>2. Ordered /\ m \in 1..WriterSize /\ m \in Nat /\ stored \in Nat
  BY <1>1, TypeOrdered, RegionSizes, SizeAssumption, WritersAssumption
     DEF IInv, Writing, Busy, TypeOK
<1> DEFINE new == [i \in 1..m |-> stored + 1]
<1>3. /\ cells' \in [Cells(Size) -> Nat]
      /\ \A c \in Cells(Size) : cells'[c] = IF c \in Region(writeOffset, m) THEN stored + 1
                                                                     ELSE cells[c]
  <2>1. cells' = [c \in Cells(Size) |-> IF c \in Region(writeOffset, Len(new))
                                  THEN new[c - writeOffset + 1] ELSE cells[c]]
    BY <1>1 DEF Copy
  <2>2. Len(new) = m
    BY <1>2
  <2>3. \A c \in Region(writeOffset, m) : new[c - writeOffset + 1] = stored + 1
    BY <1>2, SizeAssumption DEF Region, Ordered, Cells
  <2>4. \A c \in Region(writeOffset, m) : stored + 1 \in Nat
    BY <1>2
  <2> HIDE DEF new, m
  <2> QED
    BY <1>2, <2>1, <2>2, <2>3, <2>4 DEF IInv
<1>4. Writing'
  <2>1. \A i \in 1..m : writeOffset + i - 1 \in Region(writeOffset, m)
                        /\ writeOffset + i - 1 \in Cells(Size)
    BY <1>2, SizeAssumption DEF Region, Ordered, Cells, WriterSize
  <2> QED
    BY <1>1, <1>3, <2>1 DEF IInv, Writing, Busy, WriterSize
<1>5. TypeOK'
  BY <1>1, <1>3 DEF IInv, TypeOK, RingTypeOK
<1>6. Reading' /\ Padded' /\ Waits'
  BY <1>1 DEF IInv, Reading, Padded, Waits, Busy, Empty, Ended, ReaderSize
<1>7. Filled'
  <2>1. PICK low : Measured(low)
    BY DEF IInv, Filled
  <2>2. Measured(low)'
    BY <1>1, <2>1 DEF Measured, DataSize
  <2> QED
    BY <2>2 DEF Filled
<1>8. Placed'
  <2> SUFFICES ASSUME ~clearThrew PROVE \E pos : Laid(pos)' /\ Held(pos)'
    BY <1>1 DEF Placed
  <2>1. PICK pos : Laid(pos) /\ Held(pos)
    BY DEF IInv, Placed
  <2>2. Laid(pos)'
    BY <1>1, <2>1 DEF Laid, DataSize
  <2>3. ASSUME NEW i \in 1..Len(packets), NEW u \in Nat,
               pos[i] <= u /\ u < pos[i] + packets[i].size
        PROVE  cells'[Place(u)] = packets[i].id
    <3>1. u >= readOffset /\ u < readOffset + DataSize
      <4>1. packets[i].size \in Nat
        BY PacketSize, SizeAssumption DEF IInv
      <4>2. readOffset \in Int /\ DataSize \in Int
        BY <1>2, RegionSizes, SizeAssumption DEF Ordered, Cells
      <4> QED
        BY <2>1, <2>3, <4>1, <4>2, Within DEF IInv
    <3>2. Place(u) \in Cells(Size) /\ Place(u) \notin Region(writeOffset, m)
      <4> USE SizeAssumption DEF Place, Region, Cells, DataSize, WriterSize, Ordered
      <4>1. CASE contiguous
        BY <1>2, <3>1, <4>1
      <4>2. CASE ~contiguous
        BY <1>2, <3>1, <4>2
      <4> QED
        BY <4>1, <4>2
    <3>3. cells[Place(u)] = packets[i].id
      BY <2>1, <2>3 DEF Held
    <3> QED
      BY <1>3, <3>2, <3>3
  <2>4. Held(pos)'
    BY <1>1, <2>3 DEF Held, Place
  <2> QED
    BY <2>2, <2>4
<1> QED
  BY <1>3, <1>4, <1>5, <1>6, <1>7, <1>8 DEF IInv

\* A new packet is the last of the queue.
LEMMA Queued ==
  ASSUME TypeOK, NEW r, packets' = Append(packets, r)
  PROVE  /\ Len(packets) \in Nat /\ Len(packets') = Len(packets) + 1
         /\ packets'[Len(packets) + 1] = r
         /\ \A i \in 1..Len(packets) : packets'[i] = packets[i]
         /\ packets # <<>> => Head(packets') = Head(packets)
         /\ packets' # <<>>
<1>1. packets \in Seq([id : 1..MaxPackets, size : Sizes])
  BY DEF TypeOK
<1>2. Len(packets) \in Nat /\ DOMAIN packets = 1..Len(packets)
  BY ONLY <1>1
<1>3. /\ Len(packets') = Len(packets) + 1 /\ packets'[Len(packets) + 1] = r
      /\ \A i \in 1..Len(packets) : packets'[i] = packets[i]
  BY ONLY <1>1, <1>2, packets' = Append(packets, r)
<1>4. packets # <<>> => Len(packets) >= 1 /\ Head(packets) = packets[1]
  BY ONLY <1>1
<1>5. Head(packets') = packets'[1] /\ packets' # <<>>
  BY ONLY <1>2, <1>3
<1> QED
  BY <1>2, <1>3, <1>4, <1>5

\* The first packet leaves the queue.
LEMMA Taken ==
  ASSUME TypeOK, packets # <<>>, packets' = Tail(packets)
  PROVE  /\ Len(packets) \in Nat /\ Len(packets) >= 1 /\ Len(packets') = Len(packets) - 1
         /\ Head(packets) = packets[1]
         /\ packets' \in Seq([id : 1..MaxPackets, size : Sizes])
         /\ \A i \in 1..Len(packets) - 1 : packets'[i] = packets[i + 1]
<1>1. packets \in Seq([id : 1..MaxPackets, size : Sizes])
  BY DEF TypeOK
<1> QED
  BY ONLY <1>1, packets # <<>>, packets' = Tail(packets), HeadTailProperties

\* What was copied is the last packet, behind the others.
LEMMA StoreInv ==
  ASSUME IInv, EndStore
  PROVE  IInv'
<1> DEFINE k == offer[writer]
           n == Len(packets)
<1>1. /\ writing = "copied" /\ writing' = "none" /\ writer' = NoWriter
      /\ PushBytes(k) /\ stored' = stored + 1
      /\ offer' = [offer EXCEPT ![writer] = 0]
      /\ packets' = Append(packets, [id |-> stored + 1, size |-> k])
      /\ reader' = IF reader = "waiting" THEN "idle" ELSE reader
      /\ UNCHANGED <<cells, eod, failed, padding, discardOnOverflow, clearThrew>>
  BY DEF EndStore, WakeReader, endVars, ruleVars
<1>2. /\ Ordered /\ k \in 1..WriterSize /\ stored \in Nat /\ stored < MaxPackets
      /\ \A i \in 1..k : cells[writeOffset + i - 1] = stored + 1
  BY <1>1, TypeOrdered, WritersAssumption DEF IInv, TypeOK, Writing, Busy
<1>3. k \in Sizes /\ k \in Nat /\ k > 0
  <2>1. WriterSize \in Nat
    BY <1>2, RegionSizes, SizeAssumption
  <2>2. writer \in Writers
    BY <1>1 DEF IInv, TypeOK
  <2>3. k \in Sizes \cup {0}
    BY <2>2 DEF IInv, TypeOK
  <2> QED
    BY <1>2, <2>1, <2>3
<1>4. /\ Ordered' /\ DataSize' = DataSize + k
      /\ ReaderSize \in Int /\ ReaderSize' \in Int /\ ReaderSize' >= ReaderSize
  BY <1>1, <1>2, Pushed
<1>5. /\ readOffset' = readOffset /\ readOffset \in Nat /\ writeOffset \in Nat
      /\ readOffset < Size /\ writeOffset < Size /\ Size \in Nat /\ DataSize \in Nat
      /\ contiguous => DataSize = writeOffset - readOffset /\ writeOffset + k <= Size
      /\ ~contiguous => /\ DataSize = Size - readOffset + writeOffset
                        /\ writeOffset + k < Size
                        /\ ~contiguous' /\ writeOffset' = writeOffset + k
  BY <1>1, <1>2, SizeAssumption
     DEF PushBytes, Wrapped, Ordered, Cells, DataSize, WriterSize
<1>6. /\ n \in Nat /\ Len(packets') = n + 1
      /\ packets'[n + 1].id = stored + 1 /\ packets'[n + 1].size = k
      /\ \A i \in 1..n : packets'[i] = packets[i]
      /\ packets # <<>> => Head(packets') = Head(packets)
      /\ packets' # <<>>
  BY <1>1, Queued DEF IInv
<1>7. TypeOK'
  <2>1. RingTypeOK'
    BY <1>1, <1>4, RingTypes DEF IInv, TypeOK, endVars, RingTypeOK
  <2>2. packets' \in Seq([id : 1..MaxPackets, size : Sizes])
    <3>1. [id |-> stored + 1, size |-> k] \in [id : 1..MaxPackets, size : Sizes]
      BY <1>2, <1>3, WritersAssumption
    <3>2. packets \in Seq([id : 1..MaxPackets, size : Sizes])
      BY DEF IInv, TypeOK
    <3> QED
      BY <1>1, <3>1, <3>2, AppendProperties, Zenon
  <2>3. stored' \in 0..MaxPackets /\ offer' \in [Writers -> Sizes \cup {0}]
    BY <1>1, <1>2, WritersAssumption DEF IInv, TypeOK
  <2>4. padding' > 0 /\ ~clearThrew' => ~contiguous' /\ readOffset' + padding' <= Size
    BY <1>1, <1>5 DEF IInv, TypeOK
  <2> QED
    BY <1>1, <1>6, <2>1, <2>2, <2>3, <2>4 DEF IInv, TypeOK
<1>8. Writing' /\ Waits' /\ cells' \in [Cells(Size) -> Nat]
  BY <1>1 DEF IInv, Writing, Waits, Busy
<1>9. Padded'
  BY <1>1, <1>3, <1>5 DEF IInv, TypeOK, Padded
<1>10. Reading'
  <2> SUFFICES ASSUME reader = "processing"
               PROVE  /\ Head(packets).size \in 1..ReaderSize'
                      /\ ~clearThrew => Skip(padding, readOffset) = readOffset
    BY <1>1, <1>5, <1>6 DEF Reading, IInv, TypeOK
  <2> QED
    BY <1>4 DEF IInv, Reading
<1> HIDE DEF k, n
<1>11. Filled'
  <2>1. PICK low : Measured(low)
    BY DEF IInv, Filled
  <2>2. PICK new : new = [i \in 1..n + 2 |-> IF i = n + 2 THEN low[n + 1] + k ELSE low[i]]
    OBVIOUS
  <2>3. /\ low \in [1..n + 1 -> Nat]
        /\ \A i, j \in 1..n + 1 : i <= j => low[j] - low[i] >= j - i
        /\ \A i \in 1..n : low[i + 1] >= low[i] + packets[i].size
        /\ low[n + 1] + padding <= DataSize
    BY <2>1 DEF Measured, n
  <2>4. /\ new \in [1..n + 2 -> Nat] /\ new[n + 2] = low[n + 1] + k
        /\ \A i \in 1..n + 1 : new[i] = low[i] /\ low[i] \in Nat
        /\ low[n + 1] \in Nat
    <3>1. \A i \in 1..n + 1 : low[i] \in Nat
      BY <2>3
    <3>2. n + 1 \in 1..n + 1 /\ n + 2 \in 1..n + 2
      BY <1>6
    <3>3. \A i \in 1..n + 2 : i # n + 2 => i \in 1..n + 1
      BY <1>6
    <3>4. low[n + 1] + k \in Nat
      BY <1>3, <3>1, <3>2
    <3> QED
      BY <1>6, <2>2, <3>1, <3>2, <3>3, <3>4
  <2>5. \A i, j \in 1..n + 2 : i <= j => new[j] - new[i] >= j - i
    <3> TAKE i, j \in 1..n + 2
    <3> HAVE i <= j
    <3>1. CASE j \in 1..n + 1
      <4>1. i \in 1..n + 1
        BY <1>6, <3>1
      <4> QED
        BY <2>3, <2>4, <3>1, <4>1
    <3>2. CASE j = n + 2 /\ i \in 1..n + 1
      <4>1. low[n + 1] - low[i] >= n + 1 - i
        BY <1>6, <2>3, <3>2
      <4> QED
        BY <1>3, <1>6, <2>4, <3>2, <4>1, SMTT(30)
    <3>3. CASE j = n + 2 /\ i = n + 2
      BY <1>3, <1>6, <2>4, <3>3
    <3> QED
      BY <1>6, <3>1, <3>2, <3>3
  <2>6. \A i \in 1..n + 1 : new[i + 1] >= new[i] + packets'[i].size
    <3> TAKE i \in 1..n + 1
    <3>1. CASE i = n + 1
      <4>1. i + 1 = n + 2 /\ i \in 1..n + 1
        BY <1>6, <3>1
      <4> QED
        BY <1>3, <1>6, <2>4, <3>1, <4>1
    <3>2. CASE i # n + 1
      <4>1. i \in 1..n /\ i + 1 \in 1..n + 1 /\ i \in 1..n + 1
        BY <1>6, <3>2
      <4> QED
        BY <1>6, <2>3, <2>4, <4>1
    <3> QED
      BY <3>1, <3>2
  <2>7. new[n + 2] + padding' <= DataSize'
    <3>1. padding \in Nat
      BY <1>5 DEF IInv, TypeOK
    <3> QED
      BY <1>1, <1>3, <1>4, <1>5, <2>3, <2>4, <3>1
  <2>8. Measured(new)'
    <3>1. Len(packets') + 1 = n + 2
      BY <1>6
    <3> QED
      BY <1>6, <2>4, <2>5, <2>6, <2>7, <3>1 DEF Measured
  <2> QED
    BY <2>8 DEF Filled
<1>12. Placed'
  <2> SUFFICES ASSUME ~clearThrew PROVE \E pos : Laid(pos)' /\ Held(pos)'
    BY <1>1 DEF Placed
  <2>1. PICK pos : Laid(pos) /\ Held(pos)
    BY DEF IInv, Placed
  <2>2. PICK new : new = [i \in 1..n + 2 |-> IF i = n + 2 THEN pos[n + 1] + k ELSE pos[i]]
    OBVIOUS
  <2>3. /\ pos \in [1..n + 1 -> Nat] /\ pos[1] = Skip(padding, readOffset)
        /\ pos[n + 1] = readOffset + DataSize
        /\ \A i \in 1..n :
            /\ pos[i + 1] = Skip(padding, pos[i] + packets[i].size)
            /\ pos[i] >= Size \/ pos[i] + packets[i].size <= Size - padding
        /\ \A i, j \in 1..n + 1 : i <= j => pos[i] <= pos[j]
    BY <2>1 DEF Laid, n
  <2>4. /\ new \in [1..n + 2 -> Nat] /\ new[n + 2] = pos[n + 1] + k
        /\ \A i \in 1..n + 1 : new[i] = pos[i] /\ pos[i] \in Nat
        /\ pos[n + 1] \in Nat
    <3>1. \A i \in 1..n + 1 : pos[i] \in Nat
      BY <2>3
    <3>2. n + 1 \in 1..n + 1 /\ n + 2 \in 1..n + 2
      BY <1>6
    <3>3. \A i \in 1..n + 2 : i # n + 2 => i \in 1..n + 1
      BY <1>6
    <3>4. pos[n + 1] + k \in Nat
      BY <1>3, <3>1, <3>2
    <3> QED
      BY <1>6, <2>2, <3>1, <3>2, <3>3, <3>4
  <2>5. \A i, j \in 1..n + 2 : i <= j => new[i] <= new[j]
    <3> TAKE i, j \in 1..n + 2
    <3> HAVE i <= j
    <3>1. CASE j \in 1..n + 1
      <4>1. i \in 1..n + 1
        BY <1>6, <3>1
      <4> QED
        BY <2>3, <2>4, <3>1, <4>1
    <3>2. CASE j = n + 2 /\ i \in 1..n + 1
      <4>1. pos[i] <= pos[n + 1]
        BY <1>6, <2>3, <3>2
      <4> QED
        BY <1>3, <1>6, <2>4, <3>2, <4>1, SMTT(30)
    <3>3. CASE j = n + 2 /\ i = n + 2
      BY <1>3, <1>6, <2>4, <3>3
    <3> QED
      BY <1>6, <3>1, <3>2, <3>3
  <2>6. padding \in Nat /\ (contiguous => padding = 0)
    BY <1>5 DEF IInv, TypeOK
  <2>7. /\ new[n + 2] = readOffset' + DataSize'
        /\ Skip(padding, new[n + 1] + k) = new[n + 2]
        /\ new[n + 1] >= Size \/ new[n + 1] + k <= Size - padding
    <3>1. /\ new[n + 1] = readOffset + DataSize /\ new[n + 2] = readOffset + DataSize + k
          /\ new[n + 1] \in Nat
      BY <1>6, <2>3, <2>4
    <3>2. CASE contiguous
      BY <1>3, <1>4, <1>5, <2>6, <3>1, <3>2 DEF Skip
    <3>3. CASE ~contiguous
      BY <1>3, <1>4, <1>5, <2>6, <3>1, <3>3 DEF Skip
    <3> QED
      BY <3>2, <3>3
  <2>8. ASSUME NEW i \in 1..n + 1
        PROVE  /\ new[i + 1] = Skip(padding, new[i] + packets'[i].size)
               /\ new[i] >= Size \/ new[i] + packets'[i].size <= Size - padding
    <3>1. CASE i = n + 1
      <4>1. i + 1 = n + 2
        BY <1>6, <3>1
      <4> QED
        BY <1>6, <2>7, <3>1, <4>1
    <3>2. CASE i # n + 1
      <4>1. i \in 1..n /\ i + 1 \in 1..n + 1 /\ i \in 1..n + 1
        BY <1>6, <3>2
      <4> QED
        BY <1>6, <2>3, <2>4, <4>1
    <3> QED
      BY <3>1, <3>2
  <2>9. Laid(new)'
    <3>1. Len(packets') + 1 = n + 2 /\ new[1] = Skip(padding', readOffset')
      BY <1>1, <1>5, <1>6, <2>3, <2>4
    <3> QED
      BY <1>1, <1>6, <2>4, <2>5, <2>7, <2>8, <3>1 DEF Laid
  <2>10. ASSUME NEW i \in 1..n + 1, NEW u \in Nat,
                new[i] <= u, u < new[i] + packets'[i].size
         PROVE  cells[Place(u)] = packets'[i].id
    <3>1. CASE i = n + 1
      <4>1. /\ readOffset + DataSize <= u /\ u < readOffset + DataSize + k
            /\ packets'[i].id = stored + 1
        BY <1>6, <2>3, <2>4, <2>10, <3>1
      <4>2. Place(u) - writeOffset + 1 \in 1..k
            /\ writeOffset + (Place(u) - writeOffset + 1) - 1 = Place(u)
        <5>1. CASE contiguous
          BY <1>3, <1>5, <4>1, <5>1 DEF Place
        <5>2. CASE ~contiguous
          BY <1>3, <1>5, <4>1, <5>2 DEF Place
        <5> QED
          BY <5>1, <5>2
      <4>3. cells[writeOffset + (Place(u) - writeOffset + 1) - 1] = stored + 1
        BY <1>2, <4>2
      <4> QED
        BY <4>1, <4>2, <4>3
    <3>2. CASE i # n + 1
      <4>1. i \in 1..n /\ i \in 1..n + 1
        BY <1>6, <3>2
      <4> QED
        BY <1>6, <2>1, <2>4, <2>10, <4>1 DEF Held, n
    <3> QED
      BY <3>1, <3>2
  <2>11. Held(new)'
    BY <1>1, <1>6, <2>10 DEF Held, Place
  <2> QED
    BY <2>9, <2>11
<1> QED
  BY <1>7, <1>8, <1>9, <1>10, <1>11, <1>12 DEF IInv

\* The first packet begins at the read offset, or behind the padding there.
LEMMA FirstPacket ==
  ASSUME TypeOK, ~Empty, ~clearThrew, NEW pos, Laid(pos)
  PROVE  /\ Len(packets) \in Nat /\ Len(packets) >= 1 /\ Head(packets) = packets[1]
         /\ AtPadding <=> Skip(padding, readOffset) # readOffset
         /\ AtPadding => pos[1] = Size /\ ~contiguous /\ padding = Size - readOffset
         /\ ~AtPadding => pos[1] = readOffset
<1>1. packets \in Seq([id : 1..MaxPackets, size : Sizes]) /\ packets # <<>>
  BY DEF TypeOK, Empty
<1>2. Len(packets) \in Nat /\ Len(packets) >= 1 /\ Head(packets) = packets[1]
  BY ONLY <1>1, HeadTailProperties
<1>3. /\ readOffset \in 0..Size - 1 /\ writeOffset \in 0..Size - 1 /\ padding \in Nat
      /\ padding > 0 => ~contiguous /\ readOffset + padding <= Size
      /\ contiguous => readOffset <= writeOffset
  BY SizeAssumption DEF TypeOK, RingTypeOK, Cells
<1>4. AtPadding <=> padding > 0 /\ readOffset = Size - padding
  BY <1>3, SizeAssumption DEF AtPadding, ReaderSize, ReaderAtEnd
<1> QED
  BY <1>2, <1>3, <1>4, SizeAssumption DEF Laid, Skip

\* The padding is popped: the packets behind it begin where the storage does.
LEMMA SkipInv ==
  ASSUME IInv, BeginRead, AtPadding
  PROVE  IInv'
<1> DEFINE n == Len(packets)
<1>1. /\ reader = "idle" /\ ~Empty /\ reader' = "processing"
      /\ PopBytes(padding) /\ padding' = 0 /\ Head(packets).size <= ReaderSize'
      /\ UNCHANGED <<cells, eod, failed, packets, writer, writing, offer, stored,
                     discardOnOverflow, clearThrew>>
  BY DEF BeginRead, endVars, writerVars, ruleVars
<1>2. /\ Ordered /\ padding \in 1..ReaderSize /\ padding = Size - readOffset
      /\ ~contiguous /\ padding \in Nat /\ Size \in Nat
      /\ writeOffset \in Nat /\ writeOffset < Size /\ readOffset \in Nat
      /\ DataSize = Size - readOffset + writeOffset
  <2>1. Ordered
    BY TypeOrdered DEF IInv
  <2>2. CASE contiguous
    BY <2>1, <2>2, SizeAssumption DEF AtPadding, ReaderSize, ReaderAtEnd, Ordered, Cells
  <2>3. CASE ~contiguous
    BY <2>1, <2>3, SizeAssumption
       DEF AtPadding, ReaderSize, ReaderAtEnd, Ordered, Cells, DataSize
  <2> QED
    BY <2>2, <2>3
<1>3. /\ Ordered' /\ DataSize' = DataSize - padding
      /\ WriterSize \in Int /\ WriterSize' \in Int /\ WriterSize' >= WriterSize
  BY <1>1, <1>2, Popped
<1>4. readOffset' = 0 /\ contiguous' = TRUE /\ writeOffset' = writeOffset
  <2>1. readOffset + padding = Size
    BY <1>2
  <2> QED
    BY <1>1, <1>2, <2>1 DEF PopBytes, Wrapped, Ordered
<1>5. /\ n \in Nat /\ n >= 1 /\ Head(packets) = packets[1] /\ packets[1].size \in 1..Size
  <2>1. packets \in Seq([id : 1..MaxPackets, size : Sizes]) /\ packets # <<>>
    BY <1>1 DEF IInv, TypeOK, Empty
  <2>2. n \in Nat /\ n >= 1 /\ Head(packets) = packets[1]
    BY ONLY <2>1, HeadTailProperties
  <2>3. 1 \in 1..n
    BY <2>2
  <2> QED
    BY <2>2, <2>3, PacketSize DEF IInv
<1>6. TypeOK'
  <2>1. RingTypeOK'
    BY <1>1, <1>3, RingTypes DEF IInv, TypeOK, endVars, RingTypeOK
  <2>2. padding' \in 0..Size - 1 /\ ~(padding' > 0)
    BY <1>1, <1>2, SizeAssumption
  <2> QED
    BY <1>1, <2>1, <2>2 DEF IInv, TypeOK, Empty
<1>7. Writing' /\ Padded' /\ Waits' /\ cells' \in [Cells(Size) -> Nat]
  BY <1>1, <1>3, <1>4 DEF IInv, Writing, Padded, Waits, Busy, Empty, Ended
<1>8. Reading'
  <2>1. ReaderSize' = writeOffset
    BY <1>2, <1>4 DEF ReaderSize
  <2> QED
    BY <1>1, <1>2, <1>4, <1>5, <2>1 DEF Reading, Skip
<1> HIDE DEF n
<1>9. Filled'
  <2>1. PICK low : Measured(low)
    BY DEF IInv, Filled
  <2>2. low[n + 1] + padding <= DataSize /\ low[n + 1] \in Nat
    BY <1>5, <2>1 DEF Measured, n
  <2>3. low[n + 1] + padding' <= DataSize'
    BY <1>1, <1>2, <1>3, <2>2
  <2> QED
    BY <1>1, <2>1, <2>3 DEF Measured, Filled, n
<1>10. Placed'
  <2> SUFFICES ASSUME ~clearThrew PROVE \E pos : Laid(pos)' /\ Held(pos)'
    BY <1>1 DEF Placed
  <2>1. PICK pos : Laid(pos) /\ Held(pos)
    BY DEF IInv, Placed
  <2>2. PICK new : new = [i \in 1..n + 1 |-> pos[i] - Size]
    OBVIOUS
  <2>3. /\ pos \in [1..n + 1 -> Nat] /\ pos[1] = Size
        /\ pos[n + 1] = readOffset + DataSize
        /\ \A i \in 1..n : pos[i + 1] = Skip(padding, pos[i] + packets[i].size)
        /\ \A i, j \in 1..n + 1 : i <= j => pos[i] <= pos[j]
    BY <1>1, <2>1, FirstPacket DEF IInv, Laid, n
  <2>4. /\ new \in [1..n + 1 -> Nat]
        /\ \A i \in 1..n + 1 : new[i] = pos[i] - Size /\ pos[i] \in Nat
    <3>1. \A i \in 1..n + 1 : pos[i] \in Nat /\ pos[i] >= Size
      BY <1>5, <2>3
    <3> QED
      BY <1>2, <2>2, <3>1
  <2>5. \A i, j \in 1..n + 1 : i <= j => new[i] <= new[j]
    BY <1>2, <2>3, <2>4
  <2>6. new[n + 1] = readOffset' + DataSize' /\ new[1] = Skip(padding', readOffset')
    <3>1. 1 \in 1..n + 1 /\ n + 1 \in 1..n + 1
      BY <1>5
    <3>2. new[1] = 0 /\ new[n + 1] = DataSize - padding
      BY <1>2, <2>3, <2>4, <3>1
    <3> QED
      BY <1>1, <1>3, <1>4, <1>2, <3>2 DEF Skip
  <2>7. ASSUME NEW i \in 1..n
        PROVE  /\ new[i + 1] = Skip(0, new[i] + packets[i].size)
               /\ new[i] + packets[i].size <= writeOffset
    <3>1. /\ packets[i].size \in 1..Size /\ i \in 1..n + 1 /\ i + 1 \in 1..n + 1
          /\ i \in 1..Len(packets)
      BY <1>5, PacketSize DEF IInv, n
    <3>2. pos[i] \in Nat /\ pos[i] >= Size /\ pos[i + 1] \in Nat
      BY <1>2, <1>5, <2>3, <2>4, <3>1
    <3>3. /\ pos[i] + packets[i].size <= pos[i + 1]
          /\ pos[i + 1] <= readOffset + DataSize
      BY <2>1, <3>1, Within DEF IInv
    <3>4. pos[i + 1] = pos[i] + packets[i].size
      BY <1>2, <2>3, <3>1, <3>2 DEF Skip
    <3>5. new[i] = pos[i] - Size /\ new[i + 1] = pos[i + 1] - Size
      BY <2>4, <3>1
    <3>6. new[i + 1] = new[i] + packets[i].size
      BY <1>2, <3>1, <3>2, <3>4, <3>5
    <3>7. new[i] + packets[i].size <= writeOffset
      BY <1>2, <3>1, <3>2, <3>3, <3>5
    <3> QED
      BY <3>6, <3>7 DEF Skip
  <2>8. Laid(new)'
    <3>1. \A i \in 1..n : new[i] + packets[i].size <= Size - 0
      <4> TAKE i \in 1..n
      <4>1. i \in 1..n + 1 /\ i \in 1..Len(packets)
        BY <1>5 DEF n
      <4>2. packets[i].size \in 1..Size /\ new[i] \in Nat
        BY <2>4, <4>1, PacketSize DEF IInv
      <4> QED
        BY <1>2, <2>7, <4>2
    <3> QED
      BY <1>1, <2>4, <2>5, <2>6, <2>7, <3>1 DEF Laid, n
  <2>9. ASSUME NEW i \in 1..n, NEW u \in Nat,
               new[i] <= u, u < new[i] + packets[i].size
        PROVE  cells[Place(u)] = packets[i].id
    <3>1. packets[i].size \in 1..Size /\ i \in 1..n + 1 /\ i \in 1..Len(packets)
      BY <1>5, PacketSize DEF IInv, n
    <3>2. /\ u + Size \in Nat /\ pos[i] <= u + Size /\ u + Size < pos[i] + packets[i].size
      BY <1>2, <2>4, <2>9, <3>1, SMTT(30)
    <3>3. Place(u + Size) = u /\ Place(u) = u
      <4>1. u < writeOffset
        BY <1>2, <2>4, <2>7, <2>9, <3>1
      <4> QED
        BY <1>2, <4>1 DEF Place
    <3> QED
      BY <2>1, <3>1, <3>2, <3>3 DEF Held
  <2>10. Held(new)'
    BY <1>1, <2>9 DEF Held, Place, n
  <2> QED
    BY <2>8, <2>10
<1> QED
  BY <1>6, <1>7, <1>8, <1>9, <1>10 DEF IInv

\* Without padding the packet is at the read offset already.
LEMMA FoundInv ==
  ASSUME IInv, BeginRead, ~AtPadding
  PROVE  IInv'
<1>1. /\ reader = "idle" /\ ~Empty /\ reader' = "processing"
      /\ Head(packets).size <= ReaderSize'
      /\ UNCHANGED <<writeOffset, readOffset, contiguous, cells, eod, failed, packets,
                     padding, writer, writing, offer, stored, discardOnOverflow, clearThrew>>
  BY DEF BeginRead, endVars, writerVars, ruleVars, ringVars
<1>2. Head(packets).size \in 1..Size
  <2>1. packets \in Seq([id : 1..MaxPackets, size : Sizes]) /\ packets # <<>>
    BY <1>1 DEF IInv, TypeOK, Empty
  <2>2. 1 \in 1..Len(packets) /\ Head(packets) = packets[1]
    BY ONLY <2>1, HeadTailProperties
  <2> QED
    BY <2>2, PacketSize DEF IInv
<1>3. ~clearThrew => Skip(padding, readOffset) = readOffset
  <2> SUFFICES ASSUME ~clearThrew PROVE Skip(padding, readOffset) = readOffset
    OBVIOUS
  <2>1. PICK pos : Laid(pos)
    BY DEF IInv, Placed
  <2> QED
    BY <1>1, <2>1, FirstPacket DEF IInv
<1>4. TypeOK'
  BY <1>1 DEF IInv, TypeOK, RingTypeOK, Empty
<1>5. Reading'
  <2>1. ReaderSize' = ReaderSize /\ ReaderSize \in Nat
    BY <1>1, TypeOrdered, RegionSizes, SizeAssumption DEF IInv, ReaderSize
  <2> QED
    BY <1>1, <1>2, <1>3, <2>1, SizeAssumption DEF Reading
<1>6. Writing' /\ Padded' /\ Waits' /\ cells' \in [Cells(Size) -> Nat]
  BY <1>1 DEF IInv, Writing, Padded, Waits, Busy, Empty, Ended, WriterSize
<1>7. Filled' /\ Placed'
  BY <1>1, Same DEF IInv
<1> QED
  BY <1>4, <1>5, <1>6, <1>7 DEF IInv

\* The packet that was processed goes: the next one begins where it ended, or
\* behind the padding there, or where the storage does.
LEMMA TakeInv ==
  ASSUME IInv, EndRead
  PROVE  IInv'
<1> DEFINE n == Len(packets)
           k == Head(packets).size
<1>1. /\ reader = "processing" /\ reader' = "idle" /\ PopBytes(k)
      /\ packets' = Tail(packets) /\ packets # <<>>
      /\ UNCHANGED <<cells, eod, failed, padding, offer, stored, discardOnOverflow,
                     clearThrew>>
      /\ \/ UNCHANGED <<writing, writer>> /\ writing # "waiting"
         \/ writing = "waiting" /\ writing' = "none" /\ writer' = NoWriter
  BY DEF EndRead, WakeWriter, endVars, ruleVars, IInv, TypeOK
<1>2. Ordered /\ k \in 1..ReaderSize /\ (~clearThrew => Skip(padding, readOffset) = readOffset)
  BY <1>1, TypeOrdered DEF IInv, Reading
<1>3. /\ Ordered' /\ DataSize' = DataSize - k
      /\ WriterSize \in Int /\ WriterSize' \in Int /\ WriterSize' >= WriterSize
  BY <1>1, <1>2, Popped
<1>4. /\ n \in Nat /\ n >= 1 /\ Len(packets') = n - 1 /\ k = packets[1].size
      /\ packets' \in Seq([id : 1..MaxPackets, size : Sizes])
      /\ \A i \in 1..n - 1 : packets'[i] = packets[i + 1]
  BY <1>1, Taken DEF IInv
<1>5. /\ readOffset \in Nat /\ writeOffset \in Nat /\ Size \in Nat /\ k \in Nat /\ k > 0
      /\ readOffset < Size /\ writeOffset < Size /\ DataSize \in Nat
      /\ writeOffset' = writeOffset /\ readOffset' = Wrapped(readOffset + k)
  BY <1>1, <1>2, RegionSizes, SizeAssumption DEF PopBytes, Ordered, Cells, ReaderSize
<1>6. /\ readOffset + k = Size =>
            /\ readOffset' = 0 /\ contiguous' = TRUE /\ ~contiguous
            /\ DataSize = Size - readOffset + writeOffset
      /\ readOffset + k # Size =>
            readOffset' = readOffset + k /\ contiguous' = contiguous
      /\ readOffset + k <= Size
  <2>1. CASE contiguous
    <3>1. readOffset + k <= writeOffset /\ readOffset + k # Size
      BY <1>2, <1>5, <2>1 DEF ReaderSize
    <3>2. contiguous' = contiguous /\ readOffset' = readOffset + k
      BY <1>1, <1>2, <2>1, <3>1 DEF PopBytes, Wrapped, Ordered
    <3> QED
      BY <1>5, <3>1, <3>2
  <2>2. CASE ~contiguous
    <3>1. readOffset + k <= Size /\ DataSize = Size - readOffset + writeOffset
      BY <1>2, <1>5, <2>2 DEF ReaderSize, DataSize
    <3>2. CASE readOffset + k = Size
      <4>1. contiguous' = TRUE /\ readOffset' = 0
        BY <1>1, <1>2, <2>2, <3>2 DEF PopBytes, Wrapped, Ordered
      <4> QED
        BY <2>2, <3>1, <3>2, <4>1
    <3>3. CASE readOffset + k # Size
      <4>1. contiguous' = contiguous /\ readOffset' = readOffset + k
        BY <1>1, <1>2, <2>2, <3>3 DEF PopBytes, Wrapped, Ordered
      <4> QED
        BY <3>1, <3>3, <4>1
    <3> QED
      BY <3>2, <3>3
  <2> QED
    BY <2>1, <2>2
<1>7. ~clearThrew => /\ padding \in Nat
                     /\ readOffset + k <= Size - padding
                     /\ padding > 0 => ~contiguous /\ readOffset + k # Size
  <2> SUFFICES ASSUME ~clearThrew
               PROVE  /\ padding \in Nat
                      /\ readOffset + k <= Size - padding
                      /\ padding > 0 => ~contiguous /\ readOffset + k # Size
    OBVIOUS
  <2>1. PICK pos : Laid(pos)
    BY DEF IInv, Placed
  <2>2. pos[1] = readOffset /\ 1 \in 1..n
    BY <1>2, <1>4, <2>1 DEF Laid
  <2>3. readOffset + k <= Size - padding
    BY <1>4, <1>5, <2>1, <2>2 DEF Laid
  <2>4. padding \in Nat /\ (padding > 0 => ~contiguous)
    BY <1>5 DEF IInv, TypeOK
  <2> QED
    BY <1>5, <2>3, <2>4
<1>8. TypeOK'
  <2>1. RingTypeOK'
    BY <1>1, <1>3, RingTypes DEF IInv, TypeOK, endVars, RingTypeOK
  <2>2. padding' > 0 /\ ~clearThrew' => ~contiguous' /\ readOffset' + padding' <= Size
    <3> SUFFICES ASSUME padding > 0, ~clearThrew
                 PROVE  ~contiguous' /\ readOffset' + padding <= Size
      BY <1>1
    <3> QED
      BY <1>5, <1>6, <1>7
  <2> QED
    BY <1>1, <1>4, <2>1, <2>2 DEF IInv, TypeOK
<1>9. Writing' /\ Padded' /\ Waits' /\ Reading' /\ cells' \in [Cells(Size) -> Nat]
  <2>1. Busy' <=> Busy
    BY <1>1 DEF Busy
  <2>2. Busy => writer' = writer /\ writing' = writing
    BY <1>1 DEF Busy
  <2>3. Writing'
    <3> SUFFICES ASSUME Busy PROVE Writing'
      BY <2>1 DEF Writing, Busy
    <3>1. /\ offer[writer] \in 1..WriterSize /\ stored < MaxPackets
          /\ writing = "copied" =>
                \A j \in 1..offer[writer] : cells[writeOffset + j - 1] = stored + 1
      BY DEF IInv, Writing
    <3>2. offer[writer] \in 1..WriterSize'
      BY <1>3, <3>1
    <3> QED
      BY <1>1, <1>5, <2>2, <3>1, <3>2 DEF Writing
  <2> QED
    BY <1>1, <1>5, <2>1, <2>3 DEF IInv, Padded, Waits, Reading, Busy
<1> HIDE DEF n, k
<1>10. Filled'
  <2>1. PICK low : Measured(low)
    BY DEF IInv, Filled
  <2>2. PICK new : new = [i \in 1..n |-> low[i + 1] - low[2]]
    OBVIOUS
  <2>3. /\ low \in [1..n + 1 -> Nat]
        /\ \A i, j \in 1..n + 1 : i <= j => low[j] - low[i] >= j - i
        /\ \A i \in 1..n : low[i + 1] >= low[i] + packets[i].size
        /\ low[n + 1] + padding <= DataSize
    BY <2>1 DEF Measured, n
  <2>4. \A i \in 1..n : /\ i + 1 \in 1..n + 1 /\ 2 \in 1..n + 1 /\ 1 \in 1..n
                        /\ low[i + 1] \in Nat /\ low[2] \in Nat /\ low[1] \in Nat
                        /\ low[i + 1] >= low[2] /\ new[i] = low[i + 1] - low[2]
    <3> TAKE i \in 1..n
    <3>1. i + 1 \in 1..n + 1 /\ 2 \in 1..n + 1 /\ 1 \in 1..n /\ 1 \in 1..n + 1 /\ 2 <= i + 1
      BY <1>4
    <3>2. low[i + 1] \in Nat /\ low[2] \in Nat /\ low[1] \in Nat
      BY <2>3, <3>1
    <3>3. low[i + 1] - low[2] >= (i + 1) - 2
      BY <2>3, <3>1
    <3> QED
      BY <2>2, <3>1, <3>2, <3>3
  <2>5. new \in [1..n -> Nat]
    BY <1>4, <2>2, <2>4
  <2>6. \A i, j \in 1..n : i <= j => new[j] - new[i] >= j - i
    <3> TAKE i, j \in 1..n
    <3> HAVE i <= j
    <3>1. low[j + 1] - low[i + 1] >= (j + 1) - (i + 1)
      BY <1>4, <2>3, <2>4
    <3>2. /\ low[i + 1] \in Nat /\ low[j + 1] \in Nat /\ low[2] \in Nat
          /\ new[i] = low[i + 1] - low[2] /\ new[j] = low[j + 1] - low[2]
      BY <2>4
    <3>3. i \in Int /\ j \in Int
      BY <1>4
    <3> QED
      BY <3>1, <3>2, <3>3
  <2>7. \A i \in 1..n - 1 : new[i + 1] >= new[i] + packets'[i].size
    <3> TAKE i \in 1..n - 1
    <3>1. i \in 1..n /\ i + 1 \in 1..n /\ (i + 1) + 1 = i + 2
      BY <1>4
    <3>2. packets[i + 1].size \in Nat
      BY <3>1, PacketSize, SizeAssumption DEF IInv, n
    <3>3. low[i + 2] >= low[i + 1] + packets[i + 1].size
      BY <2>3, <3>1
    <3>4. /\ new[i] = low[i + 1] - low[2] /\ new[i + 1] = low[i + 2] - low[2]
          /\ low[2] \in Nat /\ low[i + 1] \in Nat /\ low[i + 2] \in Nat
      BY <2>4, <3>1
    <3>5. new[i + 1] >= new[i] + packets[i + 1].size
      BY <3>2, <3>3, <3>4
    <3> QED
      BY <1>4, <3>5
  <2>8. new[n] + padding' <= DataSize'
    <3>1. n \in 1..n /\ 1 \in 1..n /\ 1 + 1 = 2
      BY <1>4
    <3>2. new[n] = low[n + 1] - low[2] /\ low[n + 1] \in Nat /\ low[2] \in Nat
          /\ low[1] \in Nat
      BY <2>4, <3>1
    <3>3. low[2] >= low[1] + k
      BY <1>4, <2>3, <3>1
    <3>4. padding \in Nat
      BY <1>5 DEF IInv, TypeOK
    <3>5. low[2] >= k /\ low[n + 1] + padding <= DataSize
      BY <1>5, <2>3, <3>2, <3>3
    <3> QED
      BY <1>1, <1>3, <1>5, <3>2, <3>4, <3>5
  <2>9. Measured(new)'
    <3>1. Len(packets') + 1 = n /\ Len(packets') = n - 1
      BY <1>4
    <3> QED
      BY <2>5, <2>6, <2>7, <2>8, <3>1 DEF Measured
  <2> QED
    BY <2>9 DEF Filled
<1>11. Placed'
  <2> SUFFICES ASSUME ~clearThrew PROVE \E pos : Laid(pos)' /\ Held(pos)'
    BY <1>1 DEF Placed
  <2>1. PICK pos : Laid(pos) /\ Held(pos)
    BY DEF IInv, Placed
  <2>2. PICK d : d = IF readOffset + k = Size THEN Size ELSE 0
    OBVIOUS
  <2>3. PICK new : new = [i \in 1..n |-> pos[i + 1] - d]
    OBVIOUS
  <2>4. /\ pos \in [1..n + 1 -> Nat] /\ pos[1] = readOffset
        /\ pos[n + 1] = readOffset + DataSize
        /\ \A i \in 1..n :
            /\ pos[i + 1] = Skip(padding, pos[i] + packets[i].size)
            /\ pos[i] >= Size \/ pos[i] + packets[i].size <= Size - padding
        /\ \A i, j \in 1..n + 1 : i <= j => pos[i] <= pos[j]
    BY <1>2, <2>1 DEF Laid, n
  <2>5. /\ padding \in Nat /\ padding' = padding /\ d \in Nat
        /\ d # 0 => d = Size /\ padding = 0 /\ readOffset + k = Size
    BY <1>1, <1>5, <1>7, <2>2
  <2>6. pos[2] = Skip(padding, readOffset + k) /\ 2 \in 1..n + 1 /\ 1 \in 1..n
        /\ pos[2] \in Nat
    <3>1. 1 \in 1..n /\ 1 + 1 = 2 /\ 2 \in 1..n + 1
      BY <1>4
    <3> QED
      BY <1>4, <2>4, <3>1
  <2>7. d <= pos[2]
    BY <1>5, <2>5, <2>6 DEF Skip
  <2>8. \A i \in 1..n : /\ i + 1 \in 1..n + 1 /\ pos[i + 1] \in Nat /\ pos[i + 1] >= d
                        /\ new[i] = pos[i + 1] - d
    <3> TAKE i \in 1..n
    <3>1. i + 1 \in 1..n + 1 /\ 2 <= i + 1
      BY <1>4
    <3>2. pos[i + 1] \in Nat /\ pos[2] <= pos[i + 1]
      BY <2>4, <2>6, <3>1
    <3> QED
      BY <2>3, <2>5, <2>6, <2>7, <3>1, <3>2
  <2>9. new \in [1..n -> Nat]
    BY <2>3, <2>5, <2>8
  <2>10. \A i, j \in 1..n : i <= j => new[i] <= new[j]
    <3> TAKE i, j \in 1..n
    <3> HAVE i <= j
    <3>1. pos[i + 1] <= pos[j + 1]
      BY <1>4, <2>4, <2>8
    <3> QED
      BY <2>5, <2>8, <3>1
  <2>11. new[1] = Skip(padding', readOffset')
    <3>1. new[1] = pos[2] - d
      <4>1. 1 \in 1..n /\ 1 + 1 = 2
        BY <1>4
      <4> QED
        BY <2>8, <4>1
    <3>2. CASE readOffset + k = Size
      BY <1>5, <1>6, <1>7, <2>2, <2>5, <2>6, <3>1, <3>2 DEF Skip
    <3>3. CASE readOffset + k # Size
      BY <1>5, <1>6, <2>2, <2>5, <2>6, <3>1, <3>3
    <3> QED
      BY <3>2, <3>3
  <2>12. new[n] = readOffset' + DataSize'
    <3>1. new[n] = readOffset + DataSize - d
      BY <1>4, <1>5, <2>4, <2>5, <2>8
    <3> QED
      BY <1>3, <1>5, <1>6, <2>2, <3>1
  <2>13. ASSUME NEW i \in 1..n - 1
         PROVE  /\ new[i + 1] = Skip(padding', new[i] + packets'[i].size)
                /\ new[i] >= Size \/ new[i] + packets'[i].size <= Size - padding'
                /\ d # 0 => new[i] + packets'[i].size <= writeOffset
    <3>1. /\ i \in 1..n /\ i + 1 \in 1..n /\ (i + 1) + 1 = i + 2
          /\ packets'[i] = packets[i + 1] /\ i + 1 \in 1..Len(packets)
      BY <1>4, SMTT(30) DEF n
    <3>2. packets[i + 1].size \in 1..Size
      BY <3>1, PacketSize DEF IInv
    <3>3. /\ pos[i + 2] = Skip(padding, pos[i + 1] + packets[i + 1].size)
          /\ pos[i + 1] >= Size \/ pos[i + 1] + packets[i + 1].size <= Size - padding
          /\ pos[i + 1] \in Nat /\ pos[i + 2] \in Nat /\ pos[i + 1] >= d
          /\ new[i] = pos[i + 1] - d /\ new[i + 1] = pos[i + 2] - d
      BY <2>4, <2>8, <3>1
    <3>4. /\ pos[i + 1] + packets[i + 1].size <= pos[i + 2]
          /\ pos[i + 2] <= readOffset + DataSize
      BY <2>1, <3>1, Within DEF IInv
    <3>5. CASE d = 0
      BY <1>5, <2>5, <3>1, <3>2, <3>3, <3>5
    <3>6. CASE d # 0
      <4>1. /\ d = Size /\ padding = 0 /\ padding' = 0
            /\ readOffset + DataSize = Size + writeOffset
        BY <1>5, <1>6, <2>5, <3>6
      <4>2. pos[i + 2] = pos[i + 1] + packets[i + 1].size
        BY <3>3, <4>1 DEF Skip
      <4>3. new[i + 1] = new[i] + packets[i + 1].size
        BY <1>5, <3>2, <3>3, <4>1, <4>2
      <4>4. new[i] + packets[i + 1].size <= writeOffset /\ new[i] \in Nat
        BY <1>5, <3>2, <3>3, <3>4, <4>1, <4>2
      <4> QED
        BY <1>5, <3>1, <3>2, <4>1, <4>3, <4>4 DEF Skip
    <3> QED
      BY <3>5, <3>6
  <2>14. Laid(new)'
    <3>1. Len(packets') + 1 = n /\ Len(packets') = n - 1
      BY <1>4
    <3> QED
      BY <2>9, <2>10, <2>11, <2>12, <2>13, <3>1 DEF Laid
  <2>15. ASSUME NEW i \in 1..n - 1, NEW u \in Nat,
                new[i] <= u, u < new[i] + packets'[i].size
         PROVE  cells[Place(u)] = packets'[i].id
    <3>1. /\ i \in 1..n /\ i + 1 \in 1..Len(packets) /\ packets'[i] = packets[i + 1]
      BY <1>4 DEF n
    <3>2. packets[i + 1].size \in 1..Size
      BY <3>1, PacketSize DEF IInv
    <3>3. new[i] = pos[i + 1] - d /\ pos[i + 1] \in Nat
      BY <2>8, <3>1
    <3>4. u + d \in Nat /\ pos[i + 1] <= u + d /\ u + d < pos[i + 1] + packets[i + 1].size
      BY <1>5, <2>5, <2>15, <3>1, <3>2, <3>3, SMTT(30)
    <3>5. cells[Place(u + d)] = packets[i + 1].id
      BY <2>1, <3>1, <3>4 DEF Held
    <3>6. Place(u + d) = Place(u)
      <4>1. CASE d = 0
        BY <4>1
      <4>2. CASE d # 0
        <5>1. new[i] + packets'[i].size <= writeOffset /\ d = Size
          BY <2>5, <2>13, <4>2
        <5>2. u < writeOffset
          <6>1. new[i] \in Nat /\ packets'[i].size \in 1..Size
            BY <2>9, <3>1, <3>2
          <6> QED
            BY <1>5, <2>15, <5>1, <6>1
        <5> QED
          BY <1>5, <5>1, <5>2 DEF Place
      <4> QED
        BY <4>1, <4>2
    <3> QED
      BY <3>1, <3>5, <3>6
  <2>16. Held(new)'
    BY <1>1, <1>4, <2>15 DEF Held, Place
  <2> QED
    BY <2>14, <2>16
<1> QED
  BY <1>8, <1>9, <1>10, <1>11 DEF IInv

\* Without a packet there is room for each that is of half the storage at most.
LEMMA EmptyFits ==
  ASSUME IInv, ~clearThrew, Empty, ~Busy, NEW k \in Sizes, 2 * k <= Size + 1
  PROVE  Fits(k)
<1>1. PICK pos : Laid(pos)
  BY DEF IInv, Placed
<1>2. Len(packets) = 0
  BY DEF Empty
<1>3. Skip(padding, readOffset) = readOffset + DataSize
  BY <1>1, <1>2 DEF Laid
<1>4. /\ readOffset \in 0..Size - 1 /\ writeOffset \in 0..Size - 1 /\ padding \in Nat
      /\ padding > 0 => ~contiguous /\ writeOffset > 0
      /\ contiguous => DataSize = writeOffset - readOffset
      /\ ~contiguous => DataSize = Size - readOffset + writeOffset
  BY SizeAssumption DEF IInv, TypeOK, RingTypeOK, Cells, Padded, DataSize
<1>5. contiguous /\ DataSize = 0
  BY <1>3, <1>4, SizeAssumption DEF Skip
<1>6. k \in 1..Size
  BY SizesAssumption
<1> QED
  BY <1>4, <1>5, <1>6, SizeAssumption
     DEF Fits, PaddingFor, FreeSize, WriterSize, WriterAtEnd

\* A writer waits when there is no room.
LEMMA WaitInv ==
  ASSUME IInv, NEW p \in Writers, WaitFull(p)
  PROVE  IInv'
<1>1. /\ offer[p] # 0 /\ writer = NoWriter /\ ~Fits(offer[p])
      /\ writer' = p /\ writing' = "waiting"
      /\ UNCHANGED <<writeOffset, readOffset, contiguous, cells, eod, failed, packets,
                     padding, offer, stored, reader, discardOnOverflow, clearThrew>>
  BY DEF WaitFull, bufferVars, ringVars, endVars, ruleVars
<1>2. offer[p] \in Sizes /\ offer[p] > 0 /\ ~Busy
  <2>1. offer[p] \in Sizes
    BY <1>1 DEF IInv, TypeOK
  <2>2. writing = "none"
    BY <1>1 DEF IInv, TypeOK
  <2>3. offer[p] \in 1..Size
    BY <2>1, SizesAssumption
  <2>4. offer[p] > 0
    BY <2>3, SizeAssumption
  <2>5. ~Busy
    BY <2>2 DEF Busy
  <2> QED
    BY <2>1, <2>4, <2>5
<1>3. TypeOK'
  BY <1>1, <1>2, WritersAssumption DEF IInv, TypeOK, RingTypeOK
<1>4. Waits'
  <2>1. ~clearThrew /\ (\A n \in Sizes : 2 * n <= Size + 1) => ~Empty
    BY <1>1, <1>2, EmptyFits
  <2> QED
    BY <1>1, <2>1 DEF IInv, Waits, Empty, Ended
<1>5. Writing' /\ Padded' /\ Reading' /\ cells' \in [Cells(Size) -> Nat]
  BY <1>1, <1>2 DEF IInv, Writing, Padded, Reading, Busy, WriterSize, ReaderSize
<1>6. Filled' /\ Placed'
  BY <1>1, Same DEF IInv
<1> QED
  BY <1>3, <1>4, <1>5, <1>6 DEF IInv

\* Steps that leave the data, and what is done with them, alone.
LEMMA QuietInv ==
  ASSUME IInv,
         \/ \E p \in Writers :
                GiveUp(p) \/ Discard(p) \/ \E n \in Sizes : Offer(p, n)
         \/ StopWaitFull \/ WaitEmpty \/ StopWaitEmpty \/ RefuseRead \/ End
  PROVE  IInv'
<1>1. /\ UNCHANGED <<writeOffset, readOffset, contiguous, cells, packets, padding, stored,
                     discardOnOverflow, clearThrew>>
      /\ UNCHANGED <<writing, writer>>
            \/ (writing = "waiting" /\ writing' = "none" /\ writer' = NoWriter)
      /\ reader' = reader \/ reader' = "idle"
            \/ (reader' = "waiting" /\ Empty /\ ~Ended /\ UNCHANGED <<eod, failed>>)
      /\ UNCHANGED <<eod, failed>>
            \/ (~Ended /\ (SetEndOfData \/ SetException) /\ WakeReader)
      /\ offer' \in [Writers -> Sizes \cup {0}]
      /\ \A p \in Writers : p = writer => offer'[p] = offer[p]
  <2>1. ASSUME NEW p \in Writers, GiveUp(p) \/ Discard(p) \/ \E n \in Sizes : Offer(p, n)
        PROVE  /\ UNCHANGED <<bufferVars, packets, padding, writer, writing, stored, reader,
                              ruleVars>>
               /\ offer' \in [Writers -> Sizes \cup {0}]
               /\ \A q \in Writers : q = writer => offer'[q] = offer[q]
    <3>1. offer \in [Writers -> Sizes \cup {0}] /\ p # NoWriter
      BY WritersAssumption DEF IInv, TypeOK
    <3>2. PICK n \in Sizes \cup {0} : offer' = [offer EXCEPT ![p] = n]
      BY <2>1 DEF GiveUp, Discard, Offer
    <3>3. p = writer => offer[p] = 0
      BY <2>1, <3>1 DEF GiveUp, Discard, Offer
    <3>4. offer[p] # 0 \/ p # writer
      <4>1. writer # NoWriter => offer[writer] > 0
        BY DEF IInv, TypeOK
      <4> QED
        BY <3>1, <4>1
    <3>5. /\ UNCHANGED <<bufferVars, packets, padding, writer, writing, stored, reader,
                         ruleVars>>
      BY <2>1 DEF GiveUp, Discard, Offer
    <3> QED
      BY <3>1, <3>2, <3>3, <3>4, <3>5
  <2>2. ASSUME StopWaitFull \/ WaitEmpty \/ StopWaitEmpty \/ RefuseRead \/ End
        PROVE  offer' = offer /\ offer \in [Writers -> Sizes \cup {0}]
    BY <2>2 DEF StopWaitFull, WaitEmpty, StopWaitEmpty, RefuseRead, End, writerVars, IInv,
                TypeOK
  <2>3. CASE StopWaitFull
    BY <2>2, <2>3 DEF StopWaitFull, WakeWriter, bufferVars, ringVars, endVars, ruleVars
  <2>4. CASE WaitEmpty
    BY <2>2, <2>4 DEF WaitEmpty, bufferVars, ringVars, endVars, ruleVars, writerVars
  <2>5. CASE StopWaitEmpty \/ RefuseRead
    BY <2>2, <2>5 DEF StopWaitEmpty, RefuseRead, bufferVars, ringVars, endVars, ruleVars,
                      writerVars
  <2>6. CASE End
    BY <2>2, <2>6 DEF End, WakeReader, ringVars, ruleVars, writerVars
  <2> QED
    BY <2>1, <2>3, <2>4, <2>5, <2>6 DEF bufferVars, ringVars, endVars, ruleVars
<1>2. Ordered
  BY TypeOrdered DEF IInv
<1>3. TypeOK'
  <2>1. eod' \in BOOLEAN /\ failed' \in BOOLEAN /\ ~(eod' /\ failed')
    <3>1. eod \in BOOLEAN /\ failed \in BOOLEAN /\ ~(eod /\ failed)
      BY DEF IInv, TypeOK, RingTypeOK
    <3>2. CASE UNCHANGED <<eod, failed>>
      BY <3>1, <3>2
    <3>3. CASE ~Ended /\ SetEndOfData
      BY <3>1, <3>3 DEF SetEndOfData, Ended
    <3>4. CASE ~Ended /\ SetException
      BY <3>1, <3>4 DEF SetException, Ended
    <3> QED
      BY <1>1, <3>2, <3>3, <3>4
  <2>2. RingTypeOK'
    BY <1>1, <2>1 DEF IInv, TypeOK, RingTypeOK
  <2>3. writer' # NoWriter => offer'[writer'] > 0
    BY <1>1 DEF IInv, TypeOK
  <2>4. reader' = "processing" => packets' # <<>>
    BY <1>1 DEF IInv, TypeOK
  <2> QED
    BY <1>1, <2>2, <2>3, <2>4 DEF IInv, TypeOK, Empty
<1>4. Writing'
  <2>1. Busy' => Busy /\ writer' = writer /\ writing' = writing
                 /\ writer \in Writers /\ offer'[writer] = offer[writer]
    BY <1>1 DEF Busy, IInv, TypeOK
  <2> QED
    BY <1>1, <2>1 DEF IInv, Writing, WriterSize, Busy
<1>5. Reading'
  <2>1. reader' = "processing" => reader = "processing"
    BY <1>1
  <2> QED
    BY <1>1, <2>1 DEF IInv, Reading, ReaderSize
<1>6. Waits'
  <2>1. reader' = "waiting" => Empty' /\ ~Ended'
    BY <1>1 DEF IInv, Waits, Empty, Ended, WakeReader
  <2>2. writing' = "waiting" => writing = "waiting"
    BY <1>1
  <2> QED
    BY <1>1, <2>1, <2>2 DEF IInv, Waits, Empty
<1>7. Padded' /\ cells' \in [Cells(Size) -> Nat]
  BY <1>1 DEF IInv, Padded, Busy
<1>8. Filled' /\ Placed'
  BY <1>1, Same DEF IInv
<1> QED
  BY <1>3, <1>4, <1>5, <1>6, <1>7, <1>8 DEF IInv

\* Clear() empties the ring and the queue ...
LEMMA ClearInv ==
  ASSUME IInv, Clear
  PROVE  IInv'
<1> USE SizeAssumption DEF Clear, ClearRing, writerVars, Cells
<1>1. /\ packets' = <<>> /\ Len(packets') = 0 /\ padding' = 0 /\ readOffset' = 0
      /\ DataSize' = 0 /\ reader' = "idle" /\ writing' = "none" /\ writer' = NoWriter
  BY DEF DataSize, Inactive, IInv, TypeOK
<1>2. RingTypeOK'
  <2>1. DOMAIN cells' = Cells(Size)
    BY DEF IInv, TypeOK, RingTypeOK
  <2>2. /\ contiguous' /\ contiguous' \in BOOLEAN
        /\ ~eod' /\ eod' \in BOOLEAN /\ ~failed' /\ failed' \in BOOLEAN
    OBVIOUS
  <2>3. /\ writeOffset' \in Cells(Size) /\ readOffset' \in Cells(Size)
        /\ readOffset' <= writeOffset'
    OBVIOUS
  <2> QED
    BY ONLY <2>1, <2>2, <2>3 DEF RingTypeOK
<1>3. TypeOK'
  <2>1. packets' \in Seq([id : 1..MaxPackets, size : Sizes])
    BY ONLY <1>1
  <2>2. padding' \in 0..Size - 1 /\ ~(padding' > 0)
    BY <1>1
  <2>3. UNCHANGED <<offer, stored, reader, discardOnOverflow>> /\ clearThrew' = FALSE
    OBVIOUS
  <2>4. writer' = NoWriter /\ writing' = "none" /\ reader' = "idle"
    BY <1>1
  <2> QED
    BY ONLY <1>2, <2>1, <2>2, <2>3, <2>4, IInv DEF IInv, TypeOK
<1>4. Measured([i \in 1..1 |-> 0])'
  BY <1>1 DEF Measured
<1>5. Laid([i \in 1..1 |-> 0])' /\ Held([i \in 1..1 |-> 0])'
  BY <1>1 DEF Laid, Held, Skip
<1>6. cells' \in [Cells(Size) -> Nat] /\ Writing' /\ Reading' /\ Padded' /\ Waits'
  BY <1>1 DEF IInv, Writing, Busy, Reading, Padded, Waits
<1>7. Filled' /\ Placed'
  BY <1>4, <1>5 DEF Filled, Placed
<1> QED
  BY <1>3, <1>6, <1>7 DEF IInv

\* ... and when it throws only the queue.
LEMMA ThrowInv ==
  ASSUME IInv, ClearThrows
  PROVE  IInv'
<1>1. /\ packets' = <<>> /\ Len(packets') = 0 /\ padding' = 0 /\ clearThrew' = TRUE
      /\ reader # "processing"
      /\ UNCHANGED <<writeOffset, readOffset, contiguous, cells, eod, failed, writer, writing,
                     offer, stored, reader, discardOnOverflow>>
  BY DEF ClearThrows, bufferVars, ringVars, endVars, writerVars
<1>2. TypeOK'
  BY <1>1, SizeAssumption DEF IInv, TypeOK, RingTypeOK
<1>3. DataSize' \in Nat
  BY <1>1, TypeOrdered, RegionSizes, SizeAssumption DEF IInv, DataSize
<1>4. Measured([i \in 1..1 |-> 0])'
  BY <1>1, <1>3 DEF Measured
<1>5. Filled' /\ Placed'
  BY <1>1, <1>4 DEF Filled, Placed
<1>6. cells' \in [Cells(Size) -> Nat] /\ Writing' /\ Reading' /\ Padded' /\ Waits'
  BY <1>1 DEF IInv, Writing, Busy, Reading, Padded, Waits, WriterSize, Empty, Ended
<1> QED
  BY <1>2, <1>5, <1>6 DEF IInv

\* So the invariant is kept by every step ...
LEMMA NextInv == IInv /\ [Next]_vars => IInv'
<1> SUFFICES ASSUME IInv, [Next]_vars PROVE IInv'
  OBVIOUS
<1>1. CASE UNCHANGED vars
  <2>1. UNCHANGED <<writeOffset, readOffset, contiguous, cells, eod, failed, packets, padding,
                    writer, writing, offer, stored, reader, discardOnOverflow, clearThrew>>
    BY <1>1 DEF vars, bufferVars, ringVars, endVars, writerVars, ruleVars
  <2>2. Filled' /\ Placed'
    BY <2>1, Same DEF IInv
  <2> QED
    BY <2>1, <2>2 DEF IInv, TypeOK, RingTypeOK, Writing, Reading, Padded, Waits, Busy, Empty,
                      Ended, WriterSize, ReaderSize
<1>2. CASE ReadEnd
  BY <1>1, <1>2 DEF ReadEnd
<1> QED
  BY <1>1, <1>2, PadInv, BeginInv, CopyInv, StoreInv, SkipInv, FoundInv, TakeInv, WaitInv,
     QuietInv, ClearInv, ThrowInv DEF Next

\* ... also where RingBuffers uses the other buffer, and holds in every state.
LEMMA Invariance == RingsSpec => []IInv
<1>1. RingsInit => IInv
  BY InitInv DEF RingsInit
<1>2. [RingsNext]_allVars => [Next]_vars
  BY DEF RingsNext, allVars
<1>3. IInv /\ [RingsNext]_allVars => IInv'
  BY <1>2, NextInv
<1> QED
  BY <1>1, <1>3, PTL DEF RingsSpec

-----------------------------------------------------------------------------
(* What the invariant implies *)

(***************************************************************************)
(* As long as no Clear() throws, Read finds the packet it looks for in one *)
(* piece behind the padding, never less ("Reader size is lesser than       *)
(* packet size", PacketBuffer.h:74-83), and while the consumer has it      *)
(* without the mutex no writer, and no wrap of the ring, gets at its bytes *)
(* (PacketBuffer.h:85-88, 112-148), for every size of storage and packets. *)
(***************************************************************************)
THEOREM PacketsStayInPlaceAlways == RingsSpec => []PacketsStayInPlace
<1>1. IInv => PacketsStayInPlace
  <2> SUFFICES ASSUME IInv PROVE PacketsStayInPlace
    OBVIOUS
  <2>1. Ordered
    BY TypeOrdered DEF IInv
  <2>2. ReaderFindsPacket
    <3> SUFFICES ASSUME ~Empty, ~clearThrew
                 PROVE  Head(packets).size <=
                            (IF AtPadding THEN IF contiguous THEN 0 ELSE writeOffset
                             ELSE ReaderSize)
      BY DEF ReaderFindsPacket
    <3>1. PICK pos : Laid(pos)
      BY DEF IInv, Placed
    <3>2. /\ Len(packets) \in Nat /\ Len(packets) >= 1 /\ Head(packets) = packets[1]
          /\ AtPadding => pos[1] = Size /\ ~contiguous
          /\ ~AtPadding => pos[1] = readOffset
      BY <3>1, FirstPacket DEF IInv
    <3>3. 1 \in 1..Len(packets)
      BY <3>2
    <3>4. packets[1].size \in 1..Size
      BY <3>3, PacketSize DEF IInv
    <3>5. pos[1] + packets[1].size <= readOffset + DataSize /\ pos[1] \in Nat
      <4>1. /\ pos[1] \in Nat /\ pos[1 + 1] \in Nat
            /\ pos[1] + packets[1].size <= pos[1 + 1] /\ pos[1 + 1] <= readOffset + DataSize
        BY <3>1, <3>3, Within DEF IInv
      <4>2. readOffset + DataSize \in Nat
        BY <2>1, RegionSizes, SizeAssumption DEF Ordered, Cells
      <4> QED
        BY <3>4, <4>1, <4>2, SizeAssumption
    <3>6. pos[1] >= Size \/ pos[1] + packets[1].size <= Size
      <4>1. pos[1] >= Size \/ pos[1] + packets[1].size <= Size - padding
        BY <3>1, <3>3 DEF Laid
      <4>2. padding \in Nat
        BY SizeAssumption DEF IInv, TypeOK
      <4> QED
        BY <3>4, <3>5, <4>1, <4>2, SizeAssumption
    <3> USE SizeAssumption DEF Ordered, Cells, DataSize, ReaderSize
    <3>7. CASE AtPadding
      BY <2>1, <3>2, <3>4, <3>5, <3>7
    <3>8. CASE ~AtPadding /\ contiguous
      BY <2>1, <3>2, <3>4, <3>5, <3>8
    <3>9. CASE ~AtPadding /\ ~contiguous
      BY <2>1, <3>2, <3>4, <3>6, <3>9
    <3> QED
      BY <3>7, <3>8, <3>9
  <2>3. ConsumerSeesItsPacket
    <3> SUFFICES ASSUME reader = "processing", ~clearThrew,
                        NEW c \in Region(readOffset, Head(packets).size)
                 PROVE  c \in Cells(Size) /\ cells[c] = Head(packets).id
      BY DEF ConsumerSeesItsPacket
    <3>1. PICK pos : Laid(pos) /\ Held(pos)
      BY DEF IInv, Placed
    <3>2. /\ Skip(padding, readOffset) = readOffset /\ packets # <<>>
          /\ Head(packets).size \in 1..ReaderSize
      BY DEF IInv, Reading, TypeOK
    <3>3. /\ Head(packets) = packets[1] /\ 1 \in 1..Len(packets) /\ pos[1] = readOffset
      BY <3>1, <3>2, FirstPacket DEF IInv, Empty
    <3>4. /\ c \in Cells(Size) /\ c \in Nat /\ readOffset <= c
          /\ c < readOffset + Head(packets).size
      BY <2>1, <3>2, SizeAssumption DEF Region, ReaderSize, Ordered, Cells
    <3>5. cells[Place(c)] = packets[1].id
      BY <3>1, <3>3, <3>4 DEF Held
    <3> QED
      BY <3>3, <3>4, <3>5, SizeAssumption DEF Place, Cells
  <2> QED
    BY <2>2, <2>3 DEF PacketsStayInPlace
<1> QED
  BY <1>1, Invariance, PTL

(***************************************************************************)
(* Where no packet is larger than half of the storage, rounded up, a       *)
(* writer waits only while a packet is there whose reading will wake it,   *)
(* whatever padding it needs, and a reader only while there is none and    *)
(* the data have not ended (PacketBuffer.h:60-71, 116-131). Larger packets *)
(* may wait for room in an empty buffer for ever.                          *)
(***************************************************************************)
THEOREM WaitersWillBeWokenAlways ==
  ASSUME \A n \in Sizes : 2 * n <= Size + 1
  PROVE  RingsSpec => []WaitersWillBeWoken
<1>1. IInv => WaitersWillBeWoken
  BY DEF IInv, Waits, WaitersWillBeWoken
<1> QED
  BY <1>1, Invariance, PTL

-----------------------------------------------------------------------------
(* The refinement of FifoBuffer *)

\* The numbers of the packets in the queue q.
Ids(q) == [i \in 1..Len(q) |-> q[i].id]

\* There is room in the abstract buffer for what the ring has room for: each
\* packet takes a byte at least.
LEMMA QueueFits ==
  ASSUME IInv, Busy
  PROVE  Len(packets) \in Nat /\ Len(packets) + 1 <= Size
<1> DEFINE n == Len(packets)
<1>1. n \in Nat
  BY DEF IInv, TypeOK
<1>2. offer[writer] \in 1..WriterSize /\ Ordered
  BY TypeOrdered DEF IInv, Writing
<1>3. DataSize \in 0..Size /\ WriterSize \in 0..Size /\ DataSize + WriterSize <= Size
  BY <1>2, RegionSizes
<1>4. PICK low : Measured(low)
  BY DEF IInv, Filled
<1>5. 1 \in 1..n + 1 /\ n + 1 \in 1..n + 1 /\ 1 <= n + 1
  BY <1>1
<1>6. /\ low[1] \in Nat /\ low[n + 1] \in Nat /\ low[n + 1] - low[1] >= (n + 1) - 1
      /\ low[n + 1] + padding <= DataSize
  BY <1>4, <1>5 DEF Measured
<1>7. padding \in Nat /\ Size \in Nat
  BY SizeAssumption DEF IInv, TypeOK
<1> QED
  BY <1>1, <1>2, <1>3, <1>6, <1>7

\* The buffer begins empty.
LEMMA InitRefines == Init => Fifo!Init
<1> SUFFICES ASSUME Init PROVE Fifo!Init
  OBVIOUS
<1>1. Len(packets) = 0 /\ stored = 0
  BY DEF Init
<1>2. Ids(packets) = <<>>
  BY <1>1 DEF Ids
<1> QED
  BY <1>1, <1>2 DEF Fifo!Init, Ids

\* A packet goes in when it is queued ...
LEMMA StoreRefines ==
  ASSUME IInv, EndStore
  PROVE  Fifo!Next
<1> DEFINE n == Len(packets)
           new == [i \in 1..1 |-> stored + i]
<1>1. /\ stored' = stored + 1 /\ Busy
      /\ packets' = Append(packets, [id |-> stored + 1, size |-> offer[writer]])
  BY DEF EndStore, Busy
<1>2. n \in Nat /\ n + 1 <= Size
  BY <1>1, QueueFits
<1>3. /\ Len(packets') = n + 1 /\ packets'[n + 1].id = stored + 1
      /\ \A i \in 1..n : packets'[i] = packets[i]
  BY <1>1, Queued DEF IInv
<1>4. /\ Ids(packets) \in Seq(Nat) /\ Len(Ids(packets)) = n
      /\ \A i \in 1..n : Ids(packets)[i] = packets[i].id
  BY <1>2, PacketSize DEF IInv, Ids
<1>5. stored \in Nat
  BY WritersAssumption DEF IInv, TypeOK
<1>6. new \in Seq(Nat) /\ Len(new) = 1 /\ new[1] = stored + 1
  BY <1>5
<1>7. Ids(packets') = Ids(packets) \o new
  <2>1. /\ Ids(packets) \o new \in Seq(Nat) /\ Len(Ids(packets) \o new) = n + 1
        /\ \A i \in 1..(n + 1) : (Ids(packets) \o new)[i] =
                IF i <= n THEN Ids(packets)[i] ELSE new[i - n]
    <3> DEFINE old == Ids(packets)
    <3>1. old \in Seq(Nat) /\ Len(old) = n /\ n \in Nat
      BY <1>2, <1>4
    <3> HIDE DEF old, new, n
    <3>2. /\ old \o new \in Seq(Nat) /\ Len(old \o new) = Len(old) + Len(new)
          /\ \A i \in 1..(Len(old) + Len(new)) : (old \o new)[i] =
                IF i <= Len(old) THEN old[i] ELSE new[i - Len(old)]
      BY <1>6, <3>1, ConcatProperties
    <3>3. Len(old) + Len(new) = n + 1
      BY <1>6, <3>1
    <3> QED
      BY <1>6, <3>1, <3>2, <3>3 DEF old
  <2>2. ASSUME NEW i \in 1..(n + 1) PROVE packets'[i].id = (Ids(packets) \o new)[i]
    <3>1. CASE i <= n
      <4>1. i \in 1..n
        BY <1>2, <3>1
      <4> QED
        BY <1>3, <1>4, <2>1, <3>1, <4>1
    <3>2. CASE ~(i <= n)
      <4>1. i = n + 1 /\ i - n = 1
        BY <1>2, <3>2
      <4> QED
        BY <1>3, <1>6, <2>1, <3>2, <4>1
    <3> QED
      BY <3>1, <3>2
  <2>3. DOMAIN (Ids(packets) \o new) = 1..(n + 1)
    BY <2>1, <1>2
  <2>4. Ids(packets) \o new = [i \in 1..(n + 1) |-> (Ids(packets) \o new)[i]]
    BY ONLY <1>2, <2>1
  <2>5. Ids(packets') = [i \in 1..(n + 1) |-> packets'[i].id]
    BY <1>3 DEF Ids
  <2> HIDE DEF new
  <2> QED
    BY <2>2, <2>4, <2>5
<1>8. Len(Ids(packets)) + 1 <= Size
  BY <1>2, <1>4
<1> HIDE DEF new
<1>9. Fifo!Put(1)
  BY <1>1, <1>7, <1>8 DEF Fifo!Put, Ids, new
<1>10. 1 \in 1..Size
  BY SizeAssumption
<1> QED
  BY <1>9, <1>10 DEF Fifo!Next

\* ... and comes out when its consumer has processed it.
LEMMA TakeRefines ==
  ASSUME IInv, EndRead
  PROVE  Fifo!Next
<1> DEFINE n == Len(packets)
<1>1. packets' = Tail(packets) /\ stored' = stored /\ packets # <<>>
  BY DEF EndRead, IInv, TypeOK
<1>2. /\ n \in Nat /\ n >= 1 /\ Len(packets') = n - 1
      /\ \A i \in 1..n - 1 : packets'[i] = packets[i + 1]
  BY <1>1, Taken DEF IInv
<1>3. /\ Ids(packets) \in Seq(Nat) /\ Len(Ids(packets)) = n
      /\ \A i \in 1..n : Ids(packets)[i] = packets[i].id
  BY <1>2, PacketSize DEF IInv, Ids
<1>4. /\ SubSeq(Ids(packets), 2, n) = [i \in 1..(n - 1) |-> Ids(packets)[i + 1]]
  BY ONLY <1>2, <1>3
<1>5. \A i \in 1..(n - 1) : packets'[i].id = Ids(packets)[i + 1]
  <2> TAKE i \in 1..(n - 1)
  <2>1. i + 1 \in 1..n
    BY <1>2
  <2> QED
    BY <1>2, <1>3, <2>1
<1>6. Ids(packets') = [i \in 1..(n - 1) |-> packets'[i].id]
  BY <1>2 DEF Ids
<1>7. Ids(packets') = SubSeq(Ids(packets), 1 + 1, Len(Ids(packets))) /\ 1 <= Len(Ids(packets))
  <2>1. Ids(packets') = SubSeq(Ids(packets), 2, n)
    BY <1>4, <1>5, <1>6
  <2> QED
    BY <1>2, <1>3, <2>1
<1>8. Fifo!Take(1)
  BY <1>1, <1>7 DEF Fifo!Take, Ids
<1>9. 1 \in 1..Size
  BY SizeAssumption
<1> QED
  BY <1>8, <1>9 DEF Fifo!Next

\* Clear leaves nothing, also when it throws.
LEMMA ClearRefines ==
  ASSUME Clear \/ ClearThrows
  PROVE  Fifo!Next
<1>1. Len(packets') = 0 /\ stored' = stored
  BY DEF Clear, ClearThrows, writerVars
<1>2. Ids(packets') = <<>>
  BY <1>1 DEF Ids
<1> QED
  BY <1>1, <1>2 DEF Fifo!Next, Fifo!Clear, Ids

\* Every step is one of FifoBuffer, or changes nothing there.
LEMMA NextRefines == IInv /\ [Next]_vars => [Fifo!Next]_Fifo!vars
<1> SUFFICES ASSUME IInv, [Next]_vars PROVE [Fifo!Next]_Fifo!vars
  OBVIOUS
<1>1. ASSUME UNCHANGED <<packets, stored>> PROVE UNCHANGED Fifo!vars
  BY <1>1 DEF Fifo!vars
<1>2. ASSUME NEW p \in Writers,
             \/ GiveUp(p) \/ BeginStore(p) \/ Discard(p) \/ WaitFull(p)
             \/ \E n \in Sizes : Offer(p, n)
      PROVE  UNCHANGED <<packets, stored>>
  BY <1>2 DEF GiveUp, BeginStore, Discard, WaitFull, Offer
<1>3. CASE CopyPacket \/ StopWaitFull \/ WaitEmpty \/ StopWaitEmpty \/ BeginRead \/ RefuseRead
           \/ End \/ ReadEnd \/ UNCHANGED vars
  BY <1>1, <1>3 DEF CopyPacket, StopWaitFull, WaitEmpty, StopWaitEmpty, BeginRead, RefuseRead,
                    End, ReadEnd, vars, writerVars
<1> QED
  BY <1>1, <1>2, <1>3, StoreRefines, TakeRefines, ClearRefines DEF Next

(***************************************************************************)
(* PacketBuffer implements FifoBuffer: packets come out in the order they  *)
(* were queued in, each once, none before its bytes are there, and never   *)
(* more than there are bytes of storage, also when Clear() throws          *)
(* (PacketBuffer.h:85-98, 138-148, 194-202).                               *)
(***************************************************************************)
THEOREM PacketsImplementFifo == RingsSpec => ImplementsFifo
<1>1. RingsInit => Fifo!Init
  BY InitRefines DEF RingsInit
<1>2. [RingsNext]_allVars => [Next]_vars
  BY DEF RingsNext, allVars
<1>3. IInv /\ [RingsNext]_allVars => [Fifo!Next]_Fifo!vars
  BY <1>2, NextRefines
<1> QED
  BY <1>1, <1>3, Invariance, PTL DEF RingsSpec, ImplementsFifo, Fifo!Spec

-----------------------------------------------------------------------------
(* DataBuffer *)

\* What is assumed of its constants.
LEMMA CapacityIs == Capacity \in Nat \ {0}
  BY ByteAssumptions DEF Bytes!SizeAssumption

LEMMA BytePackets ==
    /\ InputPacket \in Nat \ {0} /\ Capacity % InputPacket = 0
    /\ OutputPacket \in Nat \ {0} /\ Capacity % OutputPacket = 0
    /\ RequiredFree \in 0..Capacity
    /\ DataSizes \subseteq Nat \ {0}
    /\ \A t \in Thresholds : t \in 1..Capacity - 1 /\ t % OutputPacket = 0
  BY ByteAssumptions DEF Bytes!PacketAssumption

LEMMA ByteBounds == NoWriter \notin Writers /\ MaxBytes \in Nat
  BY ByteAssumptions DEF Bytes!WritersAssumption

\* The writer's data fill whole packets and a part of its region.
PuttingBytes ==
    /\ \A p \in Writers : bOffer[p] % InputPacket = 0
    /\ bWriting \in {"copying", "copied"} =>
        /\ bSize \in 1..Bytes!WriterSize /\ bSize % InputPacket = 0
        /\ bSize <= bOffer[bWriter]
        /\ bPut + bSize <= MaxBytes
    /\ bWriting = "copied" =>
        \A i \in 1..bSize : bCells[bWriteOffset + i - 1] = bPut + i

\* What the consumer reads are whole packets within its region.
TakingBytes ==
    bReader = "processing" => bWanted \in 1..Bytes!ReaderSize /\ bWanted % OutputPacket = 0

BytesInv ==
    /\ Bytes!TypeOK
    /\ bCells \in [Bytes!Cells(Capacity) -> Nat]
    /\ PuttingBytes
    /\ TakingBytes

-----------------------------------------------------------------------------
(* Whole packets *)

\* A number of whole packets is a multiple of the packet, ...
LEMMA Quotient ==
  ASSUME NEW p \in Nat \ {0}, NEW a \in Int, a % p = 0
  PROVE  \E q \in Int : a = p * q
  BY SMTT(30)

\* ... and the other way round.
LEMMA Multiple ==
  ASSUME NEW p \in Nat \ {0}, NEW q \in Int
  PROVE  (p * q) % p = 0
  BY SMTT(30)

\* Whole packets after, or without, whole packets are whole packets.
LEMMA WholePackets ==
  ASSUME NEW p \in Nat \ {0}, NEW a \in Int, NEW b \in Int, a % p = 0, b % p = 0
  PROVE  (a + b) % p = 0 /\ (a - b) % p = 0
<1>1. PICK q \in Int : a = p * q
  BY Quotient
<1>2. PICK r \in Int : b = p * r
  BY Quotient
<1>3. p * (q + r) = a + b /\ p * (q - r) = a - b
  BY <1>1, <1>2, SMTT(30)
<1>4. (p * (q + r)) % p = 0 /\ (p * (q - r)) % p = 0
  BY Multiple
<1> QED
  BY <1>3, <1>4

\* Packetized rounds down to whole packets.
LEMMA Rounding ==
  ASSUME NEW p \in Nat \ {0}, NEW n \in Nat
  PROVE  Bytes!Packetized(n, p) \in 0..n /\ Bytes!Packetized(n, p) % p = 0
<1>1. n % p \in 0..n
  BY SMTT(30)
<1>2. n - (n % p) = p * (n \div p) /\ n \div p \in Int
  BY SMTT(30)
<1> QED
  BY <1>1, <1>2, Multiple DEF Bytes!Packetized

-----------------------------------------------------------------------------
(* The ring of the DataBuffer *)

\* Offsets in order, as RingTypeOK has them.
BytesOrdered ==
    /\ bWriteOffset \in Bytes!Cells(Capacity) /\ bReadOffset \in Bytes!Cells(Capacity)
    /\ bContiguous \in BOOLEAN
    /\ IF bContiguous THEN bReadOffset <= bWriteOffset ELSE bWriteOffset <= bReadOffset

\* The sizes of what is held and of both regions.
LEMMA ByteRegions ==
  ASSUME BytesOrdered
  PROVE  /\ Bytes!DataSize \in 0..Capacity
         /\ Bytes!WriterSize \in 0..Capacity /\ Bytes!DataSize + Bytes!WriterSize <= Capacity
         /\ Bytes!ReaderSize \in 0..Bytes!DataSize
  BY CapacityIs DEF BytesOrdered, Bytes!Cells, Bytes!DataSize, Bytes!WriterSize,
                    Bytes!ReaderSize

\* A Push adds what it is told to, and does not make the reader's region smaller.
LEMMA BytesPushed ==
  ASSUME BytesOrdered, NEW n \in 1..Bytes!WriterSize, Bytes!PushBytes(n)
  PROVE  /\ BytesOrdered'
         /\ Bytes!DataSize' = Bytes!DataSize + n
         /\ Bytes!ReaderSize \in Int /\ Bytes!ReaderSize' \in Int
         /\ Bytes!ReaderSize' >= Bytes!ReaderSize
<1> USE CapacityIs DEF Bytes!Cells, Bytes!DataSize, Bytes!ReaderSize, Bytes!WriterSize,
                       Bytes!Wrapped
<1>1. CASE bContiguous
  <2>1. /\ n \in 1..(Capacity - bWriteOffset) /\ bReadOffset <= bWriteOffset
        /\ bWriteOffset \in 0..Capacity - 1 /\ bReadOffset \in 0..Capacity - 1
    BY <1>1 DEF BytesOrdered
  <2>2. CASE bWriteOffset + n = Capacity
    <3>1. /\ bWriteOffset' = 0 /\ ~bContiguous' /\ bContiguous' \in BOOLEAN
          /\ bReadOffset' = bReadOffset
      BY <1>1, <2>2 DEF Bytes!PushBytes, BytesOrdered
    <3> QED
      BY <1>1, <2>1, <2>2, <3>1 DEF BytesOrdered
  <2>3. CASE bWriteOffset + n # Capacity
    <3>1. bWriteOffset' = bWriteOffset + n /\ bContiguous' = TRUE /\ bReadOffset' = bReadOffset
      BY <1>1, <2>3 DEF Bytes!PushBytes, BytesOrdered
    <3> QED
      BY <1>1, <2>1, <2>3, <3>1 DEF BytesOrdered
  <2> QED
    BY <2>2, <2>3
<1>2. CASE ~bContiguous
  <2>1. /\ n \in 1..(bReadOffset - bWriteOffset)
        /\ bWriteOffset \in 0..Capacity - 1 /\ bReadOffset \in 0..Capacity - 1
    BY <1>2 DEF BytesOrdered
  <2>2. bWriteOffset + n # Capacity
    BY <2>1
  <2>3. /\ bWriteOffset' = bWriteOffset + n /\ ~bContiguous' /\ bContiguous' \in BOOLEAN
          /\ bReadOffset' = bReadOffset
    BY <1>2, <2>2 DEF Bytes!PushBytes, BytesOrdered
  <2> QED
    BY <1>2, <2>1, <2>3 DEF BytesOrdered
<1> QED
  BY <1>1, <1>2

\* A Pop takes away what it is told to, and does not make the writer's smaller.
LEMMA BytesPopped ==
  ASSUME BytesOrdered, NEW n \in 1..Bytes!ReaderSize, Bytes!PopBytes(n)
  PROVE  /\ BytesOrdered'
         /\ Bytes!DataSize' = Bytes!DataSize - n
         /\ Bytes!WriterSize \in Int /\ Bytes!WriterSize' \in Int
         /\ Bytes!WriterSize' >= Bytes!WriterSize
<1> USE CapacityIs DEF Bytes!Cells, Bytes!DataSize, Bytes!ReaderSize, Bytes!WriterSize,
                       Bytes!Wrapped
<1>1. CASE bContiguous
  <2>1. /\ n \in 1..(bWriteOffset - bReadOffset)
        /\ bWriteOffset \in 0..Capacity - 1 /\ bReadOffset \in 0..Capacity - 1
    BY <1>1 DEF BytesOrdered
  <2>2. bReadOffset + n # Capacity
    BY <2>1
  <2>3. bReadOffset' = bReadOffset + n /\ bContiguous' = TRUE /\ bWriteOffset' = bWriteOffset
    BY <1>1, <2>2 DEF Bytes!PopBytes, BytesOrdered
  <2> QED
    BY <1>1, <2>1, <2>3 DEF BytesOrdered
<1>2. CASE ~bContiguous
  <2>1. /\ n \in 1..(Capacity - bReadOffset) /\ bWriteOffset <= bReadOffset
        /\ bWriteOffset \in 0..Capacity - 1 /\ bReadOffset \in 0..Capacity - 1
    BY <1>2 DEF BytesOrdered
  <2>2. CASE bReadOffset + n = Capacity
    <3>1. bReadOffset' = 0 /\ bContiguous' = TRUE /\ bWriteOffset' = bWriteOffset
      BY <1>2, <2>2 DEF Bytes!PopBytes, BytesOrdered
    <3> QED
      BY <1>2, <2>1, <2>2, <3>1 DEF BytesOrdered
  <2>3. CASE bReadOffset + n # Capacity
    <3>1. /\ bReadOffset' = bReadOffset + n /\ ~bContiguous' /\ bContiguous' \in BOOLEAN
          /\ bWriteOffset' = bWriteOffset
      BY <1>2, <2>3 DEF Bytes!PopBytes, BytesOrdered
    <3> QED
      BY <1>2, <2>1, <2>3, <3>1 DEF BytesOrdered
  <2> QED
    BY <2>2, <2>3
<1> QED
  BY <1>1, <1>2

-----------------------------------------------------------------------------
(* Its invariant *)

\* The types have the offsets in order.
LEMMA BytesTypeOrdered == ASSUME Bytes!TypeOK PROVE BytesOrdered
  BY DEF Bytes!TypeOK, Bytes!RingTypeOK, BytesOrdered

\* The invariant holds at the start ...
LEMMA BytesInit == Bytes!Init => BytesInv
<1> SUFFICES ASSUME Bytes!Init PROVE BytesInv
  OBVIOUS
<1> USE CapacityIs, BytePackets, ByteBounds DEF Bytes!Init, Bytes!RingInit, Bytes!Cells
<1>1. 0 % InputPacket = 0 /\ 0 % OutputPacket = 0
  BY SMTT(30)
<1>2. Bytes!RingTypeOK
  <2>1. DOMAIN bCells = Bytes!Cells(Capacity)
    OBVIOUS
  <2>2. /\ bContiguous /\ bContiguous \in BOOLEAN
        /\ ~bEod /\ bEod \in BOOLEAN /\ ~bFailed /\ bFailed \in BOOLEAN
    OBVIOUS
  <2>3. /\ bWriteOffset \in Bytes!Cells(Capacity) /\ bReadOffset \in Bytes!Cells(Capacity)
        /\ bReadOffset <= bWriteOffset
    OBVIOUS
  <2> QED
    BY ONLY <2>1, <2>2, <2>3 DEF Bytes!RingTypeOK
<1>3. Bytes!TypeOK
  BY <1>1, <1>2 DEF Bytes!TypeOK
<1> QED
  BY <1>1, <1>3 DEF BytesInv, PuttingBytes, TakingBytes

\* What a writer is about to copy fits into its region, in whole packets.
LEMMA Chosen ==
  ASSUME BytesInv, NEW p \in Writers, bOffer[p] # 0, ~Bytes!Overflow
  PROVE  /\ Bytes!ToWrite(p) \in 1..Bytes!WriterSize
         /\ Bytes!ToWrite(p) % InputPacket = 0
         /\ Bytes!ToWrite(p) <= bOffer[p]
<1> DEFINE room == Bytes!Packetized(Bytes!WriterSize, InputPacket)
<1>1. Bytes!WriterSize \in Nat
  BY ByteRegions, BytesTypeOrdered, CapacityIs DEF BytesInv
<1>2. room \in 0..Bytes!WriterSize /\ room % InputPacket = 0
  BY <1>1, Rounding, BytePackets
<1>3. room # 0
  BY DEF Bytes!Overflow
<1>4. bOffer[p] \in Nat /\ bOffer[p] % InputPacket = 0
  BY DEF BytesInv, Bytes!TypeOK, PuttingBytes
<1>5. Bytes!ToWrite(p) = IF bOffer[p] < room THEN bOffer[p] ELSE room
  BY DEF Bytes!ToWrite
<1> HIDE DEF room
<1> QED
  BY <1>1, <1>2, <1>3, <1>4, <1>5

\* ... and is kept by the steps of the writers that leave the ring alone, ...
LEMMA WriterKeeps ==
  ASSUME BytesInv, NEW p \in Writers,
         \/ \E n \in DataSizes : Bytes!Offer(p, n)
         \/ Bytes!GiveUp(p) \/ Bytes!BeginPut(p) \/ Bytes!Discard(p) \/ Bytes!WaitFull(p)
  PROVE  BytesInv'
<1> USE DEF Bytes!Cells
<1>1. /\ UNCHANGED <<bWriteOffset, bReadOffset, bContiguous, bCells, bEod, bFailed>>
      /\ UNCHANGED <<bReader, bWanted, bPut, bDiscard>>
      /\ p # NoWriter
  BY ByteBounds DEF Bytes!Offer, Bytes!GiveUp, Bytes!BeginPut, Bytes!Discard,
                    Bytes!WaitFull, Bytes!bufferVars, Bytes!ringVars, Bytes!endVars,
                    Bytes!readerVars
<1>2. 0 % InputPacket = 0
  BY BytePackets, SMTT(30)
<1>3. /\ Bytes!RingTypeOK' /\ Bytes!WriterSize' = Bytes!WriterSize
      /\ Bytes!ReaderSize' = Bytes!ReaderSize
  BY <1>1 DEF BytesInv, Bytes!TypeOK, Bytes!RingTypeOK, Bytes!WriterSize, Bytes!ReaderSize
<1>4. TakingBytes' /\ bCells' \in [Bytes!Cells(Capacity) -> Nat]
  BY <1>1, <1>3 DEF BytesInv, TakingBytes
<1>5. CASE Bytes!Discard(p) \/ Bytes!GiveUp(p) \/ \E n \in DataSizes : Bytes!Offer(p, n)
  <2>1. PICK n \in Nat : bOffer' = [bOffer EXCEPT ![p] = n] /\ n % InputPacket = 0
    BY <1>2, <1>5, BytePackets DEF Bytes!Discard, Bytes!GiveUp, Bytes!Offer
  <2>2. /\ UNCHANGED <<bWriter, bWriting, bSize>>
        /\ bWriter = p => bOffer[p] = 0
    BY <1>1, <1>5 DEF Bytes!Discard, Bytes!GiveUp, Bytes!Offer
  <2>3. Bytes!TypeOK'
    BY <1>1, <1>3, <2>1, <2>2 DEF BytesInv, Bytes!TypeOK
  <2>4. PuttingBytes'
    <3>1. bWriting \in {"copying", "copied"} => bOffer[bWriter] # 0 /\ bWriter \in Writers
      BY ByteRegions, BytesTypeOrdered DEF BytesInv, Bytes!TypeOK, PuttingBytes
    <3>2. bWriting \in {"copying", "copied"} => bOffer'[bWriter] = bOffer[bWriter]
      BY <2>1, <2>2, <3>1 DEF BytesInv, Bytes!TypeOK
    <3> QED
      BY <1>1, <1>3, <2>1, <2>2, <3>2 DEF BytesInv, Bytes!TypeOK, PuttingBytes
  <2> QED
    BY <1>4, <2>3, <2>4 DEF BytesInv
<1>6. CASE Bytes!BeginPut(p)
  <2>1. /\ Bytes!ToWrite(p) \in 1..Bytes!WriterSize /\ Bytes!ToWrite(p) % InputPacket = 0
        /\ Bytes!ToWrite(p) <= bOffer[p]
    BY <1>6, Chosen DEF Bytes!BeginPut
  <2>2. /\ bWriter' = p /\ bWriting' = "copying" /\ bSize' = Bytes!ToWrite(p)
        /\ bPut + Bytes!ToWrite(p) <= MaxBytes /\ bOffer' = bOffer
    BY <1>6 DEF Bytes!BeginPut
  <2>3. Bytes!ToWrite(p) \in 0..Capacity
    BY <2>1, ByteRegions, BytesTypeOrdered, CapacityIs DEF BytesInv
  <2>4. Bytes!TypeOK'
    BY <1>1, <1>3, <2>2, <2>3 DEF BytesInv, Bytes!TypeOK
  <2>5. PuttingBytes'
    BY <1>1, <1>3, <2>1, <2>2 DEF BytesInv, Bytes!TypeOK, PuttingBytes
  <2> QED
    BY <1>4, <2>4, <2>5 DEF BytesInv
<1>7. CASE Bytes!WaitFull(p)
  <2>1. Bytes!TypeOK' /\ PuttingBytes'
    BY <1>1, <1>3, <1>7 DEF Bytes!WaitFull, BytesInv, Bytes!TypeOK, PuttingBytes
  <2> QED
    BY <1>4, <2>1 DEF BytesInv
<1> QED
  BY <1>5, <1>6, <1>7

\* ... what the writer copies, which is then in its region, ...
LEMMA CopyKeeps ==
  ASSUME BytesInv, Bytes!CopyData
  PROVE  BytesInv'
<1>1. /\ UNCHANGED <<bWriteOffset, bReadOffset, bContiguous, bEod, bFailed>>
      /\ UNCHANGED <<bWriter, bSize, bOffer, bPut, bReader, bWanted, bDiscard>>
      /\ bWriting = "copying" /\ bWriting' = "copied"
  BY DEF Bytes!CopyData, Bytes!ringVars, Bytes!endVars, Bytes!readerVars
<1>2. bSize \in Nat /\ bPut \in Nat /\ bWriteOffset \in Nat
  BY ByteBounds DEF BytesInv, Bytes!TypeOK, Bytes!RingTypeOK, Bytes!Cells
<1>3. bCells' = [c \in Bytes!Cells(Capacity) |-> IF c \in Bytes!Region(bWriteOffset, bSize)
                               THEN bPut + (c - bWriteOffset + 1) ELSE bCells[c]]
  <2> DEFINE new == [i \in 1..bSize |-> bPut + i]
  <2>1. Len(new) = bSize
    BY <1>2
  <2>2. ASSUME NEW c \in Bytes!Region(bWriteOffset, bSize)
        PROVE  new[c - bWriteOffset + 1] = bPut + (c - bWriteOffset + 1)
    BY <1>2 DEF Bytes!Region
  <2>3. Bytes!Copy(bWriteOffset, new)
    BY DEF Bytes!CopyData
  <2> HIDE DEF new
  <2>4. bCells' = [c \in Bytes!Cells(Capacity) |-> IF c \in Bytes!Region(bWriteOffset, bSize)
                                 THEN new[c - bWriteOffset + 1] ELSE bCells[c]]
    BY <2>1, <2>3 DEF Bytes!Copy
  <2> QED
    BY <2>2, <2>4
<1>5. bCells' \in [Bytes!Cells(Capacity) -> Nat]
  BY <1>2, <1>3 DEF BytesInv, Bytes!Region
<1>6. /\ Bytes!RingTypeOK' /\ Bytes!WriterSize' = Bytes!WriterSize
      /\ Bytes!ReaderSize' = Bytes!ReaderSize
  BY <1>1, <1>5 DEF BytesInv, Bytes!TypeOK, Bytes!RingTypeOK, Bytes!WriterSize,
                    Bytes!ReaderSize, Bytes!Cells
<1>7. Bytes!TypeOK' /\ TakingBytes'
  BY <1>1, <1>6 DEF BytesInv, Bytes!TypeOK, TakingBytes
<1>8. PuttingBytes'
  <2>1. ASSUME NEW i \in 1..bSize PROVE bCells'[bWriteOffset + i - 1] = bPut + i
    <3>1. bWriteOffset + i - 1 \in Bytes!Cells(Capacity)
      BY <1>1, CapacityIs DEF BytesInv, Bytes!TypeOK, Bytes!RingTypeOK, PuttingBytes,
                              Bytes!WriterSize, Bytes!Cells
    <3> QED
      BY <1>2, <1>3, <3>1 DEF Bytes!Region
  <2> QED
    BY <1>1, <1>6, <2>1 DEF BytesInv, PuttingBytes
<1> QED
  BY <1>5, <1>7, <1>8 DEF BytesInv

\* ... what it then pushes, ...
LEMMA PutKeeps ==
  ASSUME BytesInv, Bytes!EndPut
  PROVE  BytesInv'
<1>1. /\ bWriting = "copied" /\ Bytes!PushBytes(bSize)
      /\ bPut' = bPut + bSize /\ bOffer' = [bOffer EXCEPT ![bWriter] = @ - bSize]
      /\ bWriter' = NoWriter /\ bWriting' = "none"
      /\ UNCHANGED <<bCells, bEod, bFailed, bSize, bWanted, bDiscard>>
  BY DEF Bytes!EndPut, Bytes!endVars
<1>2. bReader' \in {bReader, "idle"}
  BY DEF Bytes!EndPut, Bytes!WakeReader
<1>3. /\ bSize \in 1..Bytes!WriterSize /\ bSize % InputPacket = 0
      /\ bSize <= bOffer[bWriter] /\ bPut + bSize <= MaxBytes
      /\ bWriter \in Writers /\ bSize \in Nat
  BY <1>1 DEF BytesInv, PuttingBytes, Bytes!TypeOK
<1>4. /\ BytesOrdered' /\ Bytes!ReaderSize \in Int /\ Bytes!ReaderSize' \in Int
      /\ Bytes!ReaderSize' >= Bytes!ReaderSize
  BY <1>1, <1>3, BytesPushed, BytesTypeOrdered DEF BytesInv
<1>5. Bytes!RingTypeOK'
  BY <1>1, <1>4 DEF BytesInv, Bytes!TypeOK, Bytes!RingTypeOK, BytesOrdered
<1>6. bWriteOffset' % InputPacket = 0 /\ bReadOffset' = bReadOffset
  <2>1. bWriteOffset \in Int /\ bWriteOffset % InputPacket = 0
    BY DEF BytesInv, Bytes!TypeOK, Bytes!RingTypeOK, Bytes!Cells
  <2>2. (bWriteOffset + bSize) % InputPacket = 0
    <3>1. /\ InputPacket \in Nat \ {0}
          /\ bSize \in Int /\ bSize % InputPacket = 0
      BY <1>3, BytePackets
    <3> QED
      BY <2>1, <3>1, WholePackets
  <2>3. 0 % InputPacket = 0
    BY BytePackets, SMTT(30)
  <2> QED
    BY <1>1, <2>2, <2>3 DEF Bytes!PushBytes, Bytes!Wrapped
<1>7. bOffer' \in [Writers -> Nat] /\ \A p \in Writers : bOffer'[p] % InputPacket = 0
  <2>1. bOffer[bWriter] - bSize \in Nat /\ (bOffer[bWriter] - bSize) % InputPacket = 0
    BY <1>3, WholePackets, BytePackets DEF BytesInv, Bytes!TypeOK, PuttingBytes
  <2> QED
    BY <1>1, <1>3, <2>1 DEF BytesInv, Bytes!TypeOK, PuttingBytes
<1>8. Bytes!TypeOK'
  BY <1>1, <1>2, <1>3, <1>5, <1>6, <1>7, ByteBounds DEF BytesInv, Bytes!TypeOK
<1>9. PuttingBytes' /\ TakingBytes'
  BY <1>1, <1>2, <1>4, <1>7 DEF BytesInv, PuttingBytes, TakingBytes
<1> QED
  BY <1>1, <1>8, <1>9 DEF BytesInv

\* ... and the steps of the reader that leave the ring alone.
LEMMA ReaderKeeps ==
  ASSUME BytesInv,
         \/ Bytes!StopWaitFull \/ Bytes!WaitEmpty \/ Bytes!StopWaitEmpty
         \/ Bytes!BeginRead \/ Bytes!RefuseRead \/ Bytes!End
         \/ \E t \in Thresholds : Bytes!WaitForData(t)
  PROVE  BytesInv'
<1> DEFINE same == UNCHANGED <<bWriteOffset, bReadOffset, bContiguous, bCells, bSize, bOffer,
                               bPut, bDiscard>>
<1>1. same /\ (UNCHANGED <<bWriter, bWriting>> \/ (bWriting' = "none" /\ bWriter' = NoWriter))
  BY DEF Bytes!StopWaitFull, Bytes!WakeWriter, Bytes!WaitEmpty, Bytes!StopWaitEmpty,
         Bytes!BeginRead, Bytes!RefuseRead, Bytes!End, Bytes!WaitForData, Bytes!bufferVars,
         Bytes!ringVars, Bytes!writerVars
<1>2. /\ bEod' \in BOOLEAN /\ bFailed' \in BOOLEAN /\ ~(bEod' /\ bFailed')
  <2>1. CASE Bytes!End
    <3>1. /\ bEod \in BOOLEAN /\ bFailed \in BOOLEAN /\ ~bEod /\ ~bFailed
          /\ \/ bEod' /\ bEod' \in BOOLEAN /\ bFailed' = bFailed
             \/ bFailed' /\ bFailed' \in BOOLEAN /\ bEod' = bEod
      BY <2>1 DEF Bytes!End, Bytes!Ended, Bytes!SetEndOfData, Bytes!SetException, BytesInv,
                  Bytes!TypeOK, Bytes!RingTypeOK
    <3> QED
      BY <3>1
  <2>2. CASE ~Bytes!End
    BY <2>2 DEF Bytes!StopWaitFull, Bytes!WaitEmpty, Bytes!StopWaitEmpty, Bytes!BeginRead,
                Bytes!RefuseRead, Bytes!WaitForData, Bytes!bufferVars, Bytes!endVars,
                Bytes!readerVars, BytesInv, Bytes!TypeOK, Bytes!RingTypeOK
  <2> QED
    BY <2>1, <2>2
<1>3. /\ Bytes!RingTypeOK' /\ Bytes!WriterSize' = Bytes!WriterSize
      /\ Bytes!ReaderSize' = Bytes!ReaderSize
  BY <1>1, <1>2 DEF BytesInv, Bytes!TypeOK, Bytes!RingTypeOK, Bytes!WriterSize,
                    Bytes!ReaderSize, Bytes!Cells
<1>4. PuttingBytes' /\ bCells' \in [Bytes!Cells(Capacity) -> Nat]
  BY <1>1, <1>3 DEF BytesInv, PuttingBytes
<1>5. /\ bReader' \in {"idle", "waiting", "awaiting", "processing"}
      /\ bWanted' \in 0..Capacity
      /\ bReader' = "processing" =>
            bWanted' \in 1..Bytes!ReaderSize /\ bWanted' % OutputPacket = 0
  <2>1. CASE Bytes!BeginRead
    <3>1. Bytes!ReaderSize \in 0..Capacity
      BY ByteRegions, BytesTypeOrdered, CapacityIs DEF BytesInv
    <3>2. Bytes!Readable \in 0..Bytes!ReaderSize /\ Bytes!Readable % OutputPacket = 0
      <4>1. Bytes!ReaderSize \in Nat /\ OutputPacket \in Nat \ {0}
        BY <3>1, BytePackets, CapacityIs
      <4> QED
        BY <4>1, Rounding DEF Bytes!Readable
    <3>3. bReader' = "processing" /\ bWanted' = Bytes!Readable /\ Bytes!Readable > 0
      BY <2>1 DEF Bytes!BeginRead
    <3> QED
      BY <3>1, <3>2, <3>3, CapacityIs
  <2>2. CASE \E t \in Thresholds : Bytes!WaitForData(t)
    BY <2>2, BytePackets, CapacityIs DEF Bytes!WaitForData
  <2>3. CASE \/ Bytes!StopWaitFull \/ Bytes!WaitEmpty \/ Bytes!StopWaitEmpty
             \/ Bytes!RefuseRead \/ Bytes!End
    <3>1. bWanted' = bWanted /\ bReader' \in {bReader, "idle", "waiting"}
      BY <2>3 DEF Bytes!StopWaitFull, Bytes!WaitEmpty, Bytes!StopWaitEmpty,
                  Bytes!RefuseRead, Bytes!End, Bytes!WakeReader, Bytes!readerVars
    <3> QED
      BY <3>1 DEF BytesInv, Bytes!TypeOK, TakingBytes
  <2> QED
    BY <2>1, <2>2, <2>3
<1>6. Bytes!TypeOK' /\ TakingBytes'
  BY <1>1, <1>3, <1>5 DEF BytesInv, Bytes!TypeOK, TakingBytes
<1> QED
  BY <1>4, <1>6 DEF BytesInv

\* What the consumer has processed is whole packets of what it was given.
LEMMA Processed ==
  ASSUME BytesInv, NEW n \in 1..Capacity, Bytes!EndRead(n)
  PROVE  \E m \in 1..Bytes!ReaderSize : Bytes!PopBytes(m) /\ m % OutputPacket = 0
<1> DEFINE m == IF n % OutputPacket = 0 THEN n ELSE bWanted
<1>1. /\ n <= bWanted /\ Bytes!PopBytes(m) /\ bWanted \in 1..Bytes!ReaderSize
      /\ bWanted % OutputPacket = 0
  BY DEF Bytes!EndRead, BytesInv, TakingBytes
<1>2. Bytes!ReaderSize \in Int
  BY ByteRegions, BytesTypeOrdered, CapacityIs DEF BytesInv
<1>3. m \in 1..Bytes!ReaderSize /\ m % OutputPacket = 0
  BY <1>1, <1>2, CapacityIs
<1> QED
  BY <1>1, <1>3

\* What is taken makes room.
LEMMA TakeKeeps ==
  ASSUME BytesInv, NEW n \in 1..Capacity, Bytes!EndRead(n)
  PROVE  BytesInv'
<1>1. PICK m \in 1..Bytes!ReaderSize : Bytes!PopBytes(m) /\ m % OutputPacket = 0
  BY Processed
<1>2. /\ bReader' = "idle"
      /\ UNCHANGED <<bCells, bEod, bFailed, bSize, bOffer, bPut, bWanted, bDiscard>>
      /\ UNCHANGED <<bWriter, bWriting>> \/ (bWriting' = "none" /\ bWriter' = NoWriter)
  BY DEF Bytes!EndRead, Bytes!WakeWriter, Bytes!endVars
<1>3. /\ BytesOrdered' /\ Bytes!WriterSize \in Int /\ Bytes!WriterSize' \in Int
      /\ Bytes!WriterSize' >= Bytes!WriterSize
  BY <1>1, BytesPopped, BytesTypeOrdered DEF BytesInv
<1>4. Bytes!RingTypeOK'
  BY <1>2, <1>3 DEF BytesInv, Bytes!TypeOK, Bytes!RingTypeOK, BytesOrdered
<1>5. bReadOffset' % OutputPacket = 0 /\ bWriteOffset' = bWriteOffset
  <2>1. bReadOffset \in Int /\ bReadOffset % OutputPacket = 0
    BY DEF BytesInv, Bytes!TypeOK, Bytes!RingTypeOK, Bytes!Cells
  <2>2. OutputPacket \in Nat \ {0} /\ m \in Int
    BY BytePackets, ByteRegions, BytesTypeOrdered, CapacityIs DEF BytesInv
  <2>3. (bReadOffset + m) % OutputPacket = 0
    BY <1>1, <2>1, <2>2, WholePackets
  <2>4. 0 % OutputPacket = 0
    BY <2>2, SMTT(30)
  <2> QED
    BY <1>1, <2>3, <2>4 DEF Bytes!PopBytes, Bytes!Wrapped
<1>6. Bytes!TypeOK'
  BY <1>2, <1>4, <1>5 DEF BytesInv, Bytes!TypeOK
<1>7. PuttingBytes' /\ TakingBytes'
  BY <1>2, <1>3, <1>5 DEF BytesInv, PuttingBytes, TakingBytes
<1> QED
  BY <1>2, <1>6, <1>7 DEF BytesInv

\* Nobody is at work when the buffer is cleared.
LEMMA ClearKeeps ==
  ASSUME BytesInv, Bytes!Clear
  PROVE  BytesInv'
<1> USE CapacityIs DEF Bytes!Clear, Bytes!ClearRing, Bytes!writerVars, Bytes!Cells
<1>1. 0 % InputPacket = 0 /\ 0 % OutputPacket = 0
  BY BytePackets, SMTT(30)
<1>2. Bytes!RingTypeOK'
  <2>1. DOMAIN bCells' = Bytes!Cells(Capacity)
    BY DEF BytesInv, Bytes!TypeOK, Bytes!RingTypeOK
  <2>2. /\ bContiguous' /\ bContiguous' \in BOOLEAN
        /\ ~bEod' /\ bEod' \in BOOLEAN /\ ~bFailed' /\ bFailed' \in BOOLEAN
    OBVIOUS
  <2>3. /\ bWriteOffset' \in Bytes!Cells(Capacity)
        /\ bReadOffset' \in Bytes!Cells(Capacity) /\ bReadOffset' <= bWriteOffset'
    OBVIOUS
  <2> QED
    BY ONLY <2>1, <2>2, <2>3 DEF Bytes!RingTypeOK
<1>3. /\ Bytes!TypeOK' /\ PuttingBytes' /\ TakingBytes'
      /\ bCells' \in [Bytes!Cells(Capacity) -> Nat]
  BY <1>1, <1>2 DEF BytesInv, Bytes!TypeOK, PuttingBytes, TakingBytes
<1> QED
  BY <1>3 DEF BytesInv

\* So it is kept by every step ...
LEMMA BytesNext == BytesInv /\ [Bytes!Next]_(Bytes!vars) => BytesInv'
<1> SUFFICES ASSUME BytesInv, [Bytes!Next]_(Bytes!vars) PROVE BytesInv'
  OBVIOUS
<1>1. CASE UNCHANGED Bytes!vars
  BY <1>1 DEF Bytes!vars, Bytes!bufferVars, Bytes!ringVars, Bytes!endVars, Bytes!writerVars,
              Bytes!readerVars, BytesInv, Bytes!TypeOK, Bytes!RingTypeOK, PuttingBytes,
              TakingBytes, Bytes!WriterSize, Bytes!ReaderSize, Bytes!Cells
<1>2. CASE Bytes!ReadEnd
  BY <1>1, <1>2 DEF Bytes!ReadEnd
<1> QED
  BY <1>1, <1>2, WriterKeeps, CopyKeeps, PutKeeps, ReaderKeeps, TakeKeeps, ClearKeeps
     DEF Bytes!Next

\* ... also where RingBuffers uses the other buffer, and holds in every state.
LEMMA BytesInvariance == RingsSpec => []BytesInv
<1>1. RingsInit => BytesInv
  BY BytesInit DEF RingsInit
<1>2. [RingsNext]_allVars => [Bytes!Next]_(Bytes!vars)
  <2>1. UNCHANGED byteVars => UNCHANGED Bytes!vars
    BY DEF byteVars, Bytes!vars, Bytes!bufferVars, Bytes!ringVars, Bytes!endVars,
           Bytes!writerVars, Bytes!readerVars
  <2> QED
    BY <2>1, Zenon DEF RingsNext, allVars
<1>3. BytesInv /\ [RingsNext]_allVars => BytesInv'
  BY <1>2, BytesNext
<1> QED
  BY <1>1, <1>3, PTL DEF RingsSpec

(***************************************************************************)
(* What the writer copies to and what the consumer reads meanwhile, both   *)
(* without the mutex, are within the storage and have no byte in common,   *)
(* whatever the other side pushes or pops (BufferedDataConsumer.cpp:46-52, *)
(* BufferedDataSource.cpp:40-55, BithreadCircularBuffer.cpp:54-85).        *)
(***************************************************************************)
THEOREM BytesStayApartAlways == RingsSpec => []BytesStayApart
<1>1. BytesInv => BytesStayApart
  <2> SUFFICES ASSUME BytesInv PROVE BytesStayApart
    OBVIOUS
  <2> USE CapacityIs DEF Bytes!Region, Bytes!Cells, Bytes!WriterSize, Bytes!ReaderSize
  <2>1. Bytes!TypeOK /\ BytesOrdered
    BY BytesTypeOrdered DEF BytesInv
  <2>2. bWriting \in {"copying", "copied"} =>
            Bytes!Region(bWriteOffset, bSize) \subseteq Bytes!Cells(Capacity)
    BY <2>1 DEF BytesInv, PuttingBytes, BytesOrdered
  <2>3. bReader = "processing" =>
            Bytes!Region(bReadOffset, bWanted) \subseteq Bytes!Cells(Capacity)
    BY <2>1 DEF BytesInv, TakingBytes, BytesOrdered
  <2>4. bWriting \in {"copying", "copied"} /\ bReader = "processing" =>
            Bytes!Region(bWriteOffset, bSize) \cap Bytes!Region(bReadOffset, bWanted) = {}
    BY <2>1, SMTT(30) DEF BytesInv, PuttingBytes, TakingBytes, BytesOrdered
  <2> QED
    BY <2>1, <2>2, <2>3, <2>4 DEF BytesStayApart, Bytes!RegionsApart
<1> QED
  BY <1>1, BytesInvariance, PTL

-----------------------------------------------------------------------------
(* Its refinement of FifoBuffer *)

\* The n bytes of the storage c from offset r on, and where the i-th of them is.
Slice(c, r, n) == [i \in 1..n |-> c[(r + i - 1) % Capacity]]
At(r, i) == IF r + i - 1 < Capacity THEN r + i - 1 ELSE r + i - 1 - Capacity

\* An index goes round the storage once at most.
LEMMA Modulo ==
  ASSUME NEW s \in Nat \ {0}, NEW n \in Nat, n < 2 * s
  PROVE  n % s = IF n < s THEN n ELSE n - s
  BY SMTT(30)

\* A slice is a sequence of what is in these places.
LEMMA SliceIs ==
  ASSUME NEW c \in [Bytes!Cells(Capacity) -> Nat], NEW r \in Bytes!Cells(Capacity),
         NEW n \in 0..Capacity
  PROVE  /\ Slice(c, r, n) \in Seq(Nat)
         /\ Len(Slice(c, r, n)) = n
         /\ \A i \in 1..n : /\ At(r, i) \in Bytes!Cells(Capacity)
                            /\ Slice(c, r, n)[i] = c[At(r, i)]
<1>1. Capacity \in Nat \ {0} /\ r \in 0..Capacity - 1 /\ n \in Nat
  BY CapacityIs DEF Bytes!Cells
<1>2. ASSUME NEW i \in 1..n
      PROVE  /\ At(r, i) \in Bytes!Cells(Capacity) /\ (r + i - 1) % Capacity = At(r, i)
             /\ c[At(r, i)] \in Nat
  <2>1. r + i - 1 \in Nat /\ r + i - 1 < 2 * Capacity
    BY <1>1
  <2>2. (r + i - 1) % Capacity = At(r, i)
    <3> DEFINE k == r + i - 1
    <3>1. Capacity \in Nat \ {0} /\ k \in Nat /\ k < 2 * Capacity
      BY <1>1, <2>1
    <3> HIDE DEF k
    <3>2. k % Capacity = IF k < Capacity THEN k ELSE k - Capacity
      BY <3>1, Modulo
    <3> QED
      BY <1>1, <3>2 DEF At, k
  <2>3. At(r, i) \in Bytes!Cells(Capacity)
    BY <1>1, <2>1 DEF At, Bytes!Cells
  <2> QED
    BY <2>2, <2>3
<1>3. Slice(c, r, n) = [i \in 1..n |-> c[At(r, i)]]
  BY <1>2 DEF Slice
<1> QED
  BY <1>1, <1>2, <1>3

\* What is copied outside them leaves them as they are.
LEMMA SliceStays ==
  ASSUME NEW c \in [Bytes!Cells(Capacity) -> Nat],
         NEW d \in [Bytes!Cells(Capacity) -> Nat], NEW r \in Bytes!Cells(Capacity),
         NEW n \in 0..Capacity, \A i \in 1..n : d[At(r, i)] = c[At(r, i)]
  PROVE  Slice(d, r, n) = Slice(c, r, n)
<1>1. \A i \in 1..n : Slice(d, r, n)[i] = Slice(c, r, n)[i]
  BY SliceIs
<1> QED
  BY <1>1 DEF Slice

\* They and the m bytes behind them.
LEMMA SliceGrows ==
  ASSUME NEW c \in [Bytes!Cells(Capacity) -> Nat], NEW r \in Bytes!Cells(Capacity),
         NEW n \in 0..Capacity, NEW m \in 0..Capacity,
         n + m <= Capacity, NEW t \in Seq(Nat), Len(t) = m,
         \A i \in 1..m : c[At(r, n + i)] = t[i]
  PROVE  Slice(c, r, n + m) = Slice(c, r, n) \o t
<1> DEFINE s == Slice(c, r, n)
           u == Slice(c, r, n + m)
<1>1. n \in Nat /\ m \in Nat /\ n + m \in 0..Capacity
  BY CapacityIs
<1>2. s \in Seq(Nat) /\ Len(s) = n /\ \A i \in 1..n : s[i] = c[At(r, i)]
  BY SliceIs
<1>3. u \in Seq(Nat) /\ Len(u) = n + m /\ \A i \in 1..(n + m) : u[i] = c[At(r, i)]
  BY <1>1, SliceIs
<1> HIDE DEF s, u
<1>4. /\ s \o t \in Seq(Nat) /\ Len(s \o t) = n + m
      /\ \A i \in 1..(n + m) : (s \o t)[i] = IF i <= n THEN s[i] ELSE t[i - n]
  <2>1. /\ s \o t \in Seq(Nat) /\ Len(s \o t) = Len(s) + Len(t)
        /\ \A i \in 1..(Len(s) + Len(t)) :
              (s \o t)[i] = IF i <= Len(s) THEN s[i] ELSE t[i - Len(s)]
    BY <1>2, ConcatProperties
  <2> QED
    BY <1>2, <2>1
<1>5. ASSUME NEW i \in 1..(n + m) PROVE u[i] = (s \o t)[i]
  <2>1. CASE i <= n
    <3>1. i \in 1..n
      BY <1>1, <2>1
    <3> QED
      BY <1>2, <1>3, <1>4, <2>1, <3>1
  <2>2. CASE ~(i <= n)
    <3>1. i - n \in 1..m /\ n + (i - n) = i
      BY <1>1, <2>2
    <3>2. c[At(r, i)] = t[i - n]
      BY <3>1
    <3> QED
      BY <1>3, <1>4, <2>2, <3>2
  <2> QED
    BY <2>1, <2>2
<1>6. u = s \o t
  BY <1>3, <1>4, <1>5, SeqEqual
<1> QED
  BY <1>6 DEF s, u

\* They without the first m.
LEMMA SliceShrinks ==
  ASSUME NEW c \in [Bytes!Cells(Capacity) -> Nat], NEW r \in Bytes!Cells(Capacity),
         NEW n \in 0..Capacity, NEW m \in 0..n,
         NEW q \in Bytes!Cells(Capacity), m < n => q = At(r, m + 1)
  PROVE  Slice(c, q, n - m) = SubSeq(Slice(c, r, n), m + 1, n)
<1> DEFINE s == Slice(c, r, n)
           u == Slice(c, q, n - m)
<1>1. n \in Nat /\ m \in Nat /\ n - m \in 0..Capacity
  BY CapacityIs
<1>2. s \in Seq(Nat) /\ Len(s) = n /\ \A i \in 1..n : s[i] = c[At(r, i)]
  BY SliceIs
<1>3. u \in Seq(Nat) /\ Len(u) = n - m /\ \A i \in 1..(n - m) : u[i] = c[At(q, i)]
  BY <1>1, SliceIs
<1>4. \A i \in 1..(n - m) : At(q, i) = At(r, m + i)
  BY <1>1, CapacityIs DEF At, Bytes!Cells
<1> HIDE DEF s, u
<1>5. \A i \in 1..(n - m) : u[i] = s[m + i]
  <2> TAKE i \in 1..(n - m)
  <2>1. m + i \in 1..n
    BY <1>1
  <2> QED
    BY <1>2, <1>3, <1>4, <2>1
<1>6. /\ SubSeq(s, m + 1, n) \in Seq(Nat) /\ Len(SubSeq(s, m + 1, n)) = n - m
      /\ \A i \in 1..(n - m) : SubSeq(s, m + 1, n)[i] = s[m + i]
  BY <1>1, <1>2
<1>7. u = SubSeq(s, m + 1, n)
  BY <1>3, <1>5, <1>6, SeqEqual
<1> QED
  BY <1>7 DEF s, u

\* The bytes that the buffer holds.
HeldBytes == Slice(bCells, bReadOffset, Bytes!DataSize)

\* A slice of nothing is empty.
LEMMA EmptySlice ==
  ASSUME NEW c, NEW r
  PROVE  Slice(c, r, 0) = <<>>
  BY DEF Slice

\* The buffer begins empty.
LEMMA BytesInitRefines == Bytes!Init => Bytes!Fifo!Init
<1> SUFFICES ASSUME Bytes!Init PROVE Bytes!Fifo!Init
  OBVIOUS
<1>1. Bytes!DataSize = 0 /\ bPut = 0
  BY DEF Bytes!Init, Bytes!RingInit, Bytes!DataSize
<1>2. HeldBytes = <<>>
  BY <1>1, EmptySlice DEF HeldBytes
<1> QED
  BY <1>1, <1>2 DEF Bytes!Fifo!Init, HeldBytes, Slice

\* Most steps leave the bytes where they are, ...
LEMMA BytesStay ==
  ASSUME UNCHANGED <<bWriteOffset, bReadOffset, bContiguous, bCells, bPut>>
  PROVE  UNCHANGED Bytes!Fifo!vars
  BY DEF Bytes!Fifo!vars, Bytes!DataSize

\* ... and copying into the writer's region is not seen by the reader.
LEMMA CopyRefines ==
  ASSUME BytesInv, Bytes!CopyData
  PROVE  UNCHANGED Bytes!Fifo!vars
<1>1. BytesOrdered /\ Bytes!DataSize \in 0..Capacity /\ bSize \in 1..Bytes!WriterSize
  BY BytesTypeOrdered, ByteRegions DEF BytesInv, PuttingBytes, Bytes!CopyData
<1>2. /\ UNCHANGED <<bWriteOffset, bReadOffset, bContiguous, bPut>>
      /\ Bytes!DataSize' = Bytes!DataSize
  BY DEF Bytes!CopyData, Bytes!ringVars, Bytes!DataSize
<1>3. \A k \in Bytes!Cells(Capacity) :
            k \notin Bytes!Region(bWriteOffset, bSize) => bCells'[k] = bCells[k]
  <2> DEFINE new == [i \in 1..bSize |-> bPut + i]
  <2>1. bSize \in Nat
    BY <1>1, ByteRegions, CapacityIs
  <2>2. Len(new) = bSize
    BY <2>1
  <2>3. Bytes!Copy(bWriteOffset, new)
    BY DEF Bytes!CopyData
  <2> HIDE DEF new
  <2> QED
    BY <2>2, <2>3 DEF Bytes!Copy
<1>4. ASSUME NEW i \in 1..Bytes!DataSize
      PROVE  /\ At(bReadOffset, i) \in Bytes!Cells(Capacity)
             /\ At(bReadOffset, i) \notin Bytes!Region(bWriteOffset, bSize)
  <2> USE CapacityIs DEF At, Bytes!Region, Bytes!Cells, Bytes!DataSize, Bytes!WriterSize,
                         BytesOrdered
  <2>1. CASE bContiguous
    BY <1>1, <2>1
  <2>2. CASE ~bContiguous
    BY <1>1, <2>2
  <2> QED
    BY <2>1, <2>2
<1>5. bCells \in [Bytes!Cells(Capacity) -> Nat] /\ bCells' \in [Bytes!Cells(Capacity) -> Nat]
  BY CopyKeeps DEF BytesInv
<1>6. Slice(bCells', bReadOffset, Bytes!DataSize) = Slice(bCells, bReadOffset, Bytes!DataSize)
  BY <1>1, <1>3, <1>4, <1>5, SliceStays DEF BytesOrdered
<1> QED
  BY <1>2, <1>6 DEF Bytes!Fifo!vars, Slice

\* The end of a Push puts in what was copied.
LEMMA PutRefines ==
  ASSUME BytesInv, Bytes!EndPut
  PROVE  Bytes!Fifo!Next
<1>1. /\ bWriting = "copied" /\ Bytes!PushBytes(bSize) /\ bCells' = bCells
      /\ bPut' = bPut + bSize
      /\ bPut \in Nat
  BY ByteBounds DEF Bytes!EndPut, BytesInv, Bytes!TypeOK
<1>2. /\ BytesOrdered /\ bSize \in 1..Bytes!WriterSize
      /\ bCells \in [Bytes!Cells(Capacity) -> Nat]
      /\ \A i \in 1..bSize : bCells[bWriteOffset + i - 1] = bPut + i
  BY <1>1, BytesTypeOrdered DEF BytesInv, PuttingBytes
<1>3. /\ Bytes!DataSize \in 0..Capacity /\ bSize \in 1..Capacity
      /\ Bytes!DataSize + bSize <= Capacity
      /\ bSize \in 0..Capacity
  BY <1>2, ByteRegions, CapacityIs
<1>4. Bytes!DataSize' = Bytes!DataSize + bSize /\ bReadOffset' = bReadOffset
  BY <1>1, <1>2, BytesPushed DEF Bytes!PushBytes
<1> DEFINE new == [i \in 1..bSize |-> bPut + i]
<1>5. new \in Seq(Nat) /\ Len(new) = bSize
  BY <1>1, <1>3, CapacityIs
<1>6. ASSUME NEW i \in 1..bSize PROVE bCells[At(bReadOffset, Bytes!DataSize + i)] = new[i]
  <2>1. At(bReadOffset, Bytes!DataSize + i) = bWriteOffset + i - 1
    <3> USE CapacityIs DEF At, Bytes!Cells, Bytes!DataSize, Bytes!WriterSize, BytesOrdered
    <3>1. CASE bContiguous
      BY <1>2, <3>1
    <3>2. CASE ~bContiguous
      BY <1>2, <3>2
    <3> QED
      BY <3>1, <3>2
  <2> QED
    BY <1>2, <2>1
<1> HIDE DEF new
<1>7. Slice(bCells, bReadOffset, Bytes!DataSize + bSize) = HeldBytes \o new
  BY <1>2, <1>3, <1>5, <1>6, SliceGrows DEF BytesOrdered, HeldBytes
<1>8. HeldBytes' = HeldBytes \o new /\ Len(HeldBytes) = Bytes!DataSize
  BY <1>1, <1>2, <1>3, <1>4, <1>7, SliceIs DEF HeldBytes, BytesOrdered
<1>9. PICK n \in 1..Capacity : n = bSize
  BY <1>3
<1>10. Bytes!Fifo!Put(n)
  BY <1>1, <1>3, <1>8, <1>9 DEF Bytes!Fifo!Put, HeldBytes, Slice, new
<1> QED
  BY <1>10 DEF Bytes!Fifo!Next

\* What the consumer has processed is taken out.
LEMMA BytesTakeRefines ==
  ASSUME BytesInv, NEW n \in 1..Capacity, Bytes!EndRead(n)
  PROVE  Bytes!Fifo!Next
<1>1. PICK m \in 1..Bytes!ReaderSize : Bytes!PopBytes(m)
  BY Processed
<1>2. /\ BytesOrdered /\ bCells \in [Bytes!Cells(Capacity) -> Nat] /\ bCells' = bCells
      /\ bPut' = bPut
  BY BytesTypeOrdered DEF BytesInv, Bytes!EndRead
<1>3. Bytes!DataSize \in 0..Capacity /\ m \in 1..Bytes!DataSize /\ m \in 1..Capacity
  BY <1>1, <1>2, ByteRegions, CapacityIs
<1>4. Bytes!DataSize' = Bytes!DataSize - m /\ bReadOffset' \in Bytes!Cells(Capacity)
  BY <1>1, <1>2, BytesPopped DEF BytesOrdered
<1>5. bReadOffset' = At(bReadOffset, m + 1)
  BY <1>1, <1>2, CapacityIs DEF Bytes!PopBytes, Bytes!Wrapped, At, BytesOrdered,
                                Bytes!Cells, Bytes!ReaderSize
<1>6. Slice(bCells, bReadOffset', Bytes!DataSize - m) = SubSeq(HeldBytes, m + 1, Bytes!DataSize)
  BY <1>2, <1>3, <1>4, <1>5, SliceShrinks DEF BytesOrdered, HeldBytes
<1>7. HeldBytes' = SubSeq(HeldBytes, m + 1, Len(HeldBytes)) /\ Len(HeldBytes) = Bytes!DataSize
  BY <1>2, <1>3, <1>4, <1>6, SliceIs DEF HeldBytes, BytesOrdered
<1>8. /\ m <= Len(HeldBytes) /\ HeldBytes' = SubSeq(HeldBytes, m + 1, Len(HeldBytes))
      /\ bPut' = bPut
  BY <1>2, <1>3, <1>7
<1>9. Bytes!Fifo!Take(m)
  BY <1>8, Zenon DEF Bytes!Fifo!Take, HeldBytes, Slice
<1> QED
  BY <1>3, <1>9 DEF Bytes!Fifo!Next

\* Clear leaves nothing.
LEMMA BytesClearRefines ==
  ASSUME Bytes!Clear
  PROVE  Bytes!Fifo!Next
<1>1. Bytes!DataSize' = 0 /\ bPut' = bPut
  BY DEF Bytes!Clear, Bytes!ClearRing, Bytes!writerVars, Bytes!DataSize
<1>2. HeldBytes' = <<>>
  BY <1>1, EmptySlice DEF HeldBytes
<1> QED
  BY <1>1, <1>2 DEF Bytes!Fifo!Next, Bytes!Fifo!Clear, HeldBytes, Slice

\* Every step is one of FifoBuffer, or changes nothing there.
LEMMA BytesNextRefines ==
        BytesInv /\ [Bytes!Next]_(Bytes!vars) => [Bytes!Fifo!Next]_(Bytes!Fifo!vars)
<1> SUFFICES ASSUME BytesInv, [Bytes!Next]_(Bytes!vars)
             PROVE  [Bytes!Fifo!Next]_(Bytes!Fifo!vars)
  OBVIOUS
<1>1. ASSUME NEW p \in Writers,
             \/ \E n \in DataSizes : Bytes!Offer(p, n)
             \/ Bytes!GiveUp(p) \/ Bytes!BeginPut(p) \/ Bytes!Discard(p) \/ Bytes!WaitFull(p)
      PROVE  UNCHANGED Bytes!Fifo!vars
  BY <1>1, BytesStay DEF Bytes!Offer, Bytes!GiveUp, Bytes!BeginPut, Bytes!Discard,
                         Bytes!WaitFull, Bytes!bufferVars, Bytes!ringVars
<1>2. CASE \/ Bytes!StopWaitFull \/ Bytes!WaitEmpty \/ Bytes!StopWaitEmpty
           \/ Bytes!BeginRead \/ Bytes!RefuseRead \/ Bytes!End
           \/ \E t \in Thresholds : Bytes!WaitForData(t)
  BY <1>2, BytesStay DEF Bytes!StopWaitFull, Bytes!WaitEmpty, Bytes!StopWaitEmpty,
                         Bytes!BeginRead, Bytes!RefuseRead, Bytes!End, Bytes!WaitForData,
                         Bytes!bufferVars, Bytes!ringVars, Bytes!writerVars
<1>3. CASE Bytes!ReadEnd \/ UNCHANGED Bytes!vars
  BY <1>3, BytesStay DEF Bytes!ReadEnd, Bytes!vars, Bytes!bufferVars, Bytes!ringVars,
                         Bytes!writerVars
<1> QED
  BY <1>1, <1>2, <1>3, CopyRefines, PutRefines, BytesTakeRefines, BytesClearRefines
     DEF Bytes!Next

(***************************************************************************)
(* DataBuffer implements FifoBuffer: bytes come out in the order they went *)
(* in, each once, however the ring wraps round and whatever each side does *)
(* without the mutex while the other one works (BufferedDataConsumer.cpp,  *)
(* BufferedDataSource.cpp, BithreadCircularBuffer.cpp:54-95).              *)
(***************************************************************************)
THEOREM BytesImplementFifoAlways == RingsSpec => BytesImplementFifo
<1>1. RingsInit => Bytes!Fifo!Init
  BY BytesInitRefines DEF RingsInit
<1>2. [RingsNext]_allVars => [Bytes!Next]_(Bytes!vars)
  <2>1. UNCHANGED byteVars => UNCHANGED Bytes!vars
    BY DEF byteVars, Bytes!vars, Bytes!bufferVars, Bytes!ringVars, Bytes!endVars,
           Bytes!writerVars, Bytes!readerVars
  <2> QED
    BY <2>1, Zenon DEF RingsNext, allVars
<1>3. BytesInv /\ [RingsNext]_allVars => [Bytes!Fifo!Next]_(Bytes!Fifo!vars)
  BY <1>2, BytesNextRefines
<1> QED
  BY <1>1, <1>3, BytesInvariance, PTL DEF RingsSpec, BytesImplementFifo,
                                          Bytes!ImplementsFifo, Bytes!Fifo!Spec

=============================================================================
