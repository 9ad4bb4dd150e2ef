------------------------- MODULE AsyncByteStream_proofs ------------------------
(***************************************************************************)
(* AsyncByteStream, for any configurations, any number of rings and writes *)
(* of any size: the worker never finds its pointers out of sync, waiting   *)
(* calls return when all is written, and the stream gets the content that  *)
(* the same writes made at once would give it.                             *)
(*                                                                         *)
(* The heart of the invariant is Shape, a relation of the operations that  *)
(* are not done to the rings: if one begins at the place that is read and  *)
(* follows them, from region to region and to the next ring where a        *)
(* PopBuffer is, one ends at the place that is written (Laid), and regions *)
(* of the same ring share no cell (RegionsHeld). Each way to change them   *)
(* has a lemma that says that Shape remains: an operation is queued, a     *)
(* region is used further, the first write is taken in part or as a whole, *)
(* the first ring is popped, one is added.                                 *)
(*                                                                         *)
(* For the content, OutcomeAt(stream, Pending, buffers, p) is what place p *)
(* will hold. The same changes keep it, but for the places of a write; a   *)
(* merged one changes no other since nothing behind it touches the region  *)
(* it is merged into.                                                      *)
(***************************************************************************)
EXTENDS AsyncByteStream, SequenceTheorems, WellFoundedInduction, TLAPS

Contents == Bytes \cup {Old, Junk}

OpType ==
    [op : {"Write", "Sync", "PopBuffer", "Stop", "NoOp"}, arg : Nat, ring : Nat,
     offset : Nat, size : Nat, used : Nat]

RingType ==
    [id : Nat, size : Nat \ {0}, write : Nat, read : Nat, contiguous : BOOLEAN,
     cells : UNION {[0 .. s - 1 -> Contents] : s \in Nat \ {0}}]

TypeOK ==
    /\ position \in Nat
    /\ queue \in Seq(OpType)
    /\ buffers \in Seq(RingType) /\ buffers # <<>>
    /\ config \in Configs
    /\ bufferCount \in Nat
    /\ syncNext \in Nat \ {0} /\ syncDone \in Nat
    /\ wasException \in BOOLEAN
    /\ worker \in {"ready", "writing", "synchronizing", "stopped", "failed"}
    /\ opData \in OpType
    /\ user \in {"idle", "called", "syncing", "closing", "closed"}
    /\ stream \in [Places -> Contents]
    /\ synced \in BOOLEAN
    /\ spent \subseteq Bytes

\* The ring of number id; the first of the rings is the oldest.
RingOf(rings, id) == rings[id - rings[1].id + 1]

Ids(rings) == rings[1].id .. rings[1].id + Len(rings) - 1

RingFormed(ring) ==
    /\ ring.read < ring.size /\ ring.write < ring.size
    /\ IF ring.contiguous THEN ring.read <= ring.write ELSE ring.write <= ring.read
    /\ ring.cells \in [0 .. ring.size - 1 -> Contents]

\* Rings are numbered in the order in which they are used; only the oldest one
\* is read.
RingsOrdered(rings) ==
    \A j \in 1 .. Len(rings) :
        /\ rings[j].id = rings[1].id + j - 1
        /\ j > 1 => rings[j].read = 0
        /\ RingFormed(rings[j])

\* A write uses a part of a region; the other operations have none.
OpsFormed(ops) ==
    \A i \in 1 .. Len(ops) :
        /\ ops[i].used <= ops[i].size
        /\ ops[i].size = 0 <=> ops[i].op # "Write"

\* A region lies in the data of a ring.
Within(op, ring) ==
    IF ring.contiguous
    THEN ring.read <= op.offset /\ op.offset + op.size <= ring.write
    ELSE \/ ring.read <= op.offset /\ op.offset + op.size <= ring.size
         \/ op.offset + op.size <= ring.write

Apart(op, other) ==
    \/ op.offset + op.size <= other.offset
    \/ other.offset + other.size <= op.offset

RegionsHeld(ops, rings) ==
    /\ \A i \in 1 .. Len(ops) : ops[i].op = "Write" =>
          ops[i].ring \in Ids(rings) /\ Within(ops[i], RingOf(rings, ops[i].ring))
    /\ \A i, j \in 1 .. Len(ops) :
          i # j /\ ops[i].op = "Write" /\ ops[j].op = "Write" /\ ops[i].ring = ops[j].ring
            => Apart(ops[i], ops[j])

\* Following the operations from the place that is read: at gives the ring and
\* the offset that each of them begins at, and where the last one ends.
Follows(op, from, to, rings) ==
    CASE op.op = "Write" ->
            /\ op.ring = from.ring /\ op.offset = from.offset
            /\ to.ring = from.ring
            /\ to.offset = Wrapped(RingOf(rings, from.ring), op.offset + op.size)
      [] op.op = "PopBuffer" -> to.ring = from.ring + 1 /\ to.offset = 0
      [] OTHER -> to = from

Laid(at, ops, rings) ==
    /\ at \in [1 .. Len(ops) + 1 -> [ring : Nat, offset : Nat]]
    /\ at[1].ring = rings[1].id /\ at[1].offset = rings[1].read
    /\ at[Len(ops) + 1].ring = rings[Len(rings)].id
    /\ at[Len(ops) + 1].offset = rings[Len(rings)].write
    /\ \A i, j \in 1 .. Len(ops) + 1 : i <= j => at[i].ring <= at[j].ring
    /\ \A i \in 1 .. Len(ops) : Follows(ops[i], at[i], at[i + 1], rings)

Shape(ops, rings) ==
    /\ RingsOrdered(rings)
    /\ OpsFormed(ops)
    /\ RegionsHeld(ops, rings)
    /\ \E at : Laid(at, ops, rings)

Ending == user \in {"closing", "closed"}

\* Behind the operation that a call waits for there is none: a Stop, or the
\* last Sync; Syncs are done in the order in which they were asked for.
StopIsLast ==
    /\ \A i \in 1 .. Len(queue) : queue[i].op = "Stop" => i = Len(queue) /\ Ending
    /\ worker = "stopped" => queue = <<>> /\ Ending
    /\ Ending /\ worker \notin {"stopped", "failed"} =>
          queue # <<>> /\ queue[Len(queue)].op = "Stop"

SyncsOrdered ==
    /\ syncDone < syncNext
    /\ worker = "synchronizing" => opData.op = "Sync" /\ opData.arg < syncNext
    /\ \A i \in 1 .. Len(queue) : queue[i].op = "Sync" =>
          /\ queue[i].arg < syncNext
          /\ worker = "synchronizing" => opData.arg < queue[i].arg
          /\ \A j \in 1 .. i - 1 : queue[j].op = "Sync" => queue[j].arg < queue[i].arg

SyncIsLast ==
    user = "syncing" =>
        \/ /\ worker = "ready" /\ queue = <<>> /\ synced
        \/ /\ queue # <<>> /\ queue[Len(queue)].op = "Sync"
           /\ queue[Len(queue)].arg = syncNext - 1
           /\ syncDone < syncNext - 1
        \/ /\ worker = "synchronizing" /\ queue = <<>>
           /\ opData.arg = syncNext - 1
           /\ syncDone < syncNext - 1

QueueOrdered == StopIsLast /\ SyncsOrdered /\ (~wasException => SyncIsLast)

WorkerAgrees ==
    /\ wasException <=> worker = "failed"
    /\ worker = "writing" => opData.op = "Write"

RingsCounted == buffers[1].id + Len(buffers) - 1 = bufferCount

Formed == Shape(Pending, buffers)

\* The inductive invariant.
IInv == TypeOK /\ WorkerAgrees /\ RingsCounted /\ Formed /\ QueueOrdered

-----------------------------------------------------------------------------

LEMMA Appended ==
    ASSUME NEW S, NEW s \in Seq(S), NEW e \in S
    PROVE  /\ Append(s, e) \in Seq(S)
           /\ Len(Append(s, e)) = Len(s) + 1
           /\ Append(s, e)[Len(s) + 1] = e
           /\ \A i \in 1 .. Len(s) : Append(s, e)[i] = s[i]
  BY AppendProperties

LEMMA Tailed ==
    ASSUME NEW S, NEW s \in Seq(S), s # <<>>
    PROVE  /\ Tail(s) \in Seq(S)
           /\ Len(s) \in Nat \ {0}
           /\ Len(Tail(s)) = Len(s) - 1
           /\ Head(s) = s[1] /\ s[1] \in S
           /\ \A i \in 1 .. Len(s) - 1 : Tail(s)[i] = s[i + 1]
  OBVIOUS

\* What follows depends on the sizes of the rings only.
LEMMA FollowsAlike ==
    ASSUME NEW op, NEW from, NEW to, NEW rings, NEW others,
           RingOf(rings, from.ring).size = RingOf(others, from.ring).size
    PROVE  Follows(op, from, to, rings) => Follows(op, from, to, others)
  BY DEF Follows, Wrapped

\* The places of the operations, and that behind one more of them.
LEMMA LaidFurther ==
    ASSUME NEW ops \in Seq(OpType), NEW rings, NEW others, NEW x \in OpType, NEW at,
           Laid(at, ops, rings),
           NEW end \in [ring : Nat, offset : Nat],
           others[1].id = rings[1].id, others[1].read = rings[1].read,
           \A i \in 1 .. Len(ops) : Follows(ops[i], at[i], at[i + 1], others),
           Follows(x, at[Len(ops) + 1], end, others),
           at[Len(ops) + 1].ring <= end.ring,
           end.ring = others[Len(others)].id, end.offset = others[Len(others)].write
    PROVE  \E b : Laid(b, Append(ops, x), others)
PROOF
<1> DEFINE more == Append(ops, x)
<1>1. /\ more \in Seq(OpType) /\ Len(more) = Len(ops) + 1 /\ Len(ops) \in Nat
      /\ more[Len(ops) + 1] = x /\ \A i \in 1 .. Len(ops) : more[i] = ops[i]
  BY Appended
<1> HIDE DEF more
<1> DEFINE later == [i \in 1 .. Len(more) + 1 |-> IF i <= Len(ops) + 1 THEN at[i] ELSE end]
<1>2. at \in [1 .. Len(ops) + 1 -> [ring : Nat, offset : Nat]]
  BY DEF Laid
<1>3. /\ later \in [1 .. Len(more) + 1 -> [ring : Nat, offset : Nat]]
      /\ \A i \in 1 .. Len(ops) + 1 : later[i] = at[i]
      /\ later[Len(ops) + 2] = end
  BY <1>1, <1>2
<1> HIDE DEF later
<1>4. \A i \in 1 .. Len(more) : Follows(more[i], later[i], later[i + 1], others)
  <2> SUFFICES ASSUME NEW i \in 1 .. Len(more)
               PROVE  Follows(more[i], later[i], later[i + 1], others)
    OBVIOUS
  <2>1. CASE i \in 1 .. Len(ops)
    <3>1. i \in 1 .. Len(ops) + 1 /\ i + 1 \in 1 .. Len(ops) + 1
      BY <1>1, <2>1
    <3>2. more[i] = ops[i] /\ later[i] = at[i] /\ later[i + 1] = at[i + 1]
      BY <1>1, <1>3, <2>1, <3>1
    <3> QED
      BY <2>1, <3>2
  <2>2. CASE i = Len(ops) + 1
    <3>1. i \in 1 .. Len(ops) + 1 /\ i + 1 = Len(ops) + 2
      BY <1>1, <2>2
    <3>2. more[i] = x /\ later[i] = at[Len(ops) + 1] /\ later[i + 1] = end
      BY <1>1, <1>3, <2>2, <3>1
    <3> QED
      BY <3>2
  <2> QED
    BY <1>1, <2>1, <2>2
<1>5. later[1] = at[1] /\ later[Len(more) + 1] = end
  BY <1>1, <1>3
<1>6. \A i, j \in 1 .. Len(more) + 1 : i <= j => later[i].ring <= later[j].ring
  <2> SUFFICES ASSUME NEW i \in 1 .. Len(more) + 1, NEW j \in 1 .. Len(more) + 1, i <= j
               PROVE  later[i].ring <= later[j].ring
    OBVIOUS
  <2>1. CASE j \in 1 .. Len(ops) + 1
    <3>1. i \in 1 .. Len(ops) + 1
      BY <1>1, <2>1
    <3>2. later[i] = at[i] /\ later[j] = at[j]
      BY <1>3, <2>1, <3>1
    <3> QED
      BY <2>1, <3>1, <3>2 DEF Laid
  <2>2. CASE j = Len(ops) + 2
    <3>1. CASE i = Len(ops) + 2
      BY <1>3, <2>2, <3>1
    <3>2. CASE i \in 1 .. Len(ops) + 1
      <4>1. at[i].ring <= at[Len(ops) + 1].ring
        BY <1>1, <3>2 DEF Laid
      <4>2. at[i].ring \in Nat /\ at[Len(ops) + 1].ring \in Nat /\ end.ring \in Nat
        <5>1. at[i] \in [ring : Nat, offset : Nat] /\ at[Len(ops) + 1] \in [ring : Nat, offset : Nat]
          BY <1>1, <1>2, <3>2
        <5> QED
          BY <5>1
      <4> QED
        BY <1>3, <2>2, <3>2, <4>1, <4>2
    <3> QED
      BY <1>1, <3>1, <3>2
  <2> QED
    BY <1>1, <2>1, <2>2
<1>7. Laid(later, more, others)
  BY <1>1, <1>3, <1>4, <1>5, <1>6 DEF Laid
<1> QED
  BY <1>7 DEF more

\* The places of the operations behind the first.
LEMMA LaidBehind ==
    ASSUME NEW ops \in Seq(OpType), ops # <<>>, NEW rings, NEW others, NEW at,
           Laid(at, ops, rings),
           \A i \in 2 .. Len(ops) : Follows(ops[i], at[i], at[i + 1], others),
           others[1].id = at[2].ring, others[1].read = at[2].offset,
           others[Len(others)].id = rings[Len(rings)].id,
           others[Len(others)].write = rings[Len(rings)].write
    PROVE  \E b : Laid(b, Tail(ops), others)
PROOF
<1> DEFINE rest == Tail(ops)
<1>1. /\ rest \in Seq(OpType) /\ Len(rest) = Len(ops) - 1 /\ Len(ops) \in Nat \ {0}
      /\ \A i \in 1 .. Len(rest) : rest[i] = ops[i + 1]
  BY Tailed
<1> HIDE DEF rest
<1> DEFINE later == [i \in 1 .. Len(rest) + 1 |-> at[i + 1]]
<1>2. at \in [1 .. Len(ops) + 1 -> [ring : Nat, offset : Nat]]
  BY DEF Laid
<1>3. /\ later \in [1 .. Len(rest) + 1 -> [ring : Nat, offset : Nat]]
      /\ \A i \in 1 .. Len(rest) + 1 : later[i] = at[i + 1]
  BY <1>1, <1>2
<1> HIDE DEF later
<1>4. \A i \in 1 .. Len(rest) : Follows(rest[i], later[i], later[i + 1], others)
  <2> SUFFICES ASSUME NEW i \in 1 .. Len(rest)
               PROVE  Follows(rest[i], later[i], later[i + 1], others)
    OBVIOUS
  <2>1. i + 1 \in 2 .. Len(ops) /\ i + 1 \in 1 .. Len(rest) + 1 /\ i \in 1 .. Len(rest) + 1
    BY <1>1
  <2> QED
    BY <1>1, <1>3, <2>1
<1>5. later[1] = at[2] /\ later[Len(rest) + 1] = at[Len(ops) + 1]
  BY <1>1, <1>3
<1>6. \A i, j \in 1 .. Len(rest) + 1 : i <= j => later[i].ring <= later[j].ring
  <2> SUFFICES ASSUME NEW i \in 1 .. Len(rest) + 1, NEW j \in 1 .. Len(rest) + 1, i <= j
               PROVE  later[i].ring <= later[j].ring
    OBVIOUS
  <2>1. i + 1 \in 1 .. Len(ops) + 1 /\ j + 1 \in 1 .. Len(ops) + 1 /\ i + 1 <= j + 1
    BY <1>1
  <2> QED
    BY <1>3, <2>1 DEF Laid
<1>7. /\ at[Len(ops) + 1].ring = rings[Len(rings)].id
      /\ at[Len(ops) + 1].offset = rings[Len(rings)].write
  BY DEF Laid
<1>8. Laid(later, rest, others)
  BY <1>3, <1>4, <1>5, <1>6, <1>7 DEF Laid
<1> QED
  BY <1>8 DEF rest

\* An operation that has no region may be queued.
LEMMA ShapeAppend ==
    ASSUME NEW ops \in Seq(OpType), NEW rings \in Seq(RingType), NEW x \in OpType,
           rings # <<>>, Shape(ops, rings),
           x.op \notin {"Write", "PopBuffer"}, x.size = 0, x.used = 0
    PROVE  Shape(Append(ops, x), rings)
PROOF
<1> DEFINE more == Append(ops, x)
<1>1. /\ more \in Seq(OpType) /\ Len(more) = Len(ops) + 1 /\ Len(ops) \in Nat
      /\ more[Len(ops) + 1] = x /\ \A i \in 1 .. Len(ops) : more[i] = ops[i]
  BY Appended
<1> HIDE DEF more
<1>2. RingsOrdered(rings)
  BY DEF Shape
<1>3. OpsFormed(more)
  BY <1>1 DEF Shape, OpsFormed
<1>4. RegionsHeld(more, rings)
  <2>1. \A i \in 1 .. Len(more) : more[i].op = "Write" => i \in 1 .. Len(ops) /\ more[i] = ops[i]
    BY <1>1
  <2> QED
    BY <2>1 DEF Shape, RegionsHeld
<1>5. PICK at : Laid(at, ops, rings)
  BY DEF Shape
<1>6. at[Len(ops) + 1] \in [ring : Nat, offset : Nat]
  BY <1>1, <1>5 DEF Laid
<1>7. Follows(x, at[Len(ops) + 1], at[Len(ops) + 1], rings)
  BY DEF Follows
<1>8. \E b : Laid(b, more, rings)
  <2>1. /\ \A i \in 1 .. Len(ops) : Follows(ops[i], at[i], at[i + 1], rings)
        /\ at[Len(ops) + 1].ring = rings[Len(rings)].id
        /\ at[Len(ops) + 1].offset = rings[Len(rings)].write
        /\ at[Len(ops) + 1].ring <= at[Len(ops) + 1].ring
    BY <1>5, <1>6 DEF Laid
  <2> QED
    BY <1>5, <1>6, <1>7, <2>1, LaidFurther DEF more
<1> QED
  BY <1>2, <1>3, <1>4, <1>8 DEF Shape, more

\* The rings of the operations, by their numbers.
LEMMA RingsByNumber ==
    ASSUME NEW rings \in Seq(RingType), rings # <<>>
    PROVE  /\ Len(rings) \in Nat \ {0}
           /\ rings[1] \in RingType /\ rings[1].id \in Nat
           /\ \A id \in Ids(rings) :
                 /\ id - rings[1].id + 1 \in 1 .. Len(rings)
                 /\ RingOf(rings, id) = rings[id - rings[1].id + 1]
                 /\ RingOf(rings, id) \in RingType
PROOF
<1>1. Len(rings) \in Nat \ {0} /\ \A j \in 1 .. Len(rings) : rings[j] \in RingType
  OBVIOUS
<1>2. rings[1] \in RingType /\ rings[1].id \in Nat
  BY <1>1 DEF RingType
<1>3. ASSUME NEW id \in Ids(rings)
      PROVE  id - rings[1].id + 1 \in 1 .. Len(rings)
  BY <1>1, <1>2 DEF Ids
<1> QED
  BY <1>1, <1>2, <1>3 DEF RingOf

\* A place lies in a ring.
LEMMA LaidInRings ==
    ASSUME NEW ops \in Seq(OpType), NEW rings \in Seq(RingType), rings # <<>>,
           RingsOrdered(rings), NEW at, Laid(at, ops, rings),
           NEW i \in 1 .. Len(ops) + 1
    PROVE  at[i] \in [ring : Nat, offset : Nat] /\ at[i].ring \in Ids(rings)
PROOF
<1>1. at[i] \in [ring : Nat, offset : Nat] /\ Len(ops) \in Nat
  <2>1. at \in [1 .. Len(ops) + 1 -> [ring : Nat, offset : Nat]]
    BY DEF Laid
  <2> QED
    BY <2>1
<1>2. at[1].ring <= at[i].ring /\ at[i].ring <= at[Len(ops) + 1].ring
  BY <1>1 DEF Laid
<1>3. at[1].ring = rings[1].id /\ at[Len(ops) + 1].ring = rings[Len(rings)].id
  BY DEF Laid
<1>4. rings[Len(rings)].id = rings[1].id + Len(rings) - 1
  BY RingsByNumber DEF RingsOrdered
<1> QED
  BY <1>1, <1>2, <1>3, <1>4, RingsByNumber DEF Ids

\* A ring may be put behind the others, and the operation that ends the one
\* before it into the queue.
LEMMA ShapeReconfigure ==
    ASSUME NEW ops \in Seq(OpType), NEW rings \in Seq(RingType), NEW x \in OpType,
           rings # <<>>, Shape(ops, rings), NEW size \in Nat \ {0},
           x.op = "PopBuffer", x.size = 0, x.used = 0
    PROVE  Shape(Append(ops, x), Append(rings, Ring(rings[1].id + Len(rings), size)))
PROOF
<1> DEFINE more == Append(ops, x)
           new == Ring(rings[1].id + Len(rings), size)
           others == Append(rings, new)
<1>1. /\ more \in Seq(OpType) /\ Len(more) = Len(ops) + 1 /\ Len(ops) \in Nat
      /\ more[Len(ops) + 1] = x /\ \A i \in 1 .. Len(ops) : more[i] = ops[i]
  BY Appended
<1>2. /\ new \in RingType
      /\ new.id = rings[1].id + Len(rings) /\ new.size = size /\ new.read = 0
      /\ new.write = 0 /\ new.contiguous = TRUE
      /\ new.cells \in [0 .. size - 1 -> Contents]
  <2>1. [c \in 0 .. size - 1 |-> Junk] \in [0 .. size - 1 -> Contents]
    BY DEF Contents
  <2>2. rings[1].id + Len(rings) \in Nat
    BY RingsByNumber
  <2> QED
    BY <2>1, <2>2 DEF Ring, RingType
<1>3. /\ others \in Seq(RingType) /\ Len(others) = Len(rings) + 1 /\ Len(rings) \in Nat \ {0}
      /\ others[Len(rings) + 1] = new /\ \A j \in 1 .. Len(rings) : others[j] = rings[j]
  BY <1>2, Appended, RingsByNumber
<1> HIDE DEF more, new, others
<1>4. others[1] = rings[1]
  BY <1>3
<1>5. ASSUME NEW id \in Ids(rings)
      PROVE  RingOf(others, id) = RingOf(rings, id) /\ id \in Ids(others)
  BY <1>3, <1>4, RingsByNumber DEF RingOf, Ids
<1>6. RingsOrdered(others)
  <2> SUFFICES ASSUME NEW j \in 1 .. Len(others)
               PROVE  /\ others[j].id = others[1].id + j - 1
                      /\ j > 1 => others[j].read = 0
                      /\ RingFormed(others[j])
    BY DEF RingsOrdered
  <2>1. CASE j \in 1 .. Len(rings)
    BY <1>3, <1>4, <2>1 DEF Shape, RingsOrdered
  <2>2. CASE j = Len(rings) + 1
    BY <1>2, <1>3, <1>4, <2>2, RingsByNumber DEF RingFormed
  <2> QED
    BY <1>3, <2>1, <2>2
<1>7. OpsFormed(more)
  BY <1>1 DEF Shape, OpsFormed
<1>8. RegionsHeld(more, others)
  <2>1. \A i \in 1 .. Len(more) : more[i].op = "Write" => i \in 1 .. Len(ops) /\ more[i] = ops[i]
    BY <1>1
  <2>2. RegionsHeld(ops, rings)
    BY DEF Shape
  <2> QED
    BY <1>5, <2>1, <2>2 DEF RegionsHeld
<1>9. PICK at : Laid(at, ops, rings)
  BY DEF Shape
<1> DEFINE end == [ring |-> new.id, offset |-> 0]
<1>10. \E b : Laid(b, more, others)
  <2>1. RingsOrdered(rings)
    BY DEF Shape
  <2>2. /\ at[Len(ops) + 1].ring = rings[Len(rings)].id
        /\ rings[Len(rings)].id = rings[1].id + Len(rings) - 1
    BY <1>3, <1>9, <2>1 DEF Laid, RingsOrdered
  <2>3. end \in [ring : Nat, offset : Nat] /\ end.ring = at[Len(ops) + 1].ring + 1 /\ end.offset = 0
    BY <1>2, <2>2, RingsByNumber
  <2>4. at[Len(ops) + 1].ring <= end.ring
    BY <2>2, <2>3, RingsByNumber
  <2>5. Follows(x, at[Len(ops) + 1], end, others)
    BY <2>3 DEF Follows
  <2>6. \A i \in 1 .. Len(ops) : Follows(ops[i], at[i], at[i + 1], others)
    <3> SUFFICES ASSUME NEW i \in 1 .. Len(ops)
                 PROVE  Follows(ops[i], at[i], at[i + 1], others)
      OBVIOUS
    <3>1. at[i].ring \in Ids(rings)
      BY <1>1, <1>9, <2>1, LaidInRings
    <3>2. Follows(ops[i], at[i], at[i + 1], rings)
      BY <1>9 DEF Laid
    <3> QED
      BY <1>5, <3>1, <3>2, FollowsAlike
  <2>7. end.ring = others[Len(others)].id /\ end.offset = others[Len(others)].write
    BY <1>2, <1>3
  <2> QED
    BY <1>4, <1>9, <2>3, <2>4, <2>5, <2>6, <2>7, LaidFurther DEF more
<1> QED
  BY <1>6, <1>7, <1>8, <1>10 DEF Shape, more, others, new

\* An operation that has no region may be taken.
LEMMA ShapeTail ==
    ASSUME NEW ops \in Seq(OpType), NEW rings \in Seq(RingType), ops # <<>>,
           rings # <<>>, Shape(ops, rings), ops[1].op \notin {"Write", "PopBuffer"}
    PROVE  Shape(Tail(ops), rings)
PROOF
<1> DEFINE rest == Tail(ops)
<1>1. /\ rest \in Seq(OpType) /\ Len(rest) = Len(ops) - 1 /\ Len(ops) \in Nat \ {0}
      /\ \A i \in 1 .. Len(rest) : rest[i] = ops[i + 1]
  BY Tailed
<1> HIDE DEF rest
<1>2. \A i \in 1 .. Len(rest) : i + 1 \in 1 .. Len(ops)
  BY <1>1
<1>3. OpsFormed(rest)
  BY <1>1, <1>2 DEF Shape, OpsFormed
<1>4. RegionsHeld(rest, rings)
  <2>1. RegionsHeld(ops, rings)
    BY DEF Shape
  <2>2. \A i, j \in 1 .. Len(rest) : i # j => i + 1 # j + 1
    BY <1>1
  <2> QED
    BY <1>1, <1>2, <2>1, <2>2 DEF RegionsHeld
<1>5. PICK at : Laid(at, ops, rings)
  BY DEF Shape
<1>6. \E b : Laid(b, rest, rings)
  <2>1. Follows(ops[1], at[1], at[2], rings)
    BY <1>1, <1>5 DEF Laid
  <2>2. at[1] = at[2]
    BY <2>1 DEF Follows
  <2>3. \A i \in 2 .. Len(ops) : Follows(ops[i], at[i], at[i + 1], rings)
    BY <1>5 DEF Laid
  <2>4. at[1].ring = rings[1].id /\ at[1].offset = rings[1].read
    BY <1>5 DEF Laid
  <2> QED
    BY <1>5, <2>2, <2>3, <2>4, LaidBehind DEF rest
<1> QED
  BY <1>3, <1>4, <1>6 DEF Shape, rest

\* When the first operation ends the use of the oldest ring, no other one has a
\* region in it.
LEMMA ShapePop ==
    ASSUME NEW ops \in Seq(OpType), NEW rings \in Seq(RingType), ops # <<>>,
           rings # <<>>, Shape(ops, rings), ops[1].op = "PopBuffer"
    PROVE  /\ Tail(rings) # <<>>
           /\ Tail(rings)[1].id = rings[1].id + 1
           /\ \A i \in 2 .. Len(ops) : ops[i].op = "Write" =>
                 ops[i].ring \in Ids(rings) /\ ops[i].ring > rings[1].id
           /\ Shape(Tail(ops), Tail(rings))
PROOF
<1> DEFINE rest == Tail(ops)
           others == Tail(rings)
<1>1. /\ rest \in Seq(OpType) /\ Len(rest) = Len(ops) - 1 /\ Len(ops) \in Nat \ {0}
      /\ \A i \in 1 .. Len(rest) : rest[i] = ops[i + 1]
  BY Tailed
<1>2. /\ others \in Seq(RingType) /\ Len(others) = Len(rings) - 1 /\ Len(rings) \in Nat \ {0}
      /\ \A j \in 1 .. Len(others) : others[j] = rings[j + 1]
  BY Tailed
<1> HIDE DEF rest, others
<1>3. \A i \in 1 .. Len(rest) : i + 1 \in 2 .. Len(ops)
  BY <1>1
<1>4. RingsOrdered(rings) /\ OpsFormed(ops) /\ RegionsHeld(ops, rings)
  BY DEF Shape
<1>5. PICK at : Laid(at, ops, rings)
  BY DEF Shape
<1>6. at[2].ring = rings[1].id + 1 /\ at[2].offset = 0
  <2>1. Follows(ops[1], at[1], at[2], rings)
    BY <1>1, <1>5 DEF Laid
  <2>2. at[1].ring = rings[1].id
    BY <1>5 DEF Laid
  <2> QED
    BY <2>1, <2>2 DEF Follows
<1>7. \A i \in 2 .. Len(ops) + 1 : at[i].ring \in Ids(rings) /\ at[i].ring > rings[1].id
  <2> SUFFICES ASSUME NEW i \in 2 .. Len(ops) + 1
               PROVE  at[i].ring \in Ids(rings) /\ at[i].ring > rings[1].id
    OBVIOUS
  <2>1. i \in 1 .. Len(ops) + 1 /\ 2 \in 1 .. Len(ops) + 1 /\ 2 <= i
    BY <1>1
  <2>2. at[2].ring <= at[i].ring
    BY <1>5, <2>1 DEF Laid
  <2>3. at[i].ring \in Ids(rings) /\ at[i] \in [ring : Nat, offset : Nat]
    BY <1>4, <1>5, <2>1, LaidInRings
  <2> QED
    BY <1>6, <2>2, <2>3, RingsByNumber
<1>8. Len(rings) > 1
  <2>1. at[2].ring \in Ids(rings)
    BY <1>1, <1>7
  <2> QED
    BY <1>2, <1>6, <2>1, RingsByNumber DEF Ids
<1>9. others[1] = rings[2] /\ others[1].id = rings[1].id + 1 /\ others[1].read = 0
  BY <1>2, <1>4, <1>8, RingsByNumber DEF RingsOrdered
<1>10. ASSUME NEW id \in Ids(rings), id > rings[1].id
       PROVE  RingOf(others, id) = RingOf(rings, id) /\ id \in Ids(others)
  <2> DEFINE a == rings[1].id
             b == others[1].id
             m == Len(rings)
             l == Len(others)
  <2>1. a \in Nat /\ b \in Nat /\ m \in Nat /\ l \in Nat /\ l = m - 1 /\ b = a + 1
    BY <1>2, <1>9, RingsByNumber
  <2>2. id \in Int /\ id > a /\ id <= a + m - 1
    BY <1>10, <2>1 DEF Ids
  <2> HIDE DEF a, b, m, l
  <2>3. /\ id - b + 1 \in 1 .. l /\ (id - b + 1) + 1 = id - a + 1
        /\ id \in b .. b + l - 1
    BY SMTT(30), <2>1, <2>2
  <2>4. id \in Ids(others)
    BY <2>3 DEF Ids, b, l
  <2>5. others[id - b + 1] = rings[(id - b + 1) + 1]
    BY <1>2, <2>3 DEF l
  <2> QED
    BY <2>3, <2>4, <2>5 DEF RingOf, a, b
<1>11. \A i \in 2 .. Len(ops) : ops[i].op = "Write" =>
          ops[i].ring \in Ids(rings) /\ ops[i].ring > rings[1].id
  <2> SUFFICES ASSUME NEW i \in 2 .. Len(ops), ops[i].op = "Write"
               PROVE  ops[i].ring \in Ids(rings) /\ ops[i].ring > rings[1].id
    OBVIOUS
  <2>1. Follows(ops[i], at[i], at[i + 1], rings)
    <3>1. i \in 1 .. Len(ops)
      OBVIOUS
    <3> QED
      BY <1>5, <3>1 DEF Laid
  <2>2. ops[i].ring = at[i].ring
    BY <2>1 DEF Follows
  <2> QED
    BY <1>7, <2>2
<1>12. RingsOrdered(others)
  <2> SUFFICES ASSUME NEW j \in 1 .. Len(others)
               PROVE  /\ others[j].id = others[1].id + j - 1
                      /\ j > 1 => others[j].read = 0
                      /\ RingFormed(others[j])
    BY DEF RingsOrdered
  <2>1. j + 1 \in 1 .. Len(rings) /\ j + 1 > 1 /\ others[j] = rings[j + 1]
    <3>1. j \in Int /\ 1 <= j /\ j <= Len(rings) - 1
      BY <1>2
    <3>2. others[j] = rings[j + 1]
      BY <1>2
    <3> QED
      BY <1>2, <3>1, <3>2
  <2>2. /\ rings[j + 1].id = rings[1].id + (j + 1) - 1
        /\ rings[j + 1].read = 0
        /\ RingFormed(rings[j + 1])
    BY <1>4, <2>1 DEF RingsOrdered
  <2>3. rings[1].id + (j + 1) - 1 = others[1].id + j - 1
    BY <1>9, RingsByNumber
  <2> QED
    BY <2>1, <2>2, <2>3
<1>13. OpsFormed(rest)
  BY <1>1, <1>3, <1>4 DEF OpsFormed
<1>14. RegionsHeld(rest, others)
  <2>1. \A i \in 1 .. Len(rest) : i + 1 \in 1 .. Len(ops) /\ i + 1 \in 2 .. Len(ops) /\ rest[i] = ops[i + 1]
    BY <1>1
  <2>2. \A i, j \in 1 .. Len(rest) : i # j => i + 1 # j + 1
    BY <1>1
  <2> QED
    BY <1>4, <1>10, <1>11, <2>1, <2>2 DEF RegionsHeld
<1>15. \E b : Laid(b, rest, others)
  <2>1. \A i \in 2 .. Len(ops) : Follows(ops[i], at[i], at[i + 1], others)
    <3> SUFFICES ASSUME NEW i \in 2 .. Len(ops)
                 PROVE  Follows(ops[i], at[i], at[i + 1], others)
      OBVIOUS
    <3>1. at[i].ring \in Ids(rings) /\ at[i].ring > rings[1].id
      BY <1>7
    <3>2. Follows(ops[i], at[i], at[i + 1], rings)
      BY <1>5 DEF Laid
    <3> QED
      BY <1>10, <3>1, <3>2, FollowsAlike
  <2>2. others[Len(others)] = rings[Len(rings)]
    BY <1>2, <1>8
  <2> QED
    BY <1>5, <1>6, <1>9, <2>1, <2>2, LaidBehind DEF rest
<1>16. others # <<>>
  BY <1>2, <1>8
<1> QED
  BY <1>9, <1>11, <1>12, <1>13, <1>14, <1>15, <1>16 DEF Shape, rest, others

\* What a ring takes is apart from what it has, and stays within its data.
LEMMA Pushed ==
    ASSUME NEW ring \in RingType, RingFormed(ring), NEW k \in Nat \ {0},
           k <= WriterSize(ring), NEW x \in OpType, x.offset = ring.write, x.size = k
    PROVE  /\ Push(ring, k) \in RingType
           /\ RingFormed(Push(ring, k))
           /\ Push(ring, k).id = ring.id /\ Push(ring, k).size = ring.size
           /\ Push(ring, k).read = ring.read /\ Push(ring, k).cells = ring.cells
           /\ Push(ring, k).write = Wrapped(ring, ring.write + k)
           /\ Within(x, Push(ring, k))
           /\ \A op \in OpType : op.size > 0 /\ Within(op, ring) =>
                 Within(op, Push(ring, k)) /\ Apart(op, x) /\ Apart(x, op)
PROOF
<1> DEFINE after == Push(ring, k)
<1>1. /\ ring.id \in Nat /\ ring.size \in Nat \ {0} /\ ring.write \in Nat /\ ring.read \in Nat
      /\ ring.contiguous \in BOOLEAN
      /\ ring.cells \in UNION {[0 .. s - 1 -> Contents] : s \in Nat \ {0}}
  BY DEF RingType
<1>2. ring.write + k <= ring.size
  BY <1>1 DEF WriterSize, RingFormed
<1>3. /\ after = [ring EXCEPT !.write = after.write, !.contiguous = after.contiguous]
      /\ after.write = Wrapped(ring, ring.write + k)
      /\ after.contiguous = (ring.contiguous # (ring.write + k = ring.size))
      /\ after.id = ring.id /\ after.size = ring.size /\ after.read = ring.read
      /\ after.cells = ring.cells
  BY DEF Push, RingType
<1>4. after.write \in Nat /\ after.contiguous \in BOOLEAN
  BY <1>1, <1>3 DEF Wrapped
<1>5. after \in RingType
  BY <1>1, <1>3, <1>4 DEF RingType
<1> HIDE DEF after
<1>6. x.offset = ring.write /\ x.size = k
  OBVIOUS
<1>7. \A op \in OpType : op.offset \in Nat /\ op.size \in Nat
  BY DEF OpType
<1>8. CASE ring.contiguous /\ ring.write + k = ring.size
  <2>1. after.write = 0 /\ after.contiguous = FALSE
    BY <1>3, <1>8 DEF Wrapped
  <2>2. RingFormed(after)
    BY <1>1, <1>2, <1>3, <1>8, <2>1 DEF RingFormed
  <2>3. Within(x, after)
    BY <1>1, <1>2, <1>3, <1>6, <1>8, <2>1 DEF RingFormed, Within
  <2>4. \A op \in OpType : op.size > 0 /\ Within(op, ring) =>
           Within(op, after) /\ Apart(op, x) /\ Apart(x, op)
    BY <1>1, <1>2, <1>3, <1>6, <1>7, <1>8, <2>1 DEF Within, Apart
  <2> QED
    BY <1>1, <1>2, <1>3, <1>5, <1>6, <1>8, <2>1, <2>2, <2>3, <2>4 DEF after
<1>9. CASE ring.contiguous /\ ring.write + k # ring.size
  <2>1. after.write = ring.write + k /\ after.contiguous = TRUE
    BY <1>1, <1>3, <1>9 DEF Wrapped
  <2>2. RingFormed(after)
    BY <1>1, <1>2, <1>3, <1>9, <2>1 DEF RingFormed
  <2>3. Within(x, after)
    BY <1>1, <1>2, <1>3, <1>6, <1>9, <2>1 DEF RingFormed, Within
  <2>4. \A op \in OpType : op.size > 0 /\ Within(op, ring) =>
           Within(op, after) /\ Apart(op, x) /\ Apart(x, op)
    BY <1>1, <1>2, <1>3, <1>6, <1>7, <1>9, <2>1 DEF Within, Apart
  <2> QED
    BY <1>1, <1>2, <1>3, <1>5, <1>6, <1>9, <2>1, <2>2, <2>3, <2>4 DEF after
<1>10. CASE ~ring.contiguous
  <2>1. ring.write + k <= ring.read /\ ring.read < ring.size
    BY <1>1, <1>10 DEF WriterSize, RingFormed
  <2>2. after.write = ring.write + k /\ after.contiguous = FALSE
    BY <1>1, <1>3, <1>10, <2>1 DEF Wrapped
  <2>3. RingFormed(after)
    BY <1>1, <1>2, <1>3, <1>10, <2>1, <2>2 DEF RingFormed
  <2>4. Within(x, after)
    BY <1>1, <1>2, <1>3, <1>6, <1>10, <2>1, <2>2 DEF RingFormed, Within
  <2>5. \A op \in OpType : op.size > 0 /\ Within(op, ring) =>
           Within(op, after) /\ Apart(op, x) /\ Apart(x, op)
    <3> SUFFICES ASSUME NEW op \in OpType, op.size > 0, Within(op, ring)
                 PROVE  Within(op, after) /\ Apart(op, x) /\ Apart(x, op)
      OBVIOUS
    <3>1. op.offset \in Nat /\ op.size \in Nat
      BY <1>7
    <3>2. \/ ring.read <= op.offset /\ op.offset + op.size <= ring.size
          \/ op.offset + op.size <= ring.write
      BY <1>10 DEF Within
    <3>3. Within(op, after)
      BY <1>1, <1>3, <2>2, <3>1, <3>2 DEF Within
    <3>4. Apart(op, x) /\ Apart(x, op)
      BY <1>1, <1>6, <2>1, <3>1, <3>2 DEF Apart
    <3> QED
      BY <3>3, <3>4
  <2> QED
    BY <1>1, <1>2, <1>3, <1>5, <1>6, <1>10, <2>1, <2>2, <2>3, <2>4, <2>5 DEF after
<1> QED
  BY <1>1, <1>8, <1>9, <1>10

\* What is popped of the region that is read first leaves all others as they are.
LEMMA Popped ==
    ASSUME NEW ring \in RingType, RingFormed(ring), NEW op \in OpType,
           op.offset = ring.read, op.size > 0, Within(op, ring), NEW n \in 0 .. op.size
    PROVE  /\ Pop(ring, n) \in RingType
           /\ RingFormed(Pop(ring, n))
           /\ Pop(ring, n).id = ring.id /\ Pop(ring, n).size = ring.size
           /\ Pop(ring, n).write = ring.write
           /\ Pop(ring, n).read = Wrapped(ring, ring.read + n)
           /\ n < op.size => Pop(ring, n).read = ring.read + n
           /\ \A c \in 0 .. ring.size - 1 :
                 c \notin ring.read .. ring.read + n - 1 =>
                    Pop(ring, n).cells[c] = ring.cells[c]
           /\ \A other \in OpType :
                 other.size > 0 /\ Within(other, ring) /\ Apart(op, other) =>
                    Within(other, Pop(ring, n))
           /\ \A rest \in OpType :
                 n < op.size /\ rest.offset = op.offset + n /\ rest.size = op.size - n =>
                    Within(rest, Pop(ring, n))
PROOF
<1> DEFINE after == Pop(ring, n)
<1>1. /\ ring.id \in Nat /\ ring.size \in Nat \ {0} /\ ring.write \in Nat /\ ring.read \in Nat
      /\ ring.contiguous \in BOOLEAN /\ n \in Nat /\ n <= op.size
      /\ op.size \in Nat /\ op.offset \in Nat
      /\ ring.cells \in [0 .. ring.size - 1 -> Contents]
  BY DEF RingType, OpType, RingFormed
<1>2. /\ after = [ring EXCEPT !.read = after.read, !.contiguous = after.contiguous,
                              !.cells = after.cells]
      /\ after.read = Wrapped(ring, ring.read + n)
      /\ after.contiguous = (ring.contiguous # (ring.read + n = ring.size))
      /\ after.id = ring.id /\ after.size = ring.size /\ after.write = ring.write
      /\ after.cells = [c \in DOMAIN ring.cells |->
                          IF c \in ring.read .. ring.read + n - 1 THEN Junk ELSE ring.cells[c]]
  BY DEF Pop, RingType
<1>3. /\ after.cells \in [0 .. ring.size - 1 -> Contents]
      /\ \A c \in 0 .. ring.size - 1 :
            c \notin ring.read .. ring.read + n - 1 => after.cells[c] = ring.cells[c]
  BY <1>1, <1>2 DEF Contents
<1>4. after.read \in Nat /\ after.contiguous \in BOOLEAN
  BY <1>1, <1>2 DEF Wrapped
<1>5. after.cells \in UNION {[0 .. s - 1 -> Contents] : s \in Nat \ {0}}
  BY <1>1, <1>3
<1>6. after \in RingType
  BY <1>1, <1>2, <1>4, <1>5 DEF RingType
<1> HIDE DEF after
<1>7. \A o \in OpType : o.offset \in Nat /\ o.size \in Nat
  BY DEF OpType
<1>8. CASE ring.contiguous
  <2>1. ring.read + n <= ring.write /\ ring.write < ring.size
    BY <1>1, <1>8 DEF Within, RingFormed
  <2>2. after.read = ring.read + n /\ after.contiguous = TRUE
    <3>1. ring.read + n # ring.size
      BY <1>1, <2>1
    <3>2. after.read = ring.read + n
      BY <1>2, <3>1 DEF Wrapped
    <3>3. after.contiguous = TRUE
      BY <1>1, <1>2, <1>8, <3>1
    <3> QED
      BY <3>2, <3>3
  <2>3. RingFormed(after)
    BY <1>1, <1>2, <1>3, <1>8, <2>1, <2>2 DEF RingFormed
  <2>4. \A other \in OpType :
           other.size > 0 /\ Within(other, ring) /\ Apart(op, other) => Within(other, after)
    <3> SUFFICES ASSUME NEW other \in OpType, other.size > 0, Within(other, ring),
                        Apart(op, other)
                 PROVE  Within(other, after)
      OBVIOUS
    <3>1. other.offset \in Nat /\ other.size \in Nat
      BY <1>7
    <3>2. ring.read <= other.offset /\ other.offset + other.size <= ring.write
      BY <1>8 DEF Within
    <3>3. ring.read + op.size <= other.offset
      BY <1>1, <3>1, <3>2 DEF Apart
    <3> QED
      BY <1>1, <1>2, <2>2, <3>1, <3>2, <3>3 DEF Within
  <2>5. \A rest \in OpType :
           n < op.size /\ rest.offset = op.offset + n /\ rest.size = op.size - n =>
              Within(rest, after)
    BY <1>1, <1>2, <1>7, <1>8, <2>2 DEF Within
  <2> QED
    BY <1>1, <1>2, <1>3, <1>6, <2>1, <2>2, <2>3, <2>4, <2>5 DEF after
<1>9. CASE ~ring.contiguous
  <2>1. ring.read + op.size <= ring.size /\ ring.write <= ring.read
    BY <1>1, <1>9 DEF Within, RingFormed
  <2>2. CASE ring.read + n = ring.size
    <3>1. after.read = 0 /\ after.contiguous = TRUE
      BY <1>1, <1>2, <1>9, <2>2 DEF Wrapped
    <3>2. RingFormed(after)
      BY <1>1, <1>2, <1>3, <1>9, <2>1, <3>1 DEF RingFormed
    <3>3. op.size = n /\ ~ (n < op.size)
      BY <1>1, <2>1, <2>2
    <3>4. \A other \in OpType :
             other.size > 0 /\ Within(other, ring) /\ Apart(op, other) => Within(other, after)
      <4> SUFFICES ASSUME NEW other \in OpType, other.size > 0, Within(other, ring),
                          Apart(op, other)
                   PROVE  Within(other, after)
        OBVIOUS
      <4>1. other.offset \in Nat /\ other.size \in Nat
        BY <1>7
      <4>2. other.offset + other.size <= ring.write
        BY <1>1, <1>9, <2>2, <3>3, <4>1 DEF Within, Apart
      <4> QED
        BY <1>1, <1>2, <3>1, <4>1, <4>2 DEF Within
    <3> QED
      BY <1>1, <1>2, <1>3, <1>6, <3>1, <3>2, <3>3, <3>4 DEF after
  <2>3. CASE ring.read + n # ring.size
    <3>1. after.read = ring.read + n /\ after.contiguous = FALSE
      BY <1>1, <1>2, <1>9, <2>3 DEF Wrapped
    <3>2. RingFormed(after)
      <4>1. ring.read + n < ring.size /\ ring.write <= ring.read + n /\ ring.write < ring.size
        BY <1>1, <2>1, <2>3 DEF RingFormed
      <4>2. after.size = ring.size /\ after.write = ring.write
        BY <1>2
      <4> QED
        BY <1>3, <3>1, <4>1, <4>2 DEF RingFormed
    <3>3. \A other \in OpType :
             other.size > 0 /\ Within(other, ring) /\ Apart(op, other) => Within(other, after)
      BY <1>1, <1>2, <1>7, <1>9, <2>1, <3>1 DEF Within, Apart
    <3>4. \A rest \in OpType :
             n < op.size /\ rest.offset = op.offset + n /\ rest.size = op.size - n =>
                Within(rest, after)
      BY <1>1, <1>2, <1>7, <1>9, <2>1, <3>1 DEF Within
    <3> QED
      BY <1>1, <1>2, <1>3, <1>6, <3>1, <3>2, <3>3, <3>4 DEF after
  <2> QED
    BY <2>2, <2>3
<1> QED
  BY <1>1, <1>8, <1>9

\* One of the rings changes.
Replaced(rings, k, ring) == [rings EXCEPT ![k] = ring]

LEMMA RingsReplaced ==
    ASSUME NEW rings \in Seq(RingType), rings # <<>>, RingsOrdered(rings),
           NEW k \in 1 .. Len(rings), NEW r \in RingType, RingFormed(r),
           r.id = rings[k].id, r.size = rings[k].size, k > 1 => r.read = 0,
           NEW others, others = Replaced(rings, k, r)
    PROVE  /\ others \in Seq(RingType) /\ others # <<>> /\ Len(others) = Len(rings)
           /\ others[1].id = rings[1].id
           /\ Ids(others) = Ids(rings) /\ rings[k].id \in Ids(rings)
           /\ RingsOrdered(others)
           /\ \A j \in 1 .. Len(rings) : others[j] = IF j = k THEN r ELSE rings[j]
           /\ \A id \in Ids(rings) :
                 /\ RingOf(others, id).size = RingOf(rings, id).size
                 /\ id # rings[k].id => RingOf(others, id) = RingOf(rings, id)
           /\ RingOf(others, rings[k].id) = r
           /\ RingOf(rings, rings[k].id) = rings[k]
PROOF
<1>1. /\ others \in Seq(RingType) /\ Len(others) = Len(rings) /\ Len(rings) \in Nat \ {0}
      /\ \A j \in 1 .. Len(rings) : others[j] = IF j = k THEN r ELSE rings[j]
  BY ExceptSeq, RingsByNumber DEF Replaced
<1>2. others[1].id = rings[1].id
  BY <1>1
<1>3. rings[k].id = rings[1].id + k - 1 /\ rings[1].id \in Nat /\ k \in Nat
  BY RingsByNumber DEF RingsOrdered
<1>4. Ids(others) = Ids(rings) /\ rings[k].id \in Ids(rings)
  BY <1>1, <1>2, <1>3 DEF Ids
<1>5. RingsOrdered(others)
  <2> SUFFICES ASSUME NEW j \in 1 .. Len(rings)
               PROVE  /\ others[j].id = others[1].id + j - 1
                      /\ j > 1 => others[j].read = 0
                      /\ RingFormed(others[j])
    BY <1>1 DEF RingsOrdered
  <2>1. CASE j = k
    BY <1>1, <1>2, <1>3, <2>1
  <2>2. CASE j # k
    BY <1>1, <1>2, <2>2 DEF RingsOrdered
  <2> QED
    BY <2>1, <2>2
<1>6. ASSUME NEW id \in Ids(rings), id # rings[k].id
      PROVE  RingOf(others, id) = RingOf(rings, id)
  <2>1. id - rings[1].id + 1 \in 1 .. Len(rings) /\ id - rings[1].id + 1 # k
    <3>1. id \in Int
      BY <1>6, RingsByNumber DEF Ids
    <3>2. id - rings[1].id + 1 \in 1 .. Len(rings)
      BY <1>6, RingsByNumber
    <3>3. id - rings[1].id + 1 # k
      BY <1>3, <1>6, <3>1
    <3> QED
      BY <3>2, <3>3
  <2> QED
    BY <1>1, <1>2, <2>1 DEF RingOf
<1>7. RingOf(others, rings[k].id) = r /\ RingOf(rings, rings[k].id) = rings[k]
  <2>1. rings[k].id - rings[1].id + 1 = k
    BY <1>3
  <2> QED
    BY <1>1, <1>2, <2>1 DEF RingOf
<1>8. others # <<>>
  BY <1>1
<1> QED
  BY <1>1, <1>2, <1>4, <1>5, <1>6, <1>7, <1>8

\* The newest ring may give a region to a new write.
LEMMA ShapeNew ==
    ASSUME NEW ops \in Seq(OpType), NEW rings \in Seq(RingType), NEW x \in OpType,
           rings # <<>>, Shape(ops, rings), NEW k \in Nat \ {0},
           k <= WriterSize(rings[Len(rings)]),
           x.op = "Write", x.ring = rings[Len(rings)].id,
           x.offset = rings[Len(rings)].write, x.size = k, x.used = 0,
           NEW others,
           others = Replaced(rings, Len(rings), Push(rings[Len(rings)], k))
    PROVE  others \in Seq(RingType) /\ others # <<>> /\ Shape(Append(ops, x), others)
PROOF
<1> DEFINE more == Append(ops, x)
           last == rings[Len(rings)]
           pushed == Push(last, k)
<1>1. /\ more \in Seq(OpType) /\ Len(more) = Len(ops) + 1 /\ Len(ops) \in Nat
      /\ more[Len(ops) + 1] = x /\ \A i \in 1 .. Len(ops) : more[i] = ops[i]
  BY Appended
<1>2. RingsOrdered(rings) /\ OpsFormed(ops) /\ RegionsHeld(ops, rings)
  BY DEF Shape
<1>3. Len(rings) \in 1 .. Len(rings) /\ last \in RingType /\ RingFormed(last)
  BY <1>2, RingsByNumber DEF RingsOrdered
<1>4. /\ pushed \in RingType /\ RingFormed(pushed)
      /\ pushed.id = last.id /\ pushed.size = last.size
      /\ pushed.read = last.read
      /\ pushed.write = Wrapped(last, last.write + k)
      /\ Within(x, pushed)
      /\ \A op \in OpType : op.size > 0 /\ Within(op, last) =>
            Within(op, pushed) /\ Apart(op, x) /\ Apart(x, op)
  BY <1>3, Pushed
<1> HIDE DEF pushed
<1>5. Len(rings) > 1 => last.read = 0
  BY <1>2, <1>3 DEF RingsOrdered
<1>6. /\ others \in Seq(RingType) /\ others # <<>> /\ Len(others) = Len(rings)
      /\ others[1].id = rings[1].id
      /\ Ids(others) = Ids(rings) /\ last.id \in Ids(rings)
      /\ RingsOrdered(others)
      /\ \A j \in 1 .. Len(rings) : others[j] = IF j = Len(rings) THEN pushed ELSE rings[j]
      /\ \A id \in Ids(rings) :
            /\ RingOf(others, id).size = RingOf(rings, id).size
            /\ id # last.id => RingOf(others, id) = RingOf(rings, id)
      /\ RingOf(others, last.id) = pushed
      /\ RingOf(rings, last.id) = last
  <2> DEFINE m == Len(rings)
  <2>1. m \in 1 .. Len(rings) /\ pushed.id = rings[m].id /\ pushed.size = rings[m].size
        /\ (m > 1 => pushed.read = 0) /\ others = Replaced(rings, m, pushed)
        /\ pushed \in RingType /\ RingFormed(pushed) /\ RingsOrdered(rings)
    BY <1>2, <1>3, <1>4, <1>5 DEF pushed
  <2> HIDE DEF m
  <2>2. /\ others \in Seq(RingType) /\ others # <<>> /\ Len(others) = Len(rings)
        /\ others[1].id = rings[1].id
        /\ Ids(others) = Ids(rings) /\ rings[m].id \in Ids(rings)
        /\ RingsOrdered(others)
        /\ \A j \in 1 .. Len(rings) : others[j] = IF j = m THEN pushed ELSE rings[j]
        /\ \A id \in Ids(rings) :
              /\ RingOf(others, id).size = RingOf(rings, id).size
              /\ id # rings[m].id => RingOf(others, id) = RingOf(rings, id)
        /\ RingOf(others, rings[m].id) = pushed
        /\ RingOf(rings, rings[m].id) = rings[m]
    BY <2>1, RingsReplaced
  <2> QED
    BY <2>2 DEF m
<1> HIDE DEF more
<1>7. OpsFormed(more)
  <2> SUFFICES ASSUME NEW i \in 1 .. Len(more)
               PROVE  more[i].used <= more[i].size /\ (more[i].size = 0 <=> more[i].op # "Write")
    BY DEF OpsFormed
  <2>1. CASE i \in 1 .. Len(ops)
    BY <1>1, <1>2, <2>1 DEF OpsFormed
  <2>2. CASE i = Len(ops) + 1
    BY <1>1, <2>2
  <2> QED
    BY <1>1, <2>1, <2>2
<1>8. ASSUME NEW i \in 1 .. Len(ops), ops[i].op = "Write"
      PROVE  /\ ops[i] \in OpType /\ ops[i].size > 0 /\ ops[i].ring \in Ids(rings)
             /\ Within(ops[i], RingOf(others, ops[i].ring))
             /\ ops[i].ring = last.id => Apart(ops[i], x) /\ Apart(x, ops[i])
  <2>1. ops[i] \in OpType /\ ops[i].size \in Nat
    <3>1. ops[i] \in OpType
      OBVIOUS
    <3> QED
      BY <3>1 DEF OpType
  <2>2. ops[i].size > 0
    BY <1>2, <1>8, <2>1 DEF OpsFormed
  <2>3. ops[i].ring \in Ids(rings) /\ Within(ops[i], RingOf(rings, ops[i].ring))
    BY <1>2, <1>8 DEF RegionsHeld
  <2> QED
    BY <1>4, <1>6, <2>1, <2>2, <2>3
<1>9. RegionsHeld(more, others)
  <2>1. ASSUME NEW i \in 1 .. Len(more), more[i].op = "Write"
        PROVE  more[i].ring \in Ids(others) /\ Within(more[i], RingOf(others, more[i].ring))
    <3>1. CASE i \in 1 .. Len(ops)
      BY <1>1, <1>6, <1>8, <2>1, <3>1
    <3>2. CASE i = Len(ops) + 1
      BY <1>1, <1>4, <1>6, <3>2
    <3> QED
      BY <1>1, <3>1, <3>2
  <2>2. ASSUME NEW i \in 1 .. Len(more), NEW j \in 1 .. Len(more), i # j,
               more[i].op = "Write", more[j].op = "Write", more[i].ring = more[j].ring
        PROVE  Apart(more[i], more[j])
    <3>1. CASE i \in 1 .. Len(ops) /\ j \in 1 .. Len(ops)
      BY <1>1, <1>2, <2>2, <3>1 DEF RegionsHeld
    <3>2. CASE i \in 1 .. Len(ops) /\ j = Len(ops) + 1
      BY <1>1, <1>8, <2>2, <3>2
    <3>3. CASE i = Len(ops) + 1 /\ j \in 1 .. Len(ops)
      BY <1>1, <1>8, <2>2, <3>3
    <3> QED
      BY <1>1, <2>2, <3>1, <3>2, <3>3
  <2> QED
    BY <2>1, <2>2 DEF RegionsHeld
<1>10. PICK at : Laid(at, ops, rings)
  BY DEF Shape
<1> DEFINE end == [ring |-> last.id, offset |-> Wrapped(last, last.write + k)]
<1>11. \E b : Laid(b, more, others)
  <2>1. /\ at[Len(ops) + 1].ring = last.id
        /\ at[Len(ops) + 1].offset = last.write
    BY <1>10 DEF Laid
  <2>2. end \in [ring : Nat, offset : Nat] /\ end.ring = last.id
    <3>1. last.id \in Nat /\ last.write \in Nat
      BY <1>3 DEF RingType
    <3>2. Wrapped(last, last.write + k) \in Nat
      BY <3>1 DEF Wrapped
    <3> QED
      BY <3>1, <3>2
  <2>3. Follows(x, at[Len(ops) + 1], end, others)
    <3>1. Wrapped(last, last.write + k) = Wrapped(RingOf(others, last.id), x.offset + x.size)
      BY <1>4, <1>6 DEF Wrapped
    <3> QED
      BY <2>1, <3>1 DEF Follows
  <2>4. \A i \in 1 .. Len(ops) : Follows(ops[i], at[i], at[i + 1], others)
    <3> SUFFICES ASSUME NEW i \in 1 .. Len(ops)
                 PROVE  Follows(ops[i], at[i], at[i + 1], others)
      OBVIOUS
    <3>1. at[i].ring \in Ids(rings)
      BY <1>1, <1>2, <1>10, LaidInRings
    <3>2. Follows(ops[i], at[i], at[i + 1], rings)
      BY <1>10 DEF Laid
    <3> QED
      BY <1>6, <3>1, <3>2, FollowsAlike
  <2>5. others[1].read = rings[1].read
    BY <1>3, <1>4, <1>6, RingsByNumber
  <2>6. end.ring = others[Len(others)].id /\ end.offset = others[Len(others)].write
    BY <1>3, <1>4, <1>6
  <2>7. at[Len(ops) + 1].ring <= end.ring
    <3>1. last.id \in Nat
      BY <1>3 DEF RingType
    <3> HIDE DEF end
    <3> QED
      BY <2>1, <2>2, <3>1
  <2> HIDE DEF end
  <2> QED
    BY <1>6, <1>10, <2>2, <2>3, <2>4, <2>5, <2>6, <2>7, LaidFurther DEF more
<1> QED
  BY <1>6, <1>7, <1>9, <1>11 DEF Shape, more

\* The shape does not depend on what is in a region, and on how much.
LEMMA ShapeKept ==
    ASSUME NEW ops \in Seq(OpType), NEW same \in Seq(OpType), Len(same) = Len(ops),
           \A i \in 1 .. Len(ops) :
              /\ same[i].op = ops[i].op /\ same[i].ring = ops[i].ring
              /\ same[i].offset = ops[i].offset /\ same[i].size = ops[i].size
              /\ same[i].used <= same[i].size,
           NEW rings \in Seq(RingType), rings # <<>>, Shape(ops, rings),
           NEW others \in Seq(RingType), Len(others) = Len(rings),
           \A j \in 1 .. Len(rings) :
              /\ others[j].id = rings[j].id /\ others[j].size = rings[j].size
              /\ others[j].write = rings[j].write /\ others[j].read = rings[j].read
              /\ others[j].contiguous = rings[j].contiguous
              /\ RingFormed(others[j])
    PROVE  Shape(same, others)
PROOF
<1>1. RingsOrdered(rings) /\ OpsFormed(ops) /\ RegionsHeld(ops, rings)
  BY DEF Shape
<1>2. Len(rings) \in Nat \ {0} /\ others[1].id = rings[1].id /\ others[1].read = rings[1].read
  BY RingsByNumber
<1>3. Ids(others) = Ids(rings)
  BY <1>2 DEF Ids
<1>4. ASSUME NEW id \in Ids(rings)
      PROVE  /\ RingOf(others, id).size = RingOf(rings, id).size
             /\ RingOf(others, id).write = RingOf(rings, id).write
             /\ RingOf(others, id).read = RingOf(rings, id).read
             /\ RingOf(others, id).contiguous = RingOf(rings, id).contiguous
  <2>1. id - rings[1].id + 1 \in 1 .. Len(rings)
    BY RingsByNumber
  <2> QED
    BY <1>2, <2>1 DEF RingOf
<1>5. RingsOrdered(others)
  BY <1>1, <1>2 DEF RingsOrdered
<1>6. OpsFormed(same)
  BY <1>1 DEF OpsFormed
<1>7. RegionsHeld(same, others)
  <2>1. ASSUME NEW i \in 1 .. Len(ops), ops[i].op = "Write"
        PROVE  /\ same[i].ring \in Ids(others)
               /\ Within(same[i], RingOf(others, same[i].ring))
    <3>1. ops[i].ring \in Ids(rings) /\ Within(ops[i], RingOf(rings, ops[i].ring))
      BY <1>1, <2>1 DEF RegionsHeld
    <3> QED
      BY <1>3, <1>4, <3>1 DEF Within
  <2>2. ASSUME NEW i \in 1 .. Len(ops), NEW j \in 1 .. Len(ops), i # j,
               ops[i].op = "Write", ops[j].op = "Write", ops[i].ring = ops[j].ring
        PROVE  Apart(same[i], same[j])
    BY <1>1, <2>2 DEF RegionsHeld, Apart
  <2> QED
    BY <2>1, <2>2 DEF RegionsHeld
<1>8. PICK at : Laid(at, ops, rings)
  BY DEF Shape
<1>9. Laid(at, same, others)
  <2>1. /\ at \in [1 .. Len(ops) + 1 -> [ring : Nat, offset : Nat]]
        /\ at[1].ring = rings[1].id /\ at[1].offset = rings[1].read
        /\ at[Len(ops) + 1].ring = rings[Len(rings)].id
        /\ at[Len(ops) + 1].offset = rings[Len(rings)].write
        /\ \A i, j \in 1 .. Len(ops) + 1 : i <= j => at[i].ring <= at[j].ring
    BY <1>8 DEF Laid
  <2>2. /\ others[Len(others)].id = rings[Len(rings)].id
        /\ others[Len(others)].write = rings[Len(rings)].write
    BY <1>2
  <2>3. ASSUME NEW i \in 1 .. Len(ops)
        PROVE  Follows(same[i], at[i], at[i + 1], others)
    <3>1. Len(ops) \in Nat /\ i \in 1 .. Len(ops) + 1
      OBVIOUS
    <3>2. at[i].ring \in Ids(rings)
      BY <1>1, <1>8, <3>1, LaidInRings
    <3>3. Follows(ops[i], at[i], at[i + 1], rings)
      BY <1>8 DEF Laid
    <3>4. Follows(ops[i], at[i], at[i + 1], others)
      BY <1>4, <3>2, <3>3, FollowsAlike
    <3> QED
      BY <3>4 DEF Follows
  <2> QED
    BY <1>2, <2>1, <2>2, <2>3 DEF Laid
<1> QED
  BY <1>5, <1>6, <1>7, <1>9 DEF Shape

\* The write that is made next is in the oldest ring, where that is read.
LEMMA FirstWrite ==
    ASSUME NEW ops \in Seq(OpType), NEW rings \in Seq(RingType), ops # <<>>,
           rings # <<>>, Shape(ops, rings), ops[1].op = "Write"
    PROVE  /\ ops[1].ring = rings[1].id /\ ops[1].offset = rings[1].read
           /\ Within(ops[1], rings[1])
           /\ ops[1].size > 0 /\ ops[1].used <= ops[1].size
           /\ RingFormed(rings[1])
PROOF
<1>1. 1 \in 1 .. Len(ops) /\ ops[1] \in OpType
  OBVIOUS
<1>2. PICK at : Laid(at, ops, rings)
  BY DEF Shape
<1>3. Follows(ops[1], at[1], at[1 + 1], rings)
  BY <1>1, <1>2 DEF Laid
<1>4. ops[1].ring = at[1].ring /\ ops[1].offset = at[1].offset
  BY <1>3 DEF Follows
<1>5. ops[1].ring = rings[1].id /\ ops[1].offset = rings[1].read
  BY <1>2, <1>4 DEF Laid
<1>6. RingOf(rings, rings[1].id) = rings[1]
  BY RingsByNumber DEF RingOf
<1>7. Within(ops[1], rings[1])
  BY <1>1, <1>5, <1>6 DEF Shape, RegionsHeld
<1>8. ops[1].size > 0 /\ ops[1].used <= ops[1].size
  BY <1>1 DEF Shape, OpsFormed, OpType
<1> QED
  BY <1>5, <1>7, <1>8, RingsByNumber DEF Shape, RingsOrdered

\* PopWriteData of a part of a write.
LEMMA PartOfWrite ==
    ASSUME NEW op \in OpType, NEW n \in Nat, n <= op.used, op.used <= op.size
    PROVE  /\ PopWriteData(op, n) \in OpType
           /\ PopWriteData(op, n).op = op.op /\ PopWriteData(op, n).ring = op.ring
           /\ PopWriteData(op, n).offset = op.offset + n
           /\ PopWriteData(op, n).arg = op.arg + n
           /\ PopWriteData(op, n).size = op.size - n
           /\ PopWriteData(op, n).used = op.used - n
PROOF
<1> DEFINE rest == PopWriteData(op, n)
<1>1. /\ op.op \in {"Write", "Sync", "PopBuffer", "Stop", "NoOp"} /\ op.arg \in Nat
      /\ op.ring \in Nat /\ op.offset \in Nat /\ op.size \in Nat /\ op.used \in Nat
      /\ op = [op |-> op.op, arg |-> op.arg, ring |-> op.ring, offset |-> op.offset,
               size |-> op.size, used |-> op.used]
  BY DEF OpType
<1>2. op.offset + n \in Nat /\ op.arg + n \in Nat /\ op.size - n \in Nat /\ op.used - n \in Nat
  BY <1>1
<1>3. /\ rest.op = op.op /\ rest.ring = op.ring
      /\ rest.offset = op.offset + n /\ rest.arg = op.arg + n
      /\ rest.size = op.size - n /\ rest.used = op.used - n
  BY DEF PopWriteData, OpType
<1>4. rest \in OpType
  BY <1>1, <1>2 DEF PopWriteData, OpType
<1> QED
  BY <1>3, <1>4 DEF rest

\* A part of the first write is made; the rest of it stays the first.
LEMMA ShapePart ==
    ASSUME NEW ops \in Seq(OpType), NEW rings \in Seq(RingType), ops # <<>>,
           rings # <<>>, Shape(ops, rings), ops[1].op = "Write",
           NEW n \in Nat, n < ops[1].used,
           NEW others, others = Replaced(rings, 1, Pop(rings[1], n)),
           NEW left, left = Replaced(ops, 1, PopWriteData(ops[1], n))
    PROVE  /\ others \in Seq(RingType) /\ others # <<>> /\ left \in Seq(OpType)
           /\ Shape(left, others)
PROOF
<1> DEFINE op == ops[1]
           first == rings[1]
           rest == PopWriteData(op, n)
           popped == Pop(first, n)
<1>1. Len(ops) \in Nat \ {0} /\ 1 \in 1 .. Len(ops) /\ op \in OpType
  OBVIOUS
<1>2. RingsOrdered(rings) /\ OpsFormed(ops) /\ RegionsHeld(ops, rings)
  BY DEF Shape
<1>3. /\ op.ring = first.id /\ op.offset = first.read /\ Within(op, first)
      /\ op.size > 0 /\ op.used <= op.size /\ RingFormed(first)
  BY FirstWrite
<1>4. op.size \in Nat /\ op.used \in Nat /\ op.offset \in Nat /\ op.arg \in Nat /\ n < op.size
      /\ n \in 0 .. op.size /\ n <= op.used
  BY <1>1, <1>3 DEF OpType
<1>5. /\ rest \in OpType /\ rest.op = op.op /\ rest.ring = op.ring
      /\ rest.offset = op.offset + n /\ rest.arg = op.arg + n
      /\ rest.size = op.size - n /\ rest.used = op.used - n
  BY <1>1, <1>3, <1>4, PartOfWrite
<1>15. rest.offset + rest.size = op.offset + op.size
  <2> DEFINE o == op.offset
             z == op.size
  <2>1. o \in Nat /\ z \in Nat
    BY <1>4
  <2>2. rest.offset = o + n /\ rest.size = z - n
    BY <1>5
  <2> HIDE DEF o, z
  <2>3. rest.offset + rest.size = o + z
    BY <2>1, <2>2
  <2> QED
    BY <2>3 DEF o, z
<1>15a. rest.offset >= op.offset /\ rest.offset \in Nat /\ rest.size \in Nat
  <2>1. rest.offset \in Nat /\ rest.size \in Nat
    BY <1>5 DEF OpType
  <2>2. \A x \in Nat : x + n >= x
    OBVIOUS
  <2> HIDE DEF rest, op
  <2> QED
    BY <1>4, <1>5, <2>1, <2>2
<1>6. first \in RingType /\ 1 \in 1 .. Len(rings) /\ Len(rings) \in Nat \ {0}
  BY RingsByNumber
<1>7. /\ popped \in RingType /\ RingFormed(popped)
      /\ popped.id = first.id /\ popped.size = first.size /\ popped.write = first.write
      /\ popped.read = first.read + n
      /\ \A other \in OpType :
            other.size > 0 /\ Within(other, first) /\ Apart(op, other) => Within(other, popped)
      /\ Within(rest, popped)
  BY <1>1, <1>3, <1>4, <1>5, <1>6, Popped
<1>8. /\ left \in Seq(OpType) /\ Len(left) = Len(ops)
      /\ \A i \in 1 .. Len(ops) : left[i] = IF i = 1 THEN rest ELSE ops[i]
  BY <1>1, <1>5, ExceptSeq DEF Replaced
<1>9. others = Replaced(rings, 1, popped)
  OBVIOUS
<1> HIDE DEF rest, popped
<1>10. /\ others \in Seq(RingType) /\ others # <<>> /\ Len(others) = Len(rings)
       /\ others[1].id = rings[1].id
       /\ Ids(others) = Ids(rings) /\ rings[1].id \in Ids(rings)
       /\ RingsOrdered(others)
       /\ \A j \in 1 .. Len(rings) : others[j] = IF j = 1 THEN popped ELSE rings[j]
       /\ \A id \in Ids(rings) :
             /\ RingOf(others, id).size = RingOf(rings, id).size
             /\ id # rings[1].id => RingOf(others, id) = RingOf(rings, id)
       /\ RingOf(others, rings[1].id) = popped
       /\ RingOf(rings, rings[1].id) = rings[1]
  <2>1. 1 > 1 => popped.read = 0
    OBVIOUS
  <2> QED
    BY <1>2, <1>6, <1>7, <1>9, <2>1, RingsReplaced
<1>11. OpsFormed(left)
  <2> SUFFICES ASSUME NEW i \in 1 .. Len(ops)
               PROVE  left[i].used <= left[i].size /\ (left[i].size = 0 <=> left[i].op # "Write")
    BY <1>8 DEF OpsFormed
  <2>1. CASE i = 1
    <3>1. left[i] = rest
      BY <1>8, <2>1
    <3>2. op.used - n <= op.size - n /\ op.size - n # 0
      BY <1>3, <1>4
    <3> QED
      BY <1>5, <3>1, <3>2
  <2>2. CASE i # 1
    BY <1>2, <1>8, <2>2 DEF OpsFormed
  <2> QED
    BY <2>1, <2>2
<1>12. ASSUME NEW i \in 2 .. Len(ops), ops[i].op = "Write"
       PROVE  /\ ops[i] \in OpType /\ ops[i].size > 0 /\ ops[i].ring \in Ids(rings)
              /\ Within(ops[i], RingOf(others, ops[i].ring))
              /\ ops[i].ring = op.ring => Apart(op, ops[i])
  <2>1. ops[i] \in OpType /\ i \in 1 .. Len(ops) /\ i # 1
    BY <1>1
  <2>2. ops[i].size > 0
    <3>1. ops[i].size \in Nat
      BY <2>1 DEF OpType
    <3>2. ops[i].size # 0
      BY <1>2, <1>12, <2>1 DEF OpsFormed
    <3> QED
      BY <3>1, <3>2
  <2>3. ops[i].ring \in Ids(rings) /\ Within(ops[i], RingOf(rings, ops[i].ring))
    BY <1>2, <1>12, <2>1 DEF RegionsHeld
  <2>4. ops[i].ring = op.ring => Apart(op, ops[i])
    BY <1>1, <1>2, <1>12, <2>1 DEF RegionsHeld
  <2> QED
    BY <1>3, <1>7, <1>10, <2>1, <2>2, <2>3, <2>4
<1>13. RegionsHeld(left, others)
  <2>1. ASSUME NEW i \in 1 .. Len(ops), left[i].op = "Write"
        PROVE  left[i].ring \in Ids(others) /\ Within(left[i], RingOf(others, left[i].ring))
    <3>1. CASE i = 1
      <4>1. left[i] = rest /\ rest.ring = rings[1].id
        BY <1>3, <1>5, <1>8, <3>1
      <4> QED
        BY <1>7, <1>10, <4>1
    <3>2. CASE i # 1
      <4>1. i \in 2 .. Len(ops) /\ left[i] = ops[i]
        BY <1>8, <3>2
      <4> QED
        BY <1>10, <1>12, <2>1, <4>1
    <3> QED
      BY <3>1, <3>2
  <2>2. ASSUME NEW i \in 2 .. Len(ops), ops[i].op = "Write", ops[i].ring = op.ring
        PROVE  Apart(rest, ops[i]) /\ Apart(ops[i], rest)
    <3>1. Apart(op, ops[i]) /\ ops[i] \in OpType
      BY <1>12, <2>2
    <3>2. ops[i].offset \in Nat /\ ops[i].size \in Nat
      BY <3>1 DEF OpType
    <3>3. rest.offset >= op.offset /\ rest.offset \in Nat /\ rest.size \in Nat
      BY <1>15a
    <3> DEFINE o == op.offset
               z == op.size
               ro == rest.offset
               rz == rest.size
               io == ops[i].offset
               iz == ops[i].size
    <3>4. o \in Nat /\ z \in Nat /\ ro \in Nat /\ rz \in Nat /\ io \in Nat /\ iz \in Nat
          /\ ro >= o /\ ro + rz = o + z /\ (o + z <= io \/ io + iz <= o)
      BY <1>4, <1>15, <3>1, <3>2, <3>3 DEF Apart
    <3> HIDE DEF o, z, ro, rz, io, iz
    <3>5. ro + rz <= io \/ io + iz <= ro
      BY <3>4
    <3> QED
      BY <3>5 DEF Apart, ro, rz, io, iz
  <2>3. ASSUME NEW i \in 1 .. Len(ops), NEW j \in 1 .. Len(ops), i # j,
               left[i].op = "Write", left[j].op = "Write", left[i].ring = left[j].ring
        PROVE  Apart(left[i], left[j])
    <3>1. CASE i = 1
      <4>1. j \in 2 .. Len(ops) /\ left[i] = rest /\ left[j] = ops[j]
        BY <1>8, <2>3, <3>1
      <4> QED
        BY <1>5, <2>2, <2>3, <4>1
    <3>2. CASE j = 1
      <4>1. i \in 2 .. Len(ops) /\ left[j] = rest /\ left[i] = ops[i]
        BY <1>8, <2>3, <3>2
      <4> QED
        BY <1>5, <2>2, <2>3, <4>1
    <3>3. CASE i # 1 /\ j # 1
      BY <1>2, <1>8, <2>3, <3>3 DEF RegionsHeld
    <3> QED
      BY <3>1, <3>2, <3>3
  <2> QED
    BY <1>8, <2>1, <2>3 DEF RegionsHeld
<1>14. PICK at : Laid(at, ops, rings)
  BY DEF Shape
<1> DEFINE begin == [ring |-> first.id, offset |-> first.read + n]
           now == [i \in 1 .. Len(ops) + 1 |-> IF i = 1 THEN begin ELSE at[i]]
<1>16. Laid(now, left, others)
  <2>1. /\ at \in [1 .. Len(ops) + 1 -> [ring : Nat, offset : Nat]]
        /\ at[1].ring = rings[1].id /\ at[1].offset = rings[1].read
        /\ at[Len(ops) + 1].ring = rings[Len(rings)].id
        /\ at[Len(ops) + 1].offset = rings[Len(rings)].write
        /\ \A i, j \in 1 .. Len(ops) + 1 : i <= j => at[i].ring <= at[j].ring
    BY <1>14 DEF Laid
  <2>2. begin \in [ring : Nat, offset : Nat] /\ begin.ring = first.id
        /\ begin.offset = first.read + n
    <3>1. first.id \in Nat /\ first.read \in Nat
      BY <1>6 DEF RingType
    <3>2. first.read + n \in Nat
      BY <3>1
    <3> QED
      BY <3>1, <3>2
  <2> HIDE DEF begin
  <2>3. /\ now \in [1 .. Len(ops) + 1 -> [ring : Nat, offset : Nat]]
        /\ now[1] = begin /\ \A i \in 2 .. Len(ops) + 1 : now[i] = at[i]
    BY <1>1, <2>1, <2>2
  <2> HIDE DEF now
  <2>4. \A i \in 1 .. Len(ops) + 1 : now[i].ring = at[i].ring
    BY <1>1, <2>1, <2>2, <2>3
  <2>5. \A i, j \in 1 .. Len(ops) + 1 : i <= j => now[i].ring <= now[j].ring
    BY <2>1, <2>4
  <2>6. now[Len(ops) + 1] = at[Len(ops) + 1]
    BY <1>1, <2>3
  <2>7. others[Len(others)].id = rings[Len(rings)].id
        /\ others[Len(others)].write = rings[Len(rings)].write
    BY <1>6, <1>7, <1>10
  <2>8. now[1].ring = others[1].id /\ now[1].offset = others[1].read
    BY <1>6, <1>7, <1>10, <2>2, <2>3
  <2>9. ASSUME NEW i \in 1 .. Len(ops)
        PROVE  Follows(left[i], now[i], now[i + 1], others)
    <3>1. CASE i = 1
      <4>1. Follows(op, at[1], at[2], rings)
        BY <1>1, <1>14 DEF Laid
      <4>2. now[2] = at[2] /\ left[1] = rest /\ 1 + 1 = 2
        BY <1>1, <1>8, <2>3
      <4>3. /\ op.ring = at[1].ring /\ at[2].ring = at[1].ring
            /\ at[2].offset = Wrapped(RingOf(rings, at[1].ring), op.offset + op.size)
        BY <4>1 DEF Follows
      <4>4. rest.offset + rest.size = op.offset + op.size
        BY <1>15
      <4>5. /\ RingOf(others, first.id).size = RingOf(rings, first.id).size
            /\ at[1].ring = first.id
        BY <1>10, <2>1
      <4>6. at[2].offset = Wrapped(RingOf(others, first.id), rest.offset + rest.size)
        BY <4>3, <4>4, <4>5 DEF Wrapped
      <4> QED
        BY <1>3, <1>5, <2>1, <2>2, <2>3, <3>1, <4>2, <4>3, <4>5, <4>6 DEF Follows
    <3>2. CASE i # 1
      <4>1. left[i] = ops[i] /\ now[i] = at[i] /\ now[i + 1] = at[i + 1]
            /\ i \in 1 .. Len(ops) + 1
        <5>1. i \in 2 .. Len(ops) + 1 /\ i + 1 \in 2 .. Len(ops) + 1 /\ i \in 1 .. Len(ops) + 1
          BY <1>1, <3>2
        <5>2. left[i] = ops[i]
          BY <1>8, <3>2
        <5> QED
          BY <2>3, <5>1, <5>2
      <4>2. at[i].ring \in Ids(rings)
        BY <1>2, <1>14, <4>1, LaidInRings
      <4>3. Follows(ops[i], at[i], at[i + 1], rings)
        BY <1>14 DEF Laid
      <4> QED
        BY <1>10, <4>1, <4>2, <4>3, FollowsAlike
    <3> QED
      BY <3>1, <3>2
  <2> QED
    BY <1>8, <1>10, <2>1, <2>3, <2>5, <2>6, <2>7, <2>8, <2>9 DEF Laid
<1> QED
  BY <1>8, <1>10, <1>11, <1>13, <1>16 DEF Shape

\* The first write is through; its region is free.
LEMMA ShapeDone ==
    ASSUME NEW ops \in Seq(OpType), NEW rings \in Seq(RingType), ops # <<>>,
           rings # <<>>, Shape(ops, rings), ops[1].op = "Write",
           NEW others, others = Replaced(rings, 1, Pop(rings[1], ops[1].size))
    PROVE  /\ others \in Seq(RingType) /\ others # <<>>
           /\ Shape(Tail(ops), others)
PROOF
<1> DEFINE op == ops[1]
           first == rings[1]
           rest == Tail(ops)
           popped == Pop(first, op.size)
<1>1. /\ rest \in Seq(OpType) /\ Len(rest) = Len(ops) - 1 /\ Len(ops) \in Nat \ {0}
      /\ \A i \in 1 .. Len(rest) : rest[i] = ops[i + 1]
      /\ op \in OpType
  BY Tailed
<1>2. RingsOrdered(rings) /\ OpsFormed(ops) /\ RegionsHeld(ops, rings)
  BY DEF Shape
<1>3. /\ op.ring = first.id /\ op.offset = first.read /\ Within(op, first)
      /\ op.size > 0 /\ RingFormed(first)
  BY FirstWrite
<1>4. op.size \in 0 .. op.size
  BY <1>1, <1>3 DEF OpType
<1>5. first \in RingType /\ 1 \in 1 .. Len(rings) /\ Len(rings) \in Nat \ {0}
  BY RingsByNumber
<1>6. /\ popped \in RingType /\ RingFormed(popped)
      /\ popped.id = first.id /\ popped.size = first.size /\ popped.write = first.write
      /\ popped.read = Wrapped(first, first.read + op.size)
      /\ \A other \in OpType :
            other.size > 0 /\ Within(other, first) /\ Apart(op, other) => Within(other, popped)
  BY <1>1, <1>3, <1>4, <1>5, Popped
<1>7. others = Replaced(rings, 1, popped)
  OBVIOUS
<1> HIDE DEF rest, popped
<1>8. /\ others \in Seq(RingType) /\ others # <<>> /\ Len(others) = Len(rings)
      /\ others[1].id = rings[1].id
      /\ Ids(others) = Ids(rings) /\ rings[1].id \in Ids(rings)
      /\ RingsOrdered(others)
      /\ \A j \in 1 .. Len(rings) : others[j] = IF j = 1 THEN popped ELSE rings[j]
      /\ \A id \in Ids(rings) :
            /\ RingOf(others, id).size = RingOf(rings, id).size
            /\ id # rings[1].id => RingOf(others, id) = RingOf(rings, id)
      /\ RingOf(others, rings[1].id) = popped
      /\ RingOf(rings, rings[1].id) = rings[1]
  <2>1. 1 > 1 => popped.read = 0
    OBVIOUS
  <2> QED
    BY <1>2, <1>5, <1>6, <1>7, <2>1, RingsReplaced
<1>9. \A i \in 1 .. Len(rest) : i + 1 \in 2 .. Len(ops) /\ i + 1 \in 1 .. Len(ops)
  BY <1>1
<1>10. OpsFormed(rest)
  BY <1>1, <1>2, <1>9 DEF OpsFormed
<1>11. ASSUME NEW i \in 2 .. Len(ops), ops[i].op = "Write"
       PROVE  ops[i].ring \in Ids(rings) /\ Within(ops[i], RingOf(others, ops[i].ring))
  <2>1. ops[i] \in OpType /\ i \in 1 .. Len(ops) /\ i # 1 /\ 1 \in 1 .. Len(ops)
    BY <1>1
  <2>2. ops[i].size > 0
    <3>1. ops[i].size \in Nat
      BY <2>1 DEF OpType
    <3>2. ops[i].size # 0
      BY <1>2, <1>11, <2>1 DEF OpsFormed
    <3> QED
      BY <3>1, <3>2
  <2>3. ops[i].ring \in Ids(rings) /\ Within(ops[i], RingOf(rings, ops[i].ring))
    BY <1>2, <1>11, <2>1 DEF RegionsHeld
  <2>4. ops[i].ring = op.ring => Apart(op, ops[i])
    BY <1>2, <1>11, <2>1 DEF RegionsHeld
  <2>5. CASE ops[i].ring = rings[1].id
    <3>1. Within(ops[i], first) /\ Apart(op, ops[i])
      BY <1>3, <1>8, <2>3, <2>4, <2>5
    <3>2. Within(ops[i], popped)
      BY <1>6, <2>1, <2>2, <3>1
    <3> QED
      BY <1>8, <2>3, <2>5, <3>2
  <2>6. CASE ops[i].ring # rings[1].id
    BY <1>8, <2>3, <2>6
  <2> QED
    BY <2>5, <2>6
<1>12. RegionsHeld(rest, others)
  <2>1. ASSUME NEW i \in 1 .. Len(rest), rest[i].op = "Write"
        PROVE  rest[i].ring \in Ids(others) /\ Within(rest[i], RingOf(others, rest[i].ring))
    <3>1. i + 1 \in 2 .. Len(ops) /\ rest[i] = ops[i + 1]
      BY <1>1, <1>9
    <3> QED
      BY <1>8, <1>11, <2>1, <3>1
  <2>2. ASSUME NEW i \in 1 .. Len(rest), NEW j \in 1 .. Len(rest), i # j,
               rest[i].op = "Write", rest[j].op = "Write", rest[i].ring = rest[j].ring
        PROVE  Apart(rest[i], rest[j])
    <3>1. i + 1 # j + 1 /\ i + 1 \in 1 .. Len(ops) /\ j + 1 \in 1 .. Len(ops)
      BY <1>1, <2>2
    <3>2. rest[i] = ops[i + 1] /\ rest[j] = ops[j + 1]
      BY <1>1
    <3> QED
      BY <1>2, <2>2, <3>1, <3>2 DEF RegionsHeld
  <2> QED
    BY <2>1, <2>2 DEF RegionsHeld
<1>13. PICK at : Laid(at, ops, rings)
  BY DEF Shape
<1>14. \E b : Laid(b, rest, others)
  <2>1. Follows(op, at[1], at[1 + 1], rings) /\ 1 + 1 = 2
    BY <1>1, <1>13 DEF Laid
  <2>2. at[1].ring = first.id
    BY <1>13 DEF Laid
  <2>3. at[2].ring = first.id /\ at[2].offset = Wrapped(RingOf(rings, first.id), op.offset + op.size)
    BY <2>1, <2>2 DEF Follows
  <2>4. others[1].id = at[2].ring /\ others[1].read = at[2].offset
    BY <1>3, <1>5, <1>6, <1>8, <2>3
  <2>5. others[Len(others)].id = rings[Len(rings)].id
        /\ others[Len(others)].write = rings[Len(rings)].write
    BY <1>5, <1>6, <1>8
  <2>6. ASSUME NEW i \in 2 .. Len(ops)
        PROVE  Follows(ops[i], at[i], at[i + 1], others)
    <3>1. i \in 1 .. Len(ops) /\ i \in 1 .. Len(ops) + 1
      BY <1>1
    <3>2. at[i].ring \in Ids(rings)
      BY <1>2, <1>13, <3>1, LaidInRings
    <3>3. Follows(ops[i], at[i], at[i + 1], rings)
      BY <1>13, <3>1 DEF Laid
    <3> QED
      BY <1>8, <3>2, <3>3, FollowsAlike
  <2> QED
    BY <1>13, <2>4, <2>5, <2>6, LaidBehind DEF rest
<1> QED
  BY <1>8, <1>10, <1>12, <1>14 DEF Shape, rest

-----------------------------------------------------------------------------
(* What the stream will contain *)

Covers(op, p) == p \in op.arg .. EndOffset(op) - 1

DatumOf(rings, op, p) ==
    (CHOOSE r \in Range(rings) : r.id = op.ring).cells[op.offset + p - op.arg]

OutcomeAt(content, ops, rings, p) ==
    IF Covering(ops, p) = {} THEN content[p]
    ELSE DatumOf(rings, ops[Max(Covering(ops, p))], p)

LEMMA FinalIsOutcome ==
    /\ Final = [p \in Places |-> OutcomeAt(stream, Pending, buffers, p)]
    /\ Final' = [p \in Places |-> OutcomeAt(stream', Pending', buffers', p)]
  BY DEF Final, OutcomeAt, Datum, DatumOf

\* A set of indices that is not empty has a last one.
LEMMA LastExists ==
    ASSUME NEW n \in Nat, NEW S \in SUBSET (1 .. n), S # {}
    PROVE  \E i \in S : \A j \in S : j <= i
PROOF
<1> DEFINE T == {d \in Nat : n - d \in S}
<1>1. PICK s \in S : TRUE
  OBVIOUS
<1>2. n - s \in T
  BY <1>1
<1>3. PICK m \in T : \A d \in T : <<d, m>> \notin OpToRel(<, Nat)
  BY <1>2, WFMin, NatLessThanWellFounded
<1>4. m \in Nat /\ n - m \in S
  BY <1>3
<1>5. ASSUME NEW j \in S
      PROVE  j <= n - m
  <2>1. j \in Nat /\ n - j \in T /\ n - j \in Nat
    OBVIOUS
  <2>2. ~(n - j < m)
    BY <1>3, <1>4, <2>1 DEF OpToRel
  <2> QED
    BY <1>4, <2>1, <2>2
<1> QED
  BY <1>4, <1>5

\* The last one that writes a place determines what it contains.
LEMMA OutcomeOfLast ==
    ASSUME NEW content, NEW ops \in Seq(OpType), NEW rings, NEW p \in Places,
           NEW i \in 1 .. Len(ops), Covers(ops[i], p),
           \A j \in 1 .. Len(ops) : Covers(ops[j], p) => j <= i
    PROVE  OutcomeAt(content, ops, rings, p) = DatumOf(rings, ops[i], p)
PROOF
<1> DEFINE S == Covering(ops, p)
<1>1. i \in S /\ \A j \in S : j \in 1 .. Len(ops) /\ j <= i
  BY DEF Covering, Covers
<1> HIDE DEF S
<1>2. \A x \in S : (\A y \in S : x >= y) => x = i
  BY <1>1
<1>3. \A y \in S : i >= y
  BY <1>1
<1>4. Max(S) = i
  BY <1>1, <1>2, <1>3 DEF Max
<1> QED
  BY <1>1, <1>4 DEF OutcomeAt, S

LEMMA OutcomeOfNone ==
    ASSUME NEW content, NEW ops \in Seq(OpType), NEW rings, NEW p \in Places,
           \A j \in 1 .. Len(ops) : ~Covers(ops[j], p)
    PROVE  OutcomeAt(content, ops, rings, p) = content[p]
  BY DEF OutcomeAt, Covering, Covers

LEMMA OutcomeCases ==
    ASSUME NEW ops \in Seq(OpType), NEW p \in Places
    PROVE  \/ \A j \in 1 .. Len(ops) : ~Covers(ops[j], p)
           \/ \E i \in 1 .. Len(ops) :
                 Covers(ops[i], p) /\ \A j \in 1 .. Len(ops) : Covers(ops[j], p) => j <= i
PROOF
<1> DEFINE S == {j \in 1 .. Len(ops) : Covers(ops[j], p)}
<1>1. CASE S = {}
  BY <1>1
<1>2. CASE S # {}
  <2>2. Len(ops) \in Nat /\ S \in SUBSET (1 .. Len(ops))
    OBVIOUS
  <2>1. PICK i \in S : \A j \in S : j <= i
    <3> HIDE DEF S
    <3> QED
      BY <1>2, <2>2, LastExists
  <2> QED
    BY <2>1
<1> QED
  BY <1>1, <1>2

\* Another operation that does not write the place changes nothing there.
LEMMA OutcomeAppend ==
    ASSUME NEW content, NEW ops \in Seq(OpType), NEW x \in OpType, NEW rings, NEW others,
           NEW p \in Places, ~Covers(x, p),
           \A i \in 1 .. Len(ops) : Covers(ops[i], p) =>
              DatumOf(others, ops[i], p) = DatumOf(rings, ops[i], p)
    PROVE  OutcomeAt(content, Append(ops, x), others, p) = OutcomeAt(content, ops, rings, p)
PROOF
<1> DEFINE more == Append(ops, x)
<1>1. /\ more \in Seq(OpType) /\ Len(more) = Len(ops) + 1 /\ Len(ops) \in Nat
      /\ more[Len(ops) + 1] = x /\ \A i \in 1 .. Len(ops) : more[i] = ops[i]
  BY Appended
<1> HIDE DEF more
<1>2. \A j \in 1 .. Len(more) : Covers(more[j], p) => j \in 1 .. Len(ops) /\ Covers(ops[j], p)
  BY <1>1
<1>3. CASE \A j \in 1 .. Len(ops) : ~Covers(ops[j], p)
  <2>1. OutcomeAt(content, ops, rings, p) = content[p]
    BY <1>3, OutcomeOfNone
  <2>2. OutcomeAt(content, more, others, p) = content[p]
    BY <1>1, <1>2, <1>3, OutcomeOfNone
  <2> QED
    BY <2>1, <2>2 DEF more
<1>4. ASSUME NEW i \in 1 .. Len(ops), Covers(ops[i], p),
             \A j \in 1 .. Len(ops) : Covers(ops[j], p) => j <= i
      PROVE  OutcomeAt(content, more, others, p) = OutcomeAt(content, ops, rings, p)
  <2>1. OutcomeAt(content, ops, rings, p) = DatumOf(rings, ops[i], p)
    BY <1>4, OutcomeOfLast
  <2>2. i \in 1 .. Len(more) /\ more[i] = ops[i]
    BY <1>1
  <2>3. \A j \in 1 .. Len(more) : Covers(more[j], p) => j <= i
    BY <1>2, <1>4
  <2>4. OutcomeAt(content, more, others, p) = DatumOf(others, ops[i], p)
    BY <1>1, <1>4, <2>2, <2>3, OutcomeOfLast
  <2> QED
    BY <1>4, <2>1, <2>4
<1> QED
  BY <1>3, <1>4, OutcomeCases DEF more

\* The first operation is taken, and what it writes is in the content.
LEMMA OutcomeTail ==
    ASSUME NEW content, NEW after, NEW ops \in Seq(OpType), ops # <<>>, NEW rings, NEW others,
           NEW p \in Places,
           after[p] = IF Covers(ops[1], p) THEN DatumOf(rings, ops[1], p) ELSE content[p],
           \A i \in 2 .. Len(ops) : Covers(ops[i], p) =>
              DatumOf(others, ops[i], p) = DatumOf(rings, ops[i], p)
    PROVE  OutcomeAt(after, Tail(ops), others, p) = OutcomeAt(content, ops, rings, p)
PROOF
<1> DEFINE rest == Tail(ops)
<1>1. /\ rest \in Seq(OpType) /\ Len(rest) = Len(ops) - 1 /\ Len(ops) \in Nat \ {0}
      /\ \A i \in 1 .. Len(rest) : rest[i] = ops[i + 1]
  BY Tailed
<1> HIDE DEF rest
<1>2. \A j \in 1 .. Len(rest) : j + 1 \in 2 .. Len(ops) /\ j + 1 \in 1 .. Len(ops)
  BY <1>1
<1>3. CASE \A j \in 1 .. Len(ops) : ~Covers(ops[j], p)
  <2>1. OutcomeAt(content, ops, rings, p) = content[p]
    BY <1>3, OutcomeOfNone
  <2>2. \A j \in 1 .. Len(rest) : ~Covers(rest[j], p)
    BY <1>1, <1>2, <1>3
  <2>3. OutcomeAt(after, rest, others, p) = after[p]
    BY <1>1, <2>2, OutcomeOfNone
  <2> QED
    BY <1>1, <1>3, <2>1, <2>3 DEF rest
<1>4. ASSUME NEW i \in 1 .. Len(ops), Covers(ops[i], p),
             \A j \in 1 .. Len(ops) : Covers(ops[j], p) => j <= i
      PROVE  OutcomeAt(after, rest, others, p) = OutcomeAt(content, ops, rings, p)
  <2>1. OutcomeAt(content, ops, rings, p) = DatumOf(rings, ops[i], p)
    BY <1>4, OutcomeOfLast
  <2>2. \A j \in 1 .. Len(rest) : Covers(rest[j], p) => j + 1 <= i
    BY <1>1, <1>2, <1>4
  <2>3. CASE i = 1
    <3>1. \A j \in 1 .. Len(rest) : ~Covers(rest[j], p)
      BY <1>1, <2>2, <2>3
    <3>2. OutcomeAt(after, rest, others, p) = after[p]
      BY <1>1, <3>1, OutcomeOfNone
    <3> QED
      BY <1>4, <2>1, <2>3, <3>2
  <2>4. CASE i # 1
    <3> DEFINE k == i - 1
    <3>1. k \in 1 .. Len(rest) /\ rest[k] = ops[i] /\ i \in 2 .. Len(ops)
      BY <1>1, <2>4
    <3>2. \A j \in 1 .. Len(rest) : Covers(rest[j], p) => j <= k
      BY <1>1, <2>2
    <3> HIDE DEF k
    <3>3. OutcomeAt(after, rest, others, p) = DatumOf(others, ops[i], p)
      BY <1>1, <1>4, <3>1, <3>2, OutcomeOfLast
    <3> QED
      BY <1>4, <2>1, <3>1, <3>3
  <2> QED
    BY <2>3, <2>4
<1> QED
  BY <1>3, <1>4, OutcomeCases DEF rest

\* The first of ops keeps a part of what it writes, the rest is in the content.
PartKept(content, after, ops, rings, left, others, p) ==
    /\ Len(left) = Len(ops)
    /\ \A i \in 2 .. Len(ops) : left[i] = ops[i]
    /\ Covers(left[1], p) =>
          Covers(ops[1], p) /\ DatumOf(others, left[1], p) = DatumOf(rings, ops[1], p)
    /\ ~Covers(left[1], p) /\ Covers(ops[1], p) => after[p] = DatumOf(rings, ops[1], p)
    /\ ~Covers(left[1], p) /\ ~Covers(ops[1], p) => after[p] = content[p]
    /\ \A i \in 2 .. Len(ops) : Covers(ops[i], p) =>
          DatumOf(others, ops[i], p) = DatumOf(rings, ops[i], p)

LEMMA OutcomePart ==
    ASSUME NEW content, NEW after, NEW ops \in Seq(OpType), ops # <<>>, NEW rings, NEW others,
           NEW left \in Seq(OpType), NEW p \in Places,
           PartKept(content, after, ops, rings, left, others, p)
    PROVE  OutcomeAt(after, left, others, p) = OutcomeAt(content, ops, rings, p)
PROOF
<1> USE DEF PartKept
<1>1. Len(ops) \in Nat \ {0} /\ 1 \in 1 .. Len(ops)
  OBVIOUS
<1>2. CASE \A j \in 1 .. Len(ops) : ~Covers(ops[j], p)
  <2>1. OutcomeAt(content, ops, rings, p) = content[p]
    BY <1>2, OutcomeOfNone
  <2>2. ASSUME NEW j \in 1 .. Len(left)
        PROVE  ~Covers(left[j], p)
    <3>1. CASE j = 1
      BY <1>1, <1>2, <3>1
    <3>2. CASE j # 1
      <4>1. left[j] = ops[j] /\ j \in 1 .. Len(ops)
        BY <1>1, <3>2
      <4> QED
        BY <1>2, <4>1
    <3> QED
      BY <3>1, <3>2
  <2>3. OutcomeAt(after, left, others, p) = after[p]
    BY <2>2, OutcomeOfNone
  <2> QED
    BY <1>1, <1>2, <2>1, <2>3
<1>3. ASSUME NEW i \in 1 .. Len(ops), Covers(ops[i], p),
             \A j \in 1 .. Len(ops) : Covers(ops[j], p) => j <= i
      PROVE  OutcomeAt(after, left, others, p) = OutcomeAt(content, ops, rings, p)
  <2>1. OutcomeAt(content, ops, rings, p) = DatumOf(rings, ops[i], p)
    BY <1>3, OutcomeOfLast
  <2>2. ASSUME NEW j \in 2 .. Len(ops), Covers(left[j], p)
        PROVE  j <= i
    <3>1. left[j] = ops[j] /\ j \in 1 .. Len(ops)
      BY <1>1
    <3> QED
      BY <1>3, <2>2, <3>1
  <2>3. CASE i = 1
    <3>1. CASE Covers(left[1], p)
      <4>1. \A j \in 1 .. Len(left) : Covers(left[j], p) => j <= 1
        BY <1>1, <2>2, <2>3
      <4>2. OutcomeAt(after, left, others, p) = DatumOf(others, left[1], p)
        BY <1>1, <3>1, <4>1, OutcomeOfLast
      <4> QED
        BY <2>1, <2>3, <3>1, <4>2
    <3>2. CASE ~Covers(left[1], p)
      <4>1. \A j \in 1 .. Len(left) : ~Covers(left[j], p)
        BY <1>1, <2>2, <2>3, <3>2
      <4>2. OutcomeAt(after, left, others, p) = after[p]
        BY <4>1, OutcomeOfNone
      <4> QED
        BY <1>3, <2>1, <2>3, <3>2, <4>2
    <3> QED
      BY <3>1, <3>2
  <2>4. CASE i # 1
    <3>1. i \in 2 .. Len(ops) /\ i \in 1 .. Len(left) /\ left[i] = ops[i]
      BY <1>1, <2>4
    <3>2. \A j \in 1 .. Len(left) : Covers(left[j], p) => j <= i
      BY <1>1, <2>2, <3>1
    <3>3. OutcomeAt(after, left, others, p) = DatumOf(others, ops[i], p)
      BY <1>3, <3>1, <3>2, OutcomeOfLast
    <3> QED
      BY <1>3, <2>1, <3>1, <3>3
  <2> QED
    BY <2>3, <2>4
<1> QED
  BY <1>2, <1>3, OutcomeCases

\* Operations that write the place in the same way.
LEMMA OutcomeSame ==
    ASSUME NEW content, NEW ops \in Seq(OpType), NEW rings, NEW others,
           NEW same \in Seq(OpType), Len(same) = Len(ops), NEW p \in Places,
           \A i \in 1 .. Len(ops) :
              /\ Covers(same[i], p) <=> Covers(ops[i], p)
              /\ Covers(ops[i], p) => DatumOf(others, same[i], p) = DatumOf(rings, ops[i], p)
    PROVE  OutcomeAt(content, same, others, p) = OutcomeAt(content, ops, rings, p)
PROOF
<1>1. CASE \A j \in 1 .. Len(ops) : ~Covers(ops[j], p)
  <2>1. OutcomeAt(content, ops, rings, p) = content[p]
    BY <1>1, OutcomeOfNone
  <2>2. OutcomeAt(content, same, others, p) = content[p]
    BY <1>1, OutcomeOfNone
  <2> QED
    BY <2>1, <2>2
<1>2. ASSUME NEW i \in 1 .. Len(ops), Covers(ops[i], p),
             \A j \in 1 .. Len(ops) : Covers(ops[j], p) => j <= i
      PROVE  OutcomeAt(content, same, others, p) = OutcomeAt(content, ops, rings, p)
  <2>1. OutcomeAt(content, ops, rings, p) = DatumOf(rings, ops[i], p)
    BY <1>2, OutcomeOfLast
  <2>2. OutcomeAt(content, same, others, p) = DatumOf(others, same[i], p)
    BY <1>2, OutcomeOfLast
  <2> QED
    BY <1>2, <2>1, <2>2
<1> QED
  BY <1>1, <1>2, OutcomeCases

\* Where the data of an operation are.
LEMMA DatumInRing ==
    ASSUME NEW rings \in Seq(RingType), rings # <<>>, RingsOrdered(rings),
           NEW op \in OpType, op.ring \in Ids(rings), NEW p
    PROVE  DatumOf(rings, op, p) = RingOf(rings, op.ring).cells[op.offset + p - op.arg]
PROOF
<1> DEFINE k == op.ring - rings[1].id + 1
<1>1. k \in 1 .. Len(rings) /\ RingOf(rings, op.ring) = rings[k] /\ rings[1].id \in Nat
  BY RingsByNumber DEF RingOf
<1>2. op.ring \in Nat
  BY DEF OpType
<1>3. \A j \in 1 .. Len(rings) : rings[j].id = op.ring => j = k
  BY <1>1, <1>2 DEF RingsOrdered
<1>4. rings[k].id = op.ring
  BY <1>1, <1>2 DEF RingsOrdered
<1> HIDE DEF k
<1>5. Range(rings) = {rings[j] : j \in 1 .. Len(rings)}
  BY DEF Range
<1>6. \A r \in Range(rings) : r.id = op.ring => r = rings[k]
  BY <1>3, <1>5
<1>7. rings[k] \in Range(rings)
  BY <1>1, <1>5
<1>8. (CHOOSE r \in Range(rings) : r.id = op.ring) = rings[k]
  BY <1>4, <1>6, <1>7
<1> QED
  BY <1>1, <1>8 DEF DatumOf

\* The data are where the region is used.
LEMMA CoveredCell ==
    ASSUME NEW op \in OpType, op.used <= op.size, NEW p \in Places, Covers(op, p)
    PROVE  /\ op.offset + p - op.arg \in op.offset .. op.offset + op.used - 1
           /\ op.used > 0
PROOF
<1>1. op.arg \in Nat /\ op.used \in Nat /\ op.offset \in Nat /\ p \in Int
  BY DEF OpType, Places
<1>2. op.arg <= p /\ p <= op.arg + op.used - 1
  BY <1>1 DEF Covers, EndOffset
<1> QED
  BY <1>1, <1>2

\* What a region has is in a cell of the ring.
LEMMA RegionCells ==
    ASSUME NEW op \in OpType, NEW ring \in RingType, RingFormed(ring), Within(op, ring),
           NEW c \in op.offset .. op.offset + op.size - 1
    PROVE  c \in 0 .. ring.size - 1
PROOF
<1>1. op.offset \in Nat /\ op.size \in Nat
  BY DEF OpType
<1>2. /\ ring.size \in Nat \ {0} /\ ring.write \in Nat /\ ring.read \in Nat
      /\ ring.contiguous \in BOOLEAN
  BY DEF RingType
<1>3. op.offset + op.size <= ring.size
  BY <1>1, <1>2 DEF Within, RingFormed
<1> QED
  BY <1>1, <1>2, <1>3

\* An operation that covers a place is a write, with a cell of its ring.
LEMMA CoveringWrite ==
    ASSUME NEW ops \in Seq(OpType), NEW rings \in Seq(RingType), rings # <<>>,
           Shape(ops, rings), NEW i \in 1 .. Len(ops), NEW p \in Places, Covers(ops[i], p)
    PROVE  /\ ops[i] \in OpType /\ ops[i].op = "Write" /\ ops[i].ring \in Ids(rings)
           /\ RingOf(rings, ops[i].ring) \in RingType
           /\ RingFormed(RingOf(rings, ops[i].ring))
           /\ Within(ops[i], RingOf(rings, ops[i].ring))
           /\ ops[i].size \in Nat \ {0} /\ ops[i].used <= ops[i].size /\ ops[i].offset \in Nat
           /\ ops[i].offset + p - ops[i].arg \in ops[i].offset .. ops[i].offset + ops[i].used - 1
           /\ ops[i].offset + p - ops[i].arg \in ops[i].offset .. ops[i].offset + ops[i].size - 1
           /\ ops[i].offset + p - ops[i].arg \in 0 .. RingOf(rings, ops[i].ring).size - 1
           /\ DatumOf(rings, ops[i], p) =
                 RingOf(rings, ops[i].ring).cells[ops[i].offset + p - ops[i].arg]
PROOF
<1> DEFINE op == ops[i]
           c == op.offset + p - op.arg
<1>1. RingsOrdered(rings) /\ OpsFormed(ops) /\ RegionsHeld(ops, rings)
  BY DEF Shape
<1>2. op \in OpType
  OBVIOUS
<1>3. op.used \in Nat /\ op.size \in Nat /\ op.offset \in Nat /\ op.arg \in Nat
  BY <1>2 DEF OpType
<1>4. op.used <= op.size /\ (op.size = 0 <=> op.op # "Write")
  BY <1>1 DEF OpsFormed
<1>5. c \in op.offset .. op.offset + op.used - 1 /\ op.used > 0
  BY <1>2, <1>4, CoveredCell
<1>6. op.size \in Nat \ {0} /\ op.op = "Write"
  BY <1>3, <1>4, <1>5
<1>7. op.ring \in Ids(rings) /\ Within(op, RingOf(rings, op.ring))
  BY <1>1, <1>6 DEF RegionsHeld
<1>8. RingOf(rings, op.ring) \in RingType /\ RingFormed(RingOf(rings, op.ring))
  BY <1>1, <1>7, RingsByNumber DEF RingsOrdered
<1>9. c \in op.offset .. op.offset + op.size - 1
  BY <1>3, <1>4, <1>5
<1>10. c \in 0 .. RingOf(rings, op.ring).size - 1
  BY <1>2, <1>7, <1>8, <1>9, RegionCells
<1>11. DatumOf(rings, op, p) = RingOf(rings, op.ring).cells[c]
  BY <1>1, <1>2, <1>7, DatumInRing
<1> QED
  BY <1>2, <1>3, <1>4, <1>5, <1>6, <1>7, <1>8, <1>9, <1>10, <1>11

\* Popping the oldest ring changes no cell but those that are popped.
LEMMA PoppedCells ==
    ASSUME NEW rings \in Seq(RingType), rings # <<>>, RingsOrdered(rings),
           NEW op \in OpType, op.offset = rings[1].read, op.size > 0, Within(op, rings[1]),
           NEW n \in 0 .. op.size,
           NEW others, others = Replaced(rings, 1, Pop(rings[1], n))
    PROVE  /\ others \in Seq(RingType) /\ others # <<>> /\ RingsOrdered(others)
           /\ Ids(others) = Ids(rings)
           /\ \A id \in Ids(rings) : \A c \in 0 .. RingOf(rings, id).size - 1 :
                 (id = rings[1].id => c \notin op.offset .. op.offset + n - 1) =>
                    RingOf(others, id).cells[c] = RingOf(rings, id).cells[c]
PROOF
<1> DEFINE first == rings[1]
           popped == Pop(first, n)
<1>1. first \in RingType /\ RingFormed(first) /\ 1 \in 1 .. Len(rings)
  BY RingsByNumber DEF RingsOrdered
<1>2. /\ popped \in RingType /\ RingFormed(popped)
      /\ popped.id = first.id /\ popped.size = first.size
      /\ \A c \in 0 .. first.size - 1 :
            c \notin first.read .. first.read + n - 1 => popped.cells[c] = first.cells[c]
  BY <1>1, Popped
<1>3. others = Replaced(rings, 1, popped)
  OBVIOUS
<1> HIDE DEF popped
<1>4. /\ others \in Seq(RingType) /\ others # <<>> /\ Ids(others) = Ids(rings)
      /\ RingsOrdered(others)
      /\ \A id \in Ids(rings) : id # rings[1].id => RingOf(others, id) = RingOf(rings, id)
      /\ RingOf(others, rings[1].id) = popped
      /\ RingOf(rings, rings[1].id) = rings[1]
  <2>1. 1 > 1 => popped.read = 0
    OBVIOUS
  <2> QED
    BY <1>1, <1>2, <1>3, <2>1, RingsReplaced
<1>5. ASSUME NEW id \in Ids(rings), NEW c \in 0 .. RingOf(rings, id).size - 1,
             id = rings[1].id => c \notin op.offset .. op.offset + n - 1
      PROVE  RingOf(others, id).cells[c] = RingOf(rings, id).cells[c]
  <2>1. CASE id = rings[1].id
    BY <1>2, <1>4, <1>5, <2>1
  <2>2. CASE id # rings[1].id
    BY <1>4, <2>2
  <2> QED
    BY <2>1, <2>2
<1> QED
  BY <1>4, <1>5

LEMMA CellOutside ==
    ASSUME NEW offset \in Nat, NEW size \in Nat, NEW other \in Nat, NEW its \in Nat,
           NEW n \in Nat, n <= its,
           NEW c \in Int, offset <= c, c <= offset + size - 1,
           other + its <= offset \/ offset + size <= other
    PROVE  ~(other <= c /\ c <= other + n - 1)
  OBVIOUS

\* What the other writes have stays in the rings.
LEMMA OthersKept ==
    ASSUME NEW ops \in Seq(OpType), NEW rings \in Seq(RingType), ops # <<>>,
           rings # <<>>, Shape(ops, rings), ops[1].op = "Write",
           NEW n \in 0 .. ops[1].size,
           NEW others, others = Replaced(rings, 1, Pop(rings[1], n)),
           NEW p \in Places, NEW i \in 2 .. Len(ops), Covers(ops[i], p)
    PROVE  DatumOf(others, ops[i], p) = DatumOf(rings, ops[i], p)
PROOF
<1> DEFINE op == ops[1]
           c == ops[i].offset + p - ops[i].arg
<1>1. op \in OpType /\ op.size \in Nat /\ op.offset \in Nat /\ i \in 1 .. Len(ops) /\ i # 1
      /\ 1 \in 1 .. Len(ops) /\ n \in 0 .. op.size
  <2>1. op \in OpType /\ 1 \in 1 .. Len(ops) /\ i \in 1 .. Len(ops) /\ i # 1
    OBVIOUS
  <2>2. op.size \in Nat /\ op.offset \in Nat
    BY <2>1 DEF OpType
  <2> QED
    BY <2>1, <2>2
<1>2. op.ring = rings[1].id /\ op.offset = rings[1].read /\ Within(op, rings[1]) /\ op.size > 0
  BY FirstWrite
<1>3. RingsOrdered(rings) /\ RegionsHeld(ops, rings)
  BY DEF Shape
<1>4. /\ others \in Seq(RingType) /\ others # <<>> /\ RingsOrdered(others)
      /\ Ids(others) = Ids(rings)
      /\ \A id \in Ids(rings) : \A d \in 0 .. RingOf(rings, id).size - 1 :
            (id = rings[1].id => d \notin op.offset .. op.offset + n - 1) =>
               RingOf(others, id).cells[d] = RingOf(rings, id).cells[d]
  BY <1>1, <1>2, <1>3, PoppedCells
<1>5. /\ ops[i] \in OpType /\ ops[i].op = "Write" /\ ops[i].ring \in Ids(rings)
      /\ ops[i].size \in Nat \ {0} /\ ops[i].offset \in Nat
      /\ c \in ops[i].offset .. ops[i].offset + ops[i].size - 1
      /\ c \in 0 .. RingOf(rings, ops[i].ring).size - 1
      /\ DatumOf(rings, ops[i], p) = RingOf(rings, ops[i].ring).cells[c]
  BY <1>1, CoveringWrite
<1>6. ops[i].ring = rings[1].id => Apart(op, ops[i])
  BY <1>1, <1>2, <1>3, <1>5 DEF RegionsHeld
<1> HIDE DEF c, op
<1>7. ops[i].ring = rings[1].id => c \notin op.offset .. op.offset + n - 1
  <2> SUFFICES ASSUME ops[i].ring = rings[1].id
               PROVE  ~(op.offset <= c /\ c <= op.offset + n - 1)
    OBVIOUS
  <2>1. \/ op.offset + op.size <= ops[i].offset
        \/ ops[i].offset + ops[i].size <= op.offset
    BY <1>6 DEF Apart
  <2>2. c \in Int /\ ops[i].offset <= c /\ c <= ops[i].offset + ops[i].size - 1
    BY <1>5
  <2>3. n \in Int /\ 0 <= n /\ n <= op.size
    BY <1>1
  <2>4. /\ op.offset \in Nat /\ op.size \in Nat /\ ops[i].offset \in Nat
        /\ ops[i].size \in Nat
    BY <1>1, <1>5
  <2>5. n \in Nat
    BY <2>3
  <2> QED
    BY <2>1, <2>2, <2>3, <2>4, <2>5, CellOutside
<1>8. RingOf(others, ops[i].ring).cells[c] = RingOf(rings, ops[i].ring).cells[c]
  BY <1>4, <1>5, <1>7
<1>9. DatumOf(others, ops[i], p) = RingOf(others, ops[i].ring).cells[c]
  BY <1>4, <1>5, DatumInRing DEF c
<1> QED
  BY <1>5, <1>8, <1>9

\* The first n bytes of op are in the content.
Moved(op, rings, n, content, after, p) ==
    after[p] = IF p \in op.arg .. op.arg + n - 1
               THEN DatumOf(rings, op, p) ELSE content[p]

\* All of the first write goes to the content.
LEMMA OutcomeDone ==
    ASSUME NEW ops \in Seq(OpType), NEW rings \in Seq(RingType), ops # <<>>,
           rings # <<>>, Shape(ops, rings), ops[1].op = "Write",
           NEW content, NEW after, NEW p \in Places,
           Moved(ops[1], rings, ops[1].used, content, after, p)
    PROVE  OutcomeAt(after, Tail(ops), Replaced(rings, 1, Pop(rings[1], ops[1].size)), p)
              = OutcomeAt(content, ops, rings, p)
PROOF
<1> DEFINE others == Replaced(rings, 1, Pop(rings[1], ops[1].size))
<1>4. others = Replaced(rings, 1, Pop(rings[1], ops[1].size))
  OBVIOUS
<1> HIDE DEF others
<1>1. ops[1].size \in 0 .. ops[1].size
  <2>1. ops[1] \in OpType
    OBVIOUS
  <2> QED
    BY <2>1 DEF OpType
<1>2. after[p] = IF Covers(ops[1], p) THEN DatumOf(rings, ops[1], p) ELSE content[p]
  <2>1. Covers(ops[1], p) <=> p \in ops[1].arg .. ops[1].arg + ops[1].used - 1
    <3>1. ops[1] \in OpType
      OBVIOUS
    <3> QED
      BY <3>1 DEF Covers, EndOffset, OpType
  <2> QED
    BY <2>1 DEF Moved
<1>3. ASSUME NEW i \in 2 .. Len(ops), Covers(ops[i], p)
      PROVE  DatumOf(others, ops[i], p) = DatumOf(rings, ops[i], p)
  BY <1>1, <1>3, <1>4, OthersKept
<1>5. \A i \in 2 .. Len(ops) : Covers(ops[i], p) =>
          DatumOf(others, ops[i], p) = DatumOf(rings, ops[i], p)
  BY <1>3
<1>6. OutcomeAt(after, Tail(ops), others, p) = OutcomeAt(content, ops, rings, p)
  BY SMTT(30), <1>2, <1>5, OutcomeTail
<1> QED
  BY <1>4, <1>6

\* The data are the same where the cell is.
LEMMA DatumAlike ==
    ASSUME NEW rings \in Seq(RingType), rings # <<>>, RingsOrdered(rings),
           NEW others \in Seq(RingType), others # <<>>, RingsOrdered(others),
           NEW op \in OpType, op.ring \in Ids(rings), op.ring \in Ids(others), NEW p,
           RingOf(others, op.ring).cells[op.offset + p - op.arg]
              = RingOf(rings, op.ring).cells[op.offset + p - op.arg]
    PROVE  DatumOf(others, op, p) = DatumOf(rings, op, p)
  BY DatumInRing

\* A place that an operation without data does not write.
LEMMA NothingCovered ==
    ASSUME NEW op \in OpType, op.used = 0, NEW p \in Places
    PROVE  ~Covers(op, p)
  BY DEF Covers, EndOffset, OpType, Places

\* A ring of this size is appended.
Grown(rings, size, others) ==
    /\ others = Append(rings, Ring(rings[1].id + Len(rings), size))
    /\ others \in Seq(RingType)

\* Reconfigure appends a ring, which no write uses yet.
LEMMA OutcomeReconfigure ==
    ASSUME NEW ops \in Seq(OpType), NEW rings \in Seq(RingType), NEW x \in OpType,
           rings # <<>>, Shape(ops, rings), NEW size \in Nat \ {0},
           x.op = "PopBuffer", x.size = 0, x.used = 0,
           NEW others, Grown(rings, size, others),
           NEW content, NEW p \in Places
    PROVE  OutcomeAt(content, Append(ops, x), others, p) = OutcomeAt(content, ops, rings, p)
PROOF
<1>1. RingsOrdered(others) /\ RingsOrdered(rings) /\ others \in Seq(RingType)
  <2>1. others = Append(rings, Ring(rings[1].id + Len(rings), size))
        /\ others \in Seq(RingType)
    BY DEF Grown
  <2> QED
    BY <2>1, ShapeReconfigure DEF Shape
<1>2. Len(rings) \in Nat \ {0} /\ rings[1].id \in Nat
  BY RingsByNumber
<1>3. Len(others) = Len(rings) + 1 /\ others # <<>>
      /\ \A j \in 1 .. Len(rings) : others[j] = rings[j]
  <2> DEFINE ring == Ring(rings[1].id + Len(rings), size)
  <2> HIDE DEF ring
  <2>1. others = Append(rings, ring)
    BY DEF ring, Grown
  <2> QED
    BY <1>2, <2>1
<1>4. others[1] = rings[1]
  BY <1>2, <1>3
<1>5. ASSUME NEW id \in Ids(rings)
      PROVE  id \in Ids(others) /\ RingOf(others, id) = RingOf(rings, id)
  <2>1. id - rings[1].id + 1 \in 1 .. Len(rings)
    BY RingsByNumber
  <2>2. id \in Ids(others)
    BY <1>2, <1>3, <1>4 DEF Ids
  <2> QED
    BY <1>3, <1>4, <2>1, <2>2 DEF RingOf
<1>6. ~Covers(x, p)
  BY NothingCovered
<1>7. ASSUME NEW i \in 1 .. Len(ops), Covers(ops[i], p)
      PROVE  DatumOf(others, ops[i], p) = DatumOf(rings, ops[i], p)
  <2>1. ops[i] \in OpType /\ ops[i].ring \in Ids(rings)
    BY <1>7, CoveringWrite
  <2> QED
    BY <1>1, <1>3, <1>5, <2>1, DatumAlike
<1> QED
  BY <1>6, <1>7, OutcomeAppend

\* A ring that is given up has no data of any write.
LEMMA OutcomePop ==
    ASSUME NEW ops \in Seq(OpType), NEW rings \in Seq(RingType), ops # <<>>,
           rings # <<>>, Shape(ops, rings), ops[1].op = "PopBuffer",
           NEW content, NEW p \in Places
    PROVE  OutcomeAt(content, Tail(ops), Tail(rings), p) = OutcomeAt(content, ops, rings, p)
PROOF
<1> DEFINE others == Tail(rings)
<1>1. /\ others # <<>> /\ others[1].id = rings[1].id + 1
      /\ \A i \in 2 .. Len(ops) : ops[i].op = "Write" =>
            ops[i].ring \in Ids(rings) /\ ops[i].ring > rings[1].id
      /\ RingsOrdered(others) /\ RingsOrdered(rings) /\ OpsFormed(ops)
  BY ShapePop DEF Shape
<1>2. /\ others \in Seq(RingType) /\ Len(rings) \in Nat \ {0} /\ rings[1].id \in Nat
      /\ Len(others) = Len(rings) - 1
      /\ \A j \in 1 .. Len(rings) - 1 : others[j] = rings[j + 1]
  BY Tailed, RingsByNumber
<1> HIDE DEF others
<1>3. 1 \in 1 .. Len(ops) /\ ops[1] \in OpType
  OBVIOUS
<1>4. ops[1].used = 0
  BY <1>1, <1>3 DEF OpsFormed, OpType
<1>5. ~Covers(ops[1], p)
  BY <1>3, <1>4, NothingCovered
<1>6. ASSUME NEW i \in 2 .. Len(ops), Covers(ops[i], p)
      PROVE  DatumOf(others, ops[i], p) = DatumOf(rings, ops[i], p)
  <2>1. i \in 1 .. Len(ops)
    BY <1>3
  <2>2. ops[i] \in OpType /\ ops[i].ring \in Ids(rings) /\ ops[i].op = "Write"
    BY <1>6, <2>1, CoveringWrite
  <2> DEFINE id == ops[i].ring
  <2>3. id > rings[1].id /\ id \in Nat
    BY <1>1, <2>2 DEF OpType
  <2>4. id \in Ids(rings)
    BY <2>2
  <2> HIDE DEF id
  <2>5. id \in Ids(others)
    BY <1>1, <1>2, <2>3, <2>4 DEF Ids
  <2>6. id - rings[1].id \in 1 .. Len(rings) - 1 /\ id - others[1].id + 1 = id - rings[1].id
    BY <1>1, <1>2, <2>3, <2>4 DEF Ids
  <2>7. RingOf(others, id) = RingOf(rings, id)
    BY <1>2, <2>6 DEF RingOf
  <2> QED
    BY <1>1, <1>2, <2>2, <2>5, <2>7, DatumAlike DEF id
<1> QED
  <2>1. content[p] = IF Covers(ops[1], p) THEN DatumOf(rings, ops[1], p) ELSE content[p]
    BY <1>5
  <2> QED
    BY <1>6, <2>1, OutcomeTail DEF others

LEMMA CoversWhere ==
    ASSUME NEW x, NEW p, NEW arg \in Nat, NEW used \in Nat, x.arg = arg, x.used = used
    PROVE  Covers(x, p) <=> p \in arg .. arg + used - 1
  BY DEF Covers, EndOffset

\* The places that are left when the first n of a write are written.
LEMMA RestPlaces ==
    ASSUME NEW arg \in Nat, NEW used \in Nat, NEW n \in Nat, n <= used, NEW p \in Int,
           p \notin arg + n .. arg + n + (used - n) - 1
    PROVE  p \in arg .. arg + used - 1 <=> p \in arg .. arg + n - 1
  OBVIOUS

\* n bytes are a part of what op writes.
PartOf(op, n) == n \in Nat /\ n < op.used

\* The outcome stays the same when n bytes of the first of ops are written.
PartWritten(content, after, ops, rings, n, p) ==
    OutcomeAt(after, Replaced(ops, 1, PopWriteData(ops[1], n)),
              Replaced(rings, 1, Pop(rings[1], n)), p)
       = OutcomeAt(content, ops, rings, p)

\* A part of the first write goes from its region to the content.
LEMMA OutcomeWritten ==
    ASSUME NEW ops \in Seq(OpType), NEW rings \in Seq(RingType), ops # <<>>,
           rings # <<>>, Shape(ops, rings), ops[1].op = "Write",
           NEW n, PartOf(ops[1], n),
           NEW content, NEW after, NEW p \in Places,
           Moved(ops[1], rings, n, content, after, p)
    PROVE  PartWritten(content, after, ops, rings, n, p)
PROOF
<1>15. n \in Nat /\ n < ops[1].used
  BY DEF PartOf
<1> DEFINE left == Replaced(ops, 1, PopWriteData(ops[1], n))
           others == Replaced(rings, 1, Pop(rings[1], n))
<1>14. /\ left = Replaced(ops, 1, PopWriteData(ops[1], n))
       /\ others = Replaced(rings, 1, Pop(rings[1], n))
  OBVIOUS
<1> HIDE DEF left, others
<1> DEFINE op == ops[1]
           rest == PopWriteData(op, n)
<1>1. 1 \in 1 .. Len(ops) /\ op \in OpType /\ Len(ops) \in Nat \ {0}
  OBVIOUS
<1>2. /\ op.ring = rings[1].id /\ op.offset = rings[1].read /\ Within(op, rings[1])
      /\ op.size > 0 /\ op.used <= op.size
  BY FirstWrite
<1>3. /\ op.size \in Nat /\ op.used \in Nat /\ op.offset \in Nat /\ op.arg \in Nat
      /\ n \in 0 .. op.size /\ n <= op.used
  BY <1>1, <1>2, <1>15 DEF OpType
<1>4. /\ rest \in OpType /\ rest.op = op.op /\ rest.ring = op.ring
      /\ rest.offset = op.offset + n /\ rest.arg = op.arg + n
      /\ rest.size = op.size - n /\ rest.used = op.used - n
  BY <1>1, <1>2, <1>3, <1>15, PartOfWrite
<1>5. /\ left \in Seq(OpType) /\ Len(left) = Len(ops)
      /\ \A i \in 1 .. Len(ops) : left[i] = IF i = 1 THEN rest ELSE ops[i]
  BY <1>1, <1>4, <1>14, ExceptSeq DEF Replaced
<1> HIDE DEF rest
<1>6. RingsOrdered(rings) /\ OpsFormed(ops) /\ RegionsHeld(ops, rings)
  BY DEF Shape
<1>7. /\ others \in Seq(RingType) /\ others # <<>> /\ RingsOrdered(others)
      /\ Ids(others) = Ids(rings)
      /\ \A id \in Ids(rings) : \A c \in 0 .. RingOf(rings, id).size - 1 :
            (id = rings[1].id => c \notin op.offset .. op.offset + n - 1) =>
               RingOf(others, id).cells[c] = RingOf(rings, id).cells[c]
  BY <1>1, <1>2, <1>3, <1>6, <1>14, PoppedCells
<1>8. \A i \in 2 .. Len(ops) : left[i] = ops[i] /\ i \in 1 .. Len(ops)
  BY <1>1, <1>5
<1>9. left[1] = rest
  BY <1>1, <1>5
<1>10. p \in Int
  BY DEF Places
<1>11. ASSUME Covers(rest, p)
       PROVE  Covers(op, p) /\ DatumOf(others, rest, p) = DatumOf(rings, op, p)
  <2>1. op.arg + n <= p /\ p <= op.arg + op.used - 1
    BY <1>3, <1>4, <1>10, <1>11 DEF Covers, EndOffset
  <2>2. Covers(op, p)
    BY <1>3, <1>10, <2>1 DEF Covers, EndOffset
  <2> DEFINE c == op.offset + p - op.arg
  <2>3. /\ op.ring \in Ids(rings) /\ c \in 0 .. RingOf(rings, op.ring).size - 1
        /\ DatumOf(rings, op, p) = RingOf(rings, op.ring).cells[c]
    BY <1>1, <2>2, CoveringWrite
  <2>4. c \notin op.offset .. op.offset + n - 1
    BY <1>3, <1>10, <2>1
  <2>5. RingOf(others, op.ring).cells[c] = RingOf(rings, op.ring).cells[c]
    BY <1>7, <2>3, <2>4
  <2>6. DatumOf(others, rest, p) = RingOf(others, rest.ring).cells[rest.offset + p - rest.arg]
    BY <1>4, <1>7, <2>3, DatumInRing
  <2>7. rest.offset + p - rest.arg = c
    BY <1>3, <1>4, <1>10
  <2> QED
    BY <1>4, <2>2, <2>3, <2>5, <2>6, <2>7
<1>12. ASSUME ~Covers(rest, p)
       PROVE  after[p] = IF Covers(op, p) THEN DatumOf(rings, op, p) ELSE content[p]
  <2>1. Covers(op, p) <=> p \in op.arg .. op.arg + n - 1
    <3>1. p \notin op.arg + n .. op.arg + n + (op.used - n) - 1
      <4>1. rest.arg = op.arg + n /\ rest.used = op.used - n
        BY <1>4
      <4>2. Covers(rest, p) <=> p \in op.arg + n .. op.arg + n + (op.used - n) - 1
        <5>1. op.arg + n \in Nat /\ op.used - n \in Nat
          BY <1>3
        <5> QED
          BY <4>1, <5>1, CoversWhere
      <4> QED
        BY <1>12, <4>2
    <3>2. Covers(op, p) <=> p \in op.arg .. op.arg + op.used - 1
      BY <1>3, <1>10 DEF Covers, EndOffset
    <3> DEFINE a == op.arg
               u == op.used
    <3>3. a \in Nat /\ u \in Nat /\ n \in Nat /\ n <= u /\ p \in Int
      BY <1>3, <1>10
    <3> HIDE DEF a, u
    <3>4. p \notin a + n .. a + n + (u - n) - 1
      BY <3>1 DEF a, u
    <3>5. p \in a .. a + u - 1 <=> p \in a .. a + n - 1
      BY <3>3, <3>4, RestPlaces
    <3> QED
      BY <3>2, <3>5 DEF a, u
  <2> QED
    BY <2>1 DEF Moved
<1>13. ASSUME NEW i \in 2 .. Len(ops), Covers(ops[i], p)
       PROVE  DatumOf(others, ops[i], p) = DatumOf(rings, ops[i], p)
  <2> HIDE DEF op
  <2>1. n \in 0 .. ops[1].size
    BY <1>3 DEF op
  <2> QED
    BY <1>13, <2>1, <1>14, OthersKept
<1> QED
  <2>1. Covers(left[1], p) =>
           Covers(ops[1], p) /\ DatumOf(others, left[1], p) = DatumOf(rings, ops[1], p)
    BY <1>9, <1>11
  <2>2. /\ ~Covers(left[1], p) /\ Covers(ops[1], p) => after[p] = DatumOf(rings, ops[1], p)
        /\ ~Covers(left[1], p) /\ ~Covers(ops[1], p) => after[p] = content[p]
    BY <1>9, <1>12
  <2>3. left \in Seq(OpType) /\ Len(left) = Len(ops) /\ \A i \in 2 .. Len(ops) : left[i] = ops[i]
    BY <1>5, <1>8
  <2>4. \A i \in 2 .. Len(ops) : Covers(ops[i], p) =>
           DatumOf(others, ops[i], p) = DatumOf(rings, ops[i], p)
    BY <1>13
  <2>5. PartKept(content, after, ops, rings, left, others, p)
    BY <2>1, <2>2, <2>3, <2>4 DEF PartKept
  <2> QED
    BY <2>3, <2>5, OutcomePart DEF left, others, PartWritten

\* A new region has nothing that is used.
LEMMA OutcomeNew ==
    ASSUME NEW ops \in Seq(OpType), NEW rings \in Seq(RingType), NEW x \in OpType,
           rings # <<>>, Shape(ops, rings), NEW k \in Nat \ {0},
           k <= WriterSize(rings[Len(rings)]),
           x.op = "Write", x.ring = rings[Len(rings)].id,
           x.offset = rings[Len(rings)].write, x.size = k, x.used = 0,
           NEW others,
           others = Replaced(rings, Len(rings), Push(rings[Len(rings)], k)),
           NEW content, NEW p \in Places
    PROVE  OutcomeAt(content, Append(ops, x), others, p) = OutcomeAt(content, ops, rings, p)
PROOF
<1> DEFINE m == Len(rings)
           last == rings[m]
           pushed == Push(last, k)
<1>1. RingsOrdered(rings)
  BY DEF Shape
<1>2. m \in 1 .. Len(rings) /\ last \in RingType /\ RingFormed(last) /\ (m > 1 => last.read = 0)
  <2>1. Len(rings) \in 1 .. Len(rings) /\ rings[Len(rings)] \in RingType
    BY RingsByNumber
  <2> QED
    BY <1>1, <2>1 DEF RingsOrdered
<1>3. /\ pushed \in RingType /\ RingFormed(pushed)
      /\ pushed.id = last.id /\ pushed.size = last.size
      /\ pushed.read = last.read /\ pushed.cells = last.cells
  BY <1>2, Pushed
<1>4. others = Replaced(rings, m, pushed)
  OBVIOUS
<1> HIDE DEF pushed
<1>5. m > 1 => pushed.read = 0
  BY <1>2, <1>3
<1> HIDE DEF m
<1>6. /\ others \in Seq(RingType) /\ others # <<>> /\ RingsOrdered(others)
      /\ Ids(others) = Ids(rings)
      /\ \A id \in Ids(rings) : id # rings[m].id => RingOf(others, id) = RingOf(rings, id)
      /\ RingOf(others, rings[m].id) = pushed
      /\ RingOf(rings, rings[m].id) = rings[m]
  BY <1>1, <1>2, <1>3, <1>4, <1>5, RingsReplaced
<1>7. \A id \in Ids(rings) : RingOf(others, id).cells = RingOf(rings, id).cells
  BY <1>3, <1>6
<1>8. ~Covers(x, p)
  BY NothingCovered
<1>9. ASSUME NEW i \in 1 .. Len(ops), Covers(ops[i], p)
      PROVE  DatumOf(others, ops[i], p) = DatumOf(rings, ops[i], p)
  <2>1. ops[i] \in OpType /\ ops[i].ring \in Ids(rings)
    BY <1>9, CoveringWrite
  <2> QED
    BY <1>1, <1>6, <1>7, <2>1, DatumAlike
<1> QED
  BY <1>8, <1>9, OutcomeAppend

\* The rings when n cells of one of them get b.
Filled(rings, id, first, n, b) ==
    [j \in DOMAIN rings |->
        IF rings[j].id # id THEN rings[j]
        ELSE [rings[j] EXCEPT !.cells =
                [c \in DOMAIN @ |-> IF c \in first .. first + n - 1 THEN b ELSE @[c]]]]

\* Of these rings only the cells that get b are others.
FilledAs(rings, others, id, first, n, b) ==
    /\ others \in Seq(RingType) /\ others # <<>> /\ Len(others) = Len(rings)
    /\ Ids(others) = Ids(rings)
    /\ \A j \in 1 .. Len(rings) :
          /\ others[j].id = rings[j].id /\ others[j].size = rings[j].size
          /\ others[j].write = rings[j].write /\ others[j].read = rings[j].read
          /\ others[j].contiguous = rings[j].contiguous
          /\ RingFormed(others[j])
    /\ RingsOrdered(others)
    /\ \A i \in Ids(rings) : \A c \in 0 .. RingOf(rings, i).size - 1 :
          RingOf(others, i).cells[c] =
             IF i = id /\ c \in first .. first + n - 1 THEN b
             ELSE RingOf(rings, i).cells[c]

LEMMA FilledRings ==
    ASSUME NEW rings \in Seq(RingType), rings # <<>>, RingsOrdered(rings),
           NEW id \in Ids(rings), NEW first \in Nat, NEW n \in Nat, NEW b \in Bytes
    PROVE  FilledAs(rings, Filled(rings, id, first, n, b), id, first, n, b)
PROOF
<1> DEFINE others == Filled(rings, id, first, n, b)
<1>1. Len(rings) \in Nat \ {0} /\ rings[1].id \in Nat /\ DOMAIN rings = 1 .. Len(rings)
  BY RingsByNumber
<1> DEFINE filled(ring) ==
              [ring EXCEPT !.cells =
                 [c \in DOMAIN @ |-> IF c \in first .. first + n - 1 THEN b ELSE @[c]]]
<1>2. ASSUME NEW ring \in RingType, RingFormed(ring)
      PROVE  /\ filled(ring) \in RingType /\ RingFormed(filled(ring))
             /\ filled(ring).id = ring.id /\ filled(ring).size = ring.size
             /\ filled(ring).write = ring.write /\ filled(ring).read = ring.read
             /\ filled(ring).contiguous = ring.contiguous
             /\ \A c \in 0 .. ring.size - 1 :
                   filled(ring).cells[c] =
                      IF c \in first .. first + n - 1 THEN b ELSE ring.cells[c]
  <2> DEFINE cells == [c \in 0 .. ring.size - 1 |->
                         IF c \in first .. first + n - 1 THEN b ELSE ring.cells[c]]
             after == [ring EXCEPT !.cells = cells]
  <2>1. /\ ring.size \in Nat \ {0} /\ ring.id \in Nat /\ ring.write \in Nat /\ ring.read \in Nat
        /\ ring.contiguous \in BOOLEAN /\ ring.cells \in [0 .. ring.size - 1 -> Contents]
    BY <1>2 DEF RingType, RingFormed
  <2>2. cells \in [0 .. ring.size - 1 -> Contents]
    BY <2>1 DEF Contents
  <2>3. filled(ring) = after
    BY <2>1
  <2>4. cells \in UNION {[0 .. s - 1 -> Contents] : s \in Nat \ {0}}
    BY <2>1, <2>2
  <2>7. \A c \in 0 .. ring.size - 1 :
           cells[c] = IF c \in first .. first + n - 1 THEN b ELSE ring.cells[c]
    OBVIOUS
  <2> HIDE DEF cells, filled
  <2>5. /\ after \in RingType
        /\ after.id = ring.id /\ after.size = ring.size /\ after.write = ring.write
        /\ after.read = ring.read /\ after.contiguous = ring.contiguous
        /\ after.cells = cells
    BY <1>2, <2>4 DEF RingType
  <2> HIDE DEF after
  <2>6. RingFormed(after)
    BY <1>2, <2>2, <2>5 DEF RingFormed
  <2> QED
    BY <2>3, <2>5, <2>6, <2>7
<1>3. /\ DOMAIN others = 1 .. Len(rings)
      /\ \A j \in 1 .. Len(rings) :
            others[j] = IF rings[j].id # id THEN rings[j] ELSE filled(rings[j])
      /\ others = [j \in 1 .. Len(rings) |-> others[j]]
  BY <1>1 DEF Filled
<1> HIDE DEF filled, others
<1>4. \A j \in 1 .. Len(rings) : rings[j] \in RingType /\ RingFormed(rings[j])
  BY DEF RingsOrdered
<1>5. \A j \in 1 .. Len(rings) :
         /\ others[j] \in RingType
         /\ others[j].id = rings[j].id /\ others[j].size = rings[j].size
         /\ others[j].write = rings[j].write /\ others[j].read = rings[j].read
         /\ others[j].contiguous = rings[j].contiguous
         /\ RingFormed(others[j])
  BY <1>2, <1>3, <1>4
<1>6. others \in [1 .. Len(rings) -> RingType]
  BY <1>3, <1>5
<1>7. others \in Seq(RingType) /\ Len(others) = Len(rings) /\ others # <<>>
  BY <1>1, <1>6
<1>8. others[1].id = rings[1].id
  BY <1>1, <1>5
<1>9. Ids(others) = Ids(rings)
  BY <1>7, <1>8 DEF Ids
<1>10. RingsOrdered(others)
  BY <1>5, <1>7, <1>8 DEF RingsOrdered
<1>11. ASSUME NEW i \in Ids(rings), NEW c \in 0 .. RingOf(rings, i).size - 1
       PROVE  RingOf(others, i).cells[c] =
                 IF i = id /\ c \in first .. first + n - 1 THEN b
                 ELSE RingOf(rings, i).cells[c]
  <2> DEFINE j == i - rings[1].id + 1
  <2>1. j \in 1 .. Len(rings) /\ RingOf(rings, i) = rings[j] /\ RingOf(others, i) = others[j]
    BY <1>8, RingsByNumber DEF RingOf
  <2>2. rings[j].id = i
    <3>1. i \in Int /\ rings[j].id = rings[1].id + j - 1
      BY <1>1, <2>1 DEF RingsOrdered, Ids
    <3> QED
      BY <1>1, <3>1
  <2> HIDE DEF j
  <2> QED
    BY <1>2, <1>3, <1>4, <2>1, <2>2
<1>12. FilledAs(rings, others, id, first, n, b)
  BY <1>5, <1>7, <1>9, <1>10, <1>11 DEF FilledAs
<1> QED
  BY <1>12 DEF others

\* The cell of a place that is written into the free part of a region.
LEMMA CellOfPlace ==
    ASSUME NEW offset \in Nat, NEW arg \in Nat, NEW used \in Nat, NEW size \in Nat,
           NEW n \in Nat, used + n <= size,
           NEW p \in Int, p \in arg + used .. arg + used + n - 1
    PROVE  /\ offset + p - arg \in offset + used .. offset + used + n - 1
           /\ offset + p - arg \in offset .. offset + size - 1
  OBVIOUS

\* A cell of another region is not there.
LEMMA CellApart ==
    ASSUME NEW offset \in Nat, NEW size \in Nat, NEW other \in Nat, NEW its \in Nat,
           NEW used \in Nat, NEW n \in Nat, used + n <= its,
           NEW c \in Int, offset <= c, c <= offset + size - 1,
           offset + size <= other \/ other + its <= offset
    PROVE  ~(other + used <= c /\ c <= other + used + n - 1)
  OBVIOUS

\* Where a region that is used further ends.
LEMMA FurtherPlace ==
    ASSUME NEW arg \in Nat, NEW used \in Nat, NEW n \in Nat, NEW p \in Int,
           p \notin arg + used .. arg + used + n - 1
    PROVE  p \in arg .. arg + (used + n) - 1 <=> p \in arg .. arg + used - 1
  OBVIOUS

LEMMA FurtherPlaces ==
    ASSUME NEW arg \in Nat, NEW used \in Nat, NEW n \in Nat, NEW p \in Int,
           p \in arg + used .. arg + used + n - 1
    PROVE  p \in arg .. arg + (used + n) - 1
  OBVIOUS

LEMMA OpFields ==
    ASSUME NEW op \in OpType
    PROVE  /\ op.arg \in Nat /\ op.ring \in Nat /\ op.offset \in Nat
           /\ op.size \in Nat /\ op.used \in Nat
  BY DEF OpType

\* A write that uses more of its region.
Used(op, n) == [op EXCEPT !.used = @ + n]

LEMMA UsedOp ==
    ASSUME NEW op \in OpType, NEW n \in Nat
    PROVE  /\ Used(op, n) \in OpType
           /\ Used(op, n).op = op.op /\ Used(op, n).ring = op.ring
           /\ Used(op, n).offset = op.offset /\ Used(op, n).arg = op.arg
           /\ Used(op, n).size = op.size /\ Used(op, n).used = op.used + n
PROOF
<1> DEFINE more == Used(op, n)
<1>1. /\ op.op \in {"Write", "Sync", "PopBuffer", "Stop", "NoOp"} /\ op.arg \in Nat
      /\ op.ring \in Nat /\ op.offset \in Nat /\ op.size \in Nat /\ op.used \in Nat
      /\ op = [op |-> op.op, arg |-> op.arg, ring |-> op.ring, offset |-> op.offset,
               size |-> op.size, used |-> op.used]
  BY DEF OpType
<1>2. op.used + n \in Nat
  BY <1>1
<1>3. /\ more.op = op.op /\ more.ring = op.ring
      /\ more.offset = op.offset /\ more.arg = op.arg
      /\ more.size = op.size /\ more.used = op.used + n
  BY DEF Used, OpType
<1>4. more \in OpType
  BY <1>1, <1>2 DEF Used, OpType
<1> QED
  BY <1>3, <1>4 DEF more

\* What the facts about PushWriteData are about: the write at k of ops uses n
\* more cells, which get b, and nothing behind it writes the places of these.
Uses(ops, rings, k, b, n, left, others) ==
    /\ ops[k].op = "Write" /\ ops[k].used + n <= ops[k].size
    /\ left = Replaced(ops, k, Used(ops[k], n))
    /\ others = Filled(rings, ops[k].ring, ops[k].offset + ops[k].used, n, b)

LEMMA UsesShape ==
    ASSUME NEW ops \in Seq(OpType), NEW rings \in Seq(RingType), rings # <<>>,
           Shape(ops, rings), NEW k \in 1 .. Len(ops), NEW b \in Bytes, NEW n \in Nat,
           NEW left, NEW others, Uses(ops, rings, k, b, n, left, others)
    PROVE  /\ left \in Seq(OpType) /\ Len(left) = Len(ops)
           /\ \A i \in 1 .. Len(ops) : left[i] = IF i = k THEN Used(ops[k], n) ELSE ops[i]
           /\ others \in Seq(RingType) /\ others # <<>> /\ Len(others) = Len(rings)
           /\ Ids(others) = Ids(rings)
           /\ \A j \in 1 .. Len(rings) : others[j].id = rings[j].id
           /\ \A i \in Ids(rings) : \A c \in 0 .. RingOf(rings, i).size - 1 :
                 RingOf(others, i).cells[c] =
                    IF /\ i = ops[k].ring
                       /\ c \in ops[k].offset + ops[k].used .. ops[k].offset + ops[k].used + n - 1
                    THEN b ELSE RingOf(rings, i).cells[c]
           /\ Shape(left, others)
PROOF
<1> DEFINE op == ops[k]
           more == Used(op, n)
           first == op.offset + op.used
<1>1. op \in OpType /\ op.op = "Write" /\ op.used + n <= op.size
  BY DEF Uses
<1>2. /\ op.size \in Nat /\ op.used \in Nat /\ op.offset \in Nat /\ first \in Nat
  <2>1. op.size \in Nat /\ op.used \in Nat /\ op.offset \in Nat
    BY <1>1, OpFields
  <2> QED
    BY <2>1
<1>3. /\ more \in OpType /\ more.op = op.op /\ more.ring = op.ring
      /\ more.offset = op.offset /\ more.size = op.size /\ more.used = op.used + n
  BY <1>1, UsedOp
<1>4. RingsOrdered(rings) /\ OpsFormed(ops) /\ RegionsHeld(ops, rings)
  BY DEF Shape
<1>5. op.ring \in Ids(rings)
  BY <1>1, <1>4 DEF RegionsHeld
<1>6. left = Replaced(ops, k, more) /\ others = Filled(rings, op.ring, first, n, b)
  BY DEF Uses
<1> HIDE DEF more, first, op
<1>7. /\ left \in Seq(OpType) /\ Len(left) = Len(ops)
      /\ \A i \in 1 .. Len(ops) : left[i] = IF i = k THEN more ELSE ops[i]
  BY <1>3, <1>6, ExceptSeq DEF Replaced
<1>8. /\ others \in Seq(RingType) /\ others # <<>> /\ Len(others) = Len(rings)
      /\ Ids(others) = Ids(rings)
      /\ \A j \in 1 .. Len(rings) :
            /\ others[j].id = rings[j].id /\ others[j].size = rings[j].size
            /\ others[j].write = rings[j].write /\ others[j].read = rings[j].read
            /\ others[j].contiguous = rings[j].contiguous
            /\ RingFormed(others[j])
      /\ \A i \in Ids(rings) : \A c \in 0 .. RingOf(rings, i).size - 1 :
            RingOf(others, i).cells[c] =
               IF i = op.ring /\ c \in first .. first + n - 1 THEN b
               ELSE RingOf(rings, i).cells[c]
  <2>1. FilledAs(rings, Filled(rings, op.ring, first, n, b), op.ring, first, n, b)
    BY <1>2, <1>4, <1>5, FilledRings
  <2>2. FilledAs(rings, others, op.ring, first, n, b)
    BY <1>6, <2>1
  <2> QED
    BY <2>2 DEF FilledAs
<1>9. \A i \in 1 .. Len(ops) :
         /\ left[i].op = ops[i].op /\ left[i].ring = ops[i].ring
         /\ left[i].offset = ops[i].offset /\ left[i].size = ops[i].size
         /\ left[i].used <= left[i].size
  BY <1>1, <1>3, <1>4, <1>7 DEF OpsFormed, op
<1>10. Shape(left, others)
  BY <1>7, <1>8, <1>9, ShapeKept
<1> QED
  BY <1>7, <1>8, <1>10 DEF more, first, op

\* If p is one of the next n places of the write at k, none behind it writes p.
NothingBehind(ops, k, n, p) ==
    p \in EndOffset(ops[k]) .. EndOffset(ops[k]) + n - 1 =>
       \A i \in k + 1 .. Len(ops) : ~Covers(ops[i], p)

\* What p contains when n places from start on get b, and otherwise this.
WrittenAt(p, start, n, b, otherwise) ==
    IF p \in start .. start + n - 1 THEN b ELSE otherwise

\* The places that are written get b, and the others what they had.
LEMMA OutcomeUses ==
    ASSUME NEW ops \in Seq(OpType), NEW rings \in Seq(RingType), rings # <<>>,
           Shape(ops, rings), NEW k \in 1 .. Len(ops), NEW b \in Bytes, NEW n \in Nat,
           NEW left, NEW others, Uses(ops, rings, k, b, n, left, others),
           NEW content, NEW p \in Places, NothingBehind(ops, k, n, p)
    PROVE  OutcomeAt(content, left, others, p) =
              WrittenAt(p, EndOffset(ops[k]), n, b, OutcomeAt(content, ops, rings, p))
PROOF
<1> DEFINE op == ops[k]
           more == Used(op, n)
           first == op.offset + op.used
           start == op.arg + op.used
<1>1. op \in OpType /\ op.op = "Write" /\ op.used + n <= op.size
  BY DEF Uses
<1>2. /\ op.size \in Nat /\ op.used \in Nat /\ op.offset \in Nat /\ op.arg \in Nat
      /\ first \in Nat /\ start \in Nat /\ EndOffset(op) = start
      /\ first = op.offset + op.used /\ start = op.arg + op.used
      /\ EndOffset(ops[k]) = start
  <2>1. /\ op.size \in Nat /\ op.used \in Nat /\ op.offset \in Nat /\ op.arg \in Nat
    BY <1>1, OpFields
  <2> QED
    BY <2>1 DEF EndOffset
<1>3. /\ more \in OpType /\ more.op = op.op /\ more.ring = op.ring
      /\ more.offset = op.offset /\ more.arg = op.arg
      /\ more.size = op.size /\ more.used = op.used + n
  BY <1>1, UsedOp
<1>4. RingsOrdered(rings) /\ OpsFormed(ops) /\ RegionsHeld(ops, rings)
  BY DEF Shape
<1>5. op.ring \in Ids(rings) /\ Within(op, RingOf(rings, op.ring))
  BY <1>1, <1>4 DEF RegionsHeld
<1>6. /\ left \in Seq(OpType) /\ Len(left) = Len(ops)
      /\ \A i \in 1 .. Len(ops) : left[i] = IF i = k THEN more ELSE ops[i]
      /\ others \in Seq(RingType) /\ others # <<>>
      /\ Ids(others) = Ids(rings)
      /\ \A i \in Ids(rings) : \A c \in 0 .. RingOf(rings, i).size - 1 :
            RingOf(others, i).cells[c] =
               IF i = op.ring /\ c \in first .. first + n - 1
               THEN b ELSE RingOf(rings, i).cells[c]
      /\ Shape(left, others) /\ RingsOrdered(others)
  BY UsesShape DEF Shape
<1>7. p \in Int
  BY DEF Places
<1>10. /\ op = ops[k]
       /\ p \in start .. start + n - 1 => \A i \in k + 1 .. Len(ops) : ~Covers(ops[i], p)
  BY <1>2 DEF NothingBehind
<1> HIDE DEF more, op, first, start
<1>11. Covers(more, p) <=> p \in op.arg .. op.arg + (op.used + n) - 1
  <2>1. more.arg = op.arg /\ more.used = op.used + n
    BY <1>3
  <2>2. op.arg \in Nat /\ op.used + n \in Nat
    BY <1>2
  <2> QED
    BY <2>1, <2>2, CoversWhere
<1>8. CASE p \in start .. start + n - 1
  <2>1. Covers(more, p)
    <3>1. Covers(more, p) <=> p \in op.arg .. op.arg + (op.used + n) - 1
      BY <1>11
    <3>2. p \in op.arg + op.used .. op.arg + op.used + n - 1
      BY <1>2, <1>8
    <3> QED
      BY <1>2, <1>7, <3>1, <3>2, FurtherPlaces
  <2>2. left[k] = more /\ k \in 1 .. Len(left)
    BY <1>6
  <2>3. ASSUME NEW j \in 1 .. Len(left), Covers(left[j], p)
        PROVE  j <= k
    <3>1. CASE j > k
      <4>1. j \in k + 1 .. Len(ops) /\ j \in 1 .. Len(ops) /\ j # k
        BY <1>6, <3>1
      <4>2. left[j] = ops[j]
        BY <1>6, <4>1
      <4>3. ~Covers(ops[j], p)
        BY <1>8, <1>10, <4>1
      <4> QED
        BY <2>3, <4>2, <4>3
    <3> QED
      BY <3>1
  <2>4. OutcomeAt(content, left, others, p) = DatumOf(others, more, p)
    BY <1>6, <2>1, <2>2, <2>3, OutcomeOfLast
  <2> DEFINE c == op.offset + p - op.arg
  <2>5. c \in first .. first + n - 1 /\ c \in op.offset .. op.offset + op.size - 1
    BY <1>1, <1>2, <1>7, <1>8, CellOfPlace
  <2>6. DatumOf(others, more, p) = RingOf(others, op.ring).cells[c]
    BY <1>3, <1>5, <1>6, DatumInRing
  <2>7. c \in 0 .. RingOf(rings, op.ring).size - 1
    <3>1. RingOf(rings, op.ring) \in RingType /\ RingFormed(RingOf(rings, op.ring))
      BY <1>4, <1>5, RingsByNumber DEF RingsOrdered
    <3> QED
      BY <1>1, <1>5, <2>5, <3>1, RegionCells
  <2> HIDE DEF c
  <2>8. RingOf(others, op.ring).cells[c] = b
    BY <1>5, <1>6, <2>5, <2>7
  <2> QED
    BY <1>2, <1>8, <2>4, <2>6, <2>8 DEF WrittenAt
<1>9. CASE p \notin start .. start + n - 1
  <2>1. ASSUME NEW i \in 1 .. Len(ops)
        PROVE  Covers(left[i], p) <=> Covers(ops[i], p)
    <3>1. CASE i = k
      <4>1. left[i] = more /\ ops[i] = op
        BY <1>6, <1>10, <3>1
      <4> QED
        <5>1. Covers(more, p) <=> p \in op.arg .. op.arg + (op.used + n) - 1
          BY <1>11
        <5>2. Covers(op, p) <=> p \in op.arg .. op.arg + op.used - 1
          BY <1>2, <1>7 DEF Covers, EndOffset
        <5>3. p \notin op.arg + op.used .. op.arg + op.used + n - 1
          BY <1>2, <1>9
        <5> QED
          BY <1>2, <1>7, <4>1, <5>1, <5>2, <5>3, FurtherPlace
    <3>2. CASE i # k
      BY <1>6, <3>2
    <3> QED
      BY <3>1, <3>2
  <2>2. ASSUME NEW i \in 1 .. Len(ops), Covers(ops[i], p)
        PROVE  DatumOf(others, left[i], p) = DatumOf(rings, ops[i], p)
    <3> DEFINE x == ops[i]
               c == x.offset + p - x.arg
    <3>1. /\ x \in OpType /\ x.op = "Write" /\ x.ring \in Ids(rings)
          /\ x.size \in Nat \ {0} /\ x.offset \in Nat
          /\ c \in x.offset .. x.offset + x.used - 1
          /\ c \in x.offset .. x.offset + x.size - 1
          /\ c \in 0 .. RingOf(rings, x.ring).size - 1
          /\ DatumOf(rings, x, p) = RingOf(rings, x.ring).cells[c]
      BY <2>2, CoveringWrite
    <3>2. left[i] \in OpType /\ left[i].ring = x.ring /\ left[i].offset = x.offset
          /\ left[i].arg = x.arg
      <4>1. CASE i = k
        BY <1>3, <1>6, <1>10, <3>1, <4>1 DEF x
      <4>2. CASE i # k
        BY <1>6, <3>1, <4>2 DEF x
      <4> QED
        BY <4>1, <4>2
    <3>3. DatumOf(others, left[i], p) = RingOf(others, x.ring).cells[c]
      BY <1>6, <3>1, <3>2, DatumInRing
    <3>4. i # k /\ x.ring = op.ring => Apart(x, op)
      BY <1>1, <1>4, <1>10, <3>1 DEF RegionsHeld
    <3> HIDE DEF c, x
    <3>5. ~(x.ring = op.ring /\ c \in first .. first + n - 1)
      <4>1. CASE i = k
        <5>1. x = op
          BY <1>10, <4>1 DEF x
        <5>2. c \in op.offset .. op.offset + op.used - 1
          BY <3>1, <5>1
        <5> DEFINE o == op.offset
                   u == op.used
        <5>3. o \in Nat /\ u \in Nat /\ first = o + u /\ n \in Nat
              /\ c \in o .. o + u - 1
          BY <1>2, <5>2
        <5> HIDE DEF o, u
        <5>4. c \notin first .. first + n - 1
          BY <5>3
        <5> QED
          BY <5>4
      <4>2. CASE i # k
        <5> SUFFICES ASSUME x.ring = op.ring
                     PROVE  ~(first <= c /\ c <= first + n - 1)
          OBVIOUS
        <5>1. \/ x.offset + x.size <= op.offset
              \/ op.offset + op.size <= x.offset
          BY <3>4, <4>2 DEF Apart
        <5>2. c \in Int /\ x.offset <= c /\ c <= x.offset + x.size - 1
          BY <3>1
        <5> QED
          BY <1>1, <1>2, <3>1, <5>1, <5>2, CellApart
      <4> QED
        BY <4>1, <4>2
    <3>6. RingOf(others, x.ring).cells[c] = RingOf(rings, x.ring).cells[c]
      BY <1>6, <3>1, <3>5
    <3> QED
      BY <3>1, <3>3, <3>6 DEF x
  <2>3. OutcomeAt(content, left, others, p) = OutcomeAt(content, ops, rings, p)
    BY <1>6, <2>1, <2>2, OutcomeSame
  <2> QED
    BY <1>2, <1>9, <2>3 DEF WrittenAt
<1> QED
  BY <1>8, <1>9

-----------------------------------------------------------------------------
(* The operations that are not done *)

LEMMA ConsSeq ==
    ASSUME NEW S, NEW s \in Seq(S), NEW x \in S
    PROVE  /\ <<x>> \o s \in Seq(S) /\ <<x>> \o s # <<>>
           /\ Len(<<x>> \o s) = Len(s) + 1
           /\ (<<x>> \o s)[1] = x
           /\ \A i \in 1 .. Len(s) : (<<x>> \o s)[i + 1] = s[i]
PROOF
<1>1. <<x>> \in Seq(S) /\ Len(<<x>>) = 1 /\ <<x>>[1] = x /\ Len(s) \in Nat
  OBVIOUS
<1> DEFINE a == <<x>>
<1> HIDE DEF a
<1>2. /\ a \o s \in Seq(S) /\ Len(a \o s) = Len(a) + Len(s)
      /\ \A i \in 1 .. Len(a) + Len(s) :
            (a \o s)[i] = IF i <= Len(a) THEN a[i] ELSE s[i - Len(a)]
  BY <1>1, ConcatProperties DEF a
<1>3. a \in Seq(S) /\ Len(a) = 1 /\ a[1] = x
  BY <1>1 DEF a
<1>4. \A i \in 1 .. Len(s) : i + 1 \in 1 .. Len(a) + Len(s) /\ ~(i + 1 <= Len(a)) /\ i + 1 - 1 = i
  BY <1>1, <1>3
<1>5. /\ a \o s \in Seq(S) /\ Len(a \o s) = Len(s) + 1 /\ (a \o s)[1] = x
      /\ \A i \in 1 .. Len(s) : (a \o s)[i + 1] = s[i]
  BY <1>1, <1>2, <1>3, <1>4
<1>6. a \o s # <<>>
  BY <1>1, <1>5
<1> QED
  BY <1>5, <1>6 DEF a

\* Sequences with the same elements.
LEMMA SameSeq ==
    ASSUME NEW S, NEW s \in Seq(S), NEW t \in Seq(S), Len(s) = Len(t),
           \A i \in 1 .. Len(s) : s[i] = t[i]
    PROVE  s = t
  BY SeqEqual

LEMMA ConsAppend ==
    ASSUME NEW S, NEW s \in Seq(S), NEW x \in S, NEW y \in S
    PROVE  <<x>> \o Append(s, y) = Append(<<x>> \o s, y)
PROOF
<1> DEFINE more == Append(s, y)
           all == <<x>> \o s
<1>1. /\ more \in Seq(S) /\ Len(more) = Len(s) + 1 /\ more[Len(s) + 1] = y /\ Len(s) \in Nat
      /\ \A i \in 1 .. Len(s) : more[i] = s[i]
  BY Appended
<1>2. /\ all \in Seq(S) /\ Len(all) = Len(s) + 1 /\ all[1] = x
      /\ \A i \in 1 .. Len(s) : all[i + 1] = s[i]
  BY ConsSeq
<1> HIDE DEF more, all
<1> DEFINE left == <<x>> \o more
           right == Append(all, y)
<1>3. /\ left \in Seq(S) /\ Len(left) = Len(more) + 1 /\ left[1] = x
      /\ \A i \in 1 .. Len(more) : left[i + 1] = more[i]
  BY <1>1, ConsSeq
<1>4. /\ right \in Seq(S) /\ Len(right) = Len(all) + 1 /\ right[Len(all) + 1] = y
      /\ \A i \in 1 .. Len(all) : right[i] = all[i]
  BY <1>2, Appended
<1> HIDE DEF left, right
<1>5. ASSUME NEW i \in 1 .. Len(left)
      PROVE  left[i] = right[i]
  <2>1. CASE i = 1
    BY <1>1, <1>2, <1>3, <1>4, <2>1
  <2>2. CASE i \in 2 .. Len(s) + 1
    <3>1. i - 1 \in 1 .. Len(s) /\ i - 1 \in 1 .. Len(more) /\ i - 1 + 1 = i
      BY <1>1, <2>2
    <3>2. left[i] = s[i - 1]
      BY <1>1, <1>3, <3>1
    <3>3. right[i] = s[i - 1]
      <4>1. i \in 1 .. Len(all)
        BY <1>2, <2>2
      <4>2. right[i] = all[i]
        BY <1>4, <4>1
      <4>3. all[(i - 1) + 1] = s[i - 1]
        BY <1>2, <3>1
      <4> QED
        BY <3>1, <4>2, <4>3
    <3> QED
      BY <3>2, <3>3
  <2>3. CASE i = Len(s) + 2
    <3>1. Len(more) \in 1 .. Len(more) /\ Len(more) + 1 = i /\ Len(all) + 1 = i
      BY <1>1, <1>2, <2>3
    <3>2. left[i] = y
      BY <1>1, <1>3, <3>1
    <3>3. right[i] = y
      BY <1>4, <3>1
    <3> QED
      BY <3>2, <3>3
  <2> QED
    BY <1>1, <1>3, <2>1, <2>2, <2>3
<1>6. left = right
  BY <1>1, <1>2, <1>3, <1>4, <1>5, SameSeq
<1> QED
  BY <1>6 DEF left, right, more, all

LEMMA ConsHead ==
    ASSUME NEW S, NEW s \in Seq(S), s # <<>>
    PROVE  <<Head(s)>> \o Tail(s) = s
PROOF
<1> DEFINE rest == Tail(s)
           x == Head(s)
<1>1. /\ rest \in Seq(S) /\ Len(s) \in Nat \ {0} /\ Len(rest) = Len(s) - 1
      /\ x = s[1] /\ x \in S /\ \A i \in 1 .. Len(s) - 1 : rest[i] = s[i + 1]
  BY Tailed
<1> HIDE DEF rest, x
<1> DEFINE all == <<x>> \o rest
<1>2. /\ all \in Seq(S) /\ Len(all) = Len(rest) + 1 /\ all[1] = x
      /\ \A i \in 1 .. Len(rest) : all[i + 1] = rest[i]
  BY <1>1, ConsSeq
<1> HIDE DEF all
<1>3. ASSUME NEW i \in 1 .. Len(all)
      PROVE  all[i] = s[i]
  <2>1. CASE i = 1
    BY <1>1, <1>2, <2>1
  <2>2. CASE i # 1
    <3>1. i - 1 \in 1 .. Len(s) - 1 /\ i - 1 \in 1 .. Len(rest) /\ i - 1 + 1 = i
      BY <1>1, <1>2, <2>2
    <3> QED
      BY <1>1, <1>2, <3>1
  <2> QED
    BY <2>1, <2>2
<1>4. all = s
  BY <1>1, <1>2, <1>3, SameSeq
<1> QED
  BY <1>4 DEF all, rest, x

LEMMA ConsTail ==
    ASSUME NEW S, NEW s \in Seq(S), NEW x \in S
    PROVE  Tail(<<x>> \o s) = s
PROOF
<1> DEFINE all == <<x>> \o s
<1>1. /\ all \in Seq(S) /\ Len(all) = Len(s) + 1 /\ all # <<>>
      /\ \A i \in 1 .. Len(s) : all[i + 1] = s[i]
  BY ConsSeq
<1> HIDE DEF all
<1>2. /\ Tail(all) \in Seq(S) /\ Len(Tail(all)) = Len(s) /\ Len(s) \in Nat
      /\ \A i \in 1 .. Len(s) : Tail(all)[i] = s[i]
  BY <1>1, Tailed
<1>3. Tail(all) = s
  BY <1>2, SameSeq
<1> QED
  BY <1>3 DEF all

LEMMA ReplacedSeq ==
    ASSUME NEW S, NEW s \in Seq(S), NEW k \in 1 .. Len(s), NEW y \in S
    PROVE  /\ Replaced(s, k, y) \in Seq(S) /\ Len(Replaced(s, k, y)) = Len(s)
           /\ \A i \in 1 .. Len(s) : Replaced(s, k, y)[i] = IF i = k THEN y ELSE s[i]
  BY ExceptSeq DEF Replaced

LEMMA ConsReplaced ==
    ASSUME NEW S, NEW s \in Seq(S), NEW x \in S, NEW k \in 1 .. Len(s), NEW y \in S
    PROVE  <<x>> \o Replaced(s, k, y) = Replaced(<<x>> \o s, k + 1, y)
PROOF
<1> DEFINE more == Replaced(s, k, y)
           all == <<x>> \o s
<1>1. /\ more \in Seq(S) /\ Len(more) = Len(s) /\ Len(s) \in Nat
      /\ \A i \in 1 .. Len(s) : more[i] = IF i = k THEN y ELSE s[i]
  BY ReplacedSeq
<1>2. /\ all \in Seq(S) /\ Len(all) = Len(s) + 1 /\ all[1] = x
      /\ \A i \in 1 .. Len(s) : all[i + 1] = s[i]
  BY ConsSeq
<1> HIDE DEF more, all
<1> DEFINE left == <<x>> \o more
           right == Replaced(all, k + 1, y)
<1>3. /\ left \in Seq(S) /\ Len(left) = Len(more) + 1 /\ left[1] = x
      /\ \A i \in 1 .. Len(more) : left[i + 1] = more[i]
  BY <1>1, ConsSeq
<1>4. /\ right \in Seq(S) /\ Len(right) = Len(all)
      /\ \A i \in 1 .. Len(all) : right[i] = IF i = k + 1 THEN y ELSE all[i]
  <2> DEFINE m == k + 1
  <2>1. m \in 1 .. Len(all)
    BY <1>1, <1>2
  <2> HIDE DEF m
  <2>2. /\ Replaced(all, m, y) \in Seq(S) /\ Len(Replaced(all, m, y)) = Len(all)
        /\ \A i \in 1 .. Len(all) : Replaced(all, m, y)[i] = IF i = m THEN y ELSE all[i]
    BY <1>2, <2>1, ExceptSeq DEF Replaced
  <2> QED
    BY <2>2 DEF m
<1> HIDE DEF left, right
<1>5. ASSUME NEW i \in 1 .. Len(left)
      PROVE  left[i] = right[i]
  <2>1. CASE i = 1
    BY <1>1, <1>2, <1>3, <1>4, <2>1
  <2>2. CASE i # 1
    <3> DEFINE m == i - 1
    <3>1. m \in 1 .. Len(s) /\ m + 1 = i /\ i \in 1 .. Len(all)
      BY <1>1, <1>2, <1>3, <2>2
    <3> HIDE DEF m
    <3>2. left[i] = IF m = k THEN y ELSE s[m]
      BY <1>1, <1>3, <3>1
    <3>3. right[i] = IF m = k THEN y ELSE s[m]
      BY <1>2, <1>4, <3>1
    <3> QED
      BY <3>2, <3>3
  <2> QED
    BY <2>1, <2>2
<1>6. left = right
  BY <1>1, <1>2, <1>3, <1>4, <1>5, SameSeq
<1> QED
  BY <1>6 DEF left, right, more, all

LEMMA ConsFirst ==
    ASSUME NEW S, NEW s \in Seq(S), NEW x \in S, NEW y \in S
    PROVE  Replaced(<<x>> \o s, 1, y) = <<y>> \o s
PROOF
<1> DEFINE all == <<x>> \o s
           right == <<y>> \o s
<1>1. /\ all \in Seq(S) /\ Len(all) = Len(s) + 1 /\ Len(s) \in Nat
      /\ \A i \in 1 .. Len(s) : all[i + 1] = s[i]
  BY ConsSeq
<1>2. /\ right \in Seq(S) /\ Len(right) = Len(s) + 1 /\ right[1] = y
      /\ \A i \in 1 .. Len(s) : right[i + 1] = s[i]
  BY ConsSeq
<1> HIDE DEF right, all
<1> DEFINE left == Replaced(all, 1, y)
<1>3. /\ left \in Seq(S) /\ Len(left) = Len(all)
      /\ \A i \in 1 .. Len(all) : left[i] = IF i = 1 THEN y ELSE all[i]
  <2> DEFINE m == 1
  <2>1. m \in 1 .. Len(all)
    BY <1>1
  <2> HIDE DEF m
  <2>2. /\ Replaced(all, m, y) \in Seq(S) /\ Len(Replaced(all, m, y)) = Len(all)
        /\ \A i \in 1 .. Len(all) : Replaced(all, m, y)[i] = IF i = m THEN y ELSE all[i]
    BY <1>1, <2>1, ExceptSeq DEF Replaced
  <2> QED
    BY <2>2 DEF m
<1> HIDE DEF left
<1>4. ASSUME NEW i \in 1 .. Len(left)
      PROVE  left[i] = right[i]
  <2>1. CASE i = 1
    BY <1>1, <1>2, <1>3, <2>1
  <2>2. CASE i # 1
    <3> DEFINE m == i - 1
    <3>1. m \in 1 .. Len(s) /\ m + 1 = i /\ i \in 1 .. Len(all)
      BY <1>1, <1>3, <2>2
    <3> HIDE DEF m
    <3> QED
      BY <1>1, <1>2, <1>3, <2>2, <3>1
  <2> QED
    BY <2>1, <2>2
<1>5. left = right
  BY <1>1, <1>2, <1>3, <1>4, SameSeq
<1> QED
  BY <1>5 DEF left, right, all

\* The worker w performs the write op, or has failed at it.
Held(w, op) == w \in {"writing", "failed"} /\ op.op = "Write"

\* What is pending when the worker w has the operation op and q is queued.
FrontOf(w, op, q) == (IF Held(w, op) THEN <<op>> ELSE <<>>) \o q

LEMMA PendingIsFront ==
    /\ Pending = FrontOf(worker, opData, queue)
    /\ Pending' = FrontOf(worker', opData', queue')
  BY DEF Pending, FrontOf, Held

LEMMA FrontIdle ==
    ASSUME NEW w, NEW op, ~Held(w, op), NEW q \in Seq(OpType)
    PROVE  FrontOf(w, op, q) = q
  BY DEF FrontOf

LEMMA FrontWriting ==
    ASSUME NEW w, NEW op, Held(w, op), NEW q
    PROVE  FrontOf(w, op, q) = <<op>> \o q
  BY DEF FrontOf

\* The queue is the end of what is pending, behind d operations.
Behind(w, op, q, d) ==
    /\ Len(FrontOf(w, op, q)) = Len(q) + d
    /\ \A i \in 1 .. Len(q) : FrontOf(w, op, q)[i + d] = q[i]
    /\ \A k \in 1 .. Len(q) : \A x \in OpType :
          FrontOf(w, op, Replaced(q, k, x)) = Replaced(FrontOf(w, op, q), k + d, x)

LEMMA FrontQueue ==
    ASSUME NEW w, NEW op \in OpType, NEW q \in Seq(OpType)
    PROVE  /\ FrontOf(w, op, q) \in Seq(OpType)
           /\ \E d \in {0, 1} : Behind(w, op, q, d)
PROOF
<1>1. CASE Held(w, op)
  <2>1. /\ <<op>> \o q \in Seq(OpType) /\ Len(<<op>> \o q) = Len(q) + 1
        /\ \A i \in 1 .. Len(q) : (<<op>> \o q)[i + 1] = q[i]
    BY ConsSeq
  <2>2. \A k \in 1 .. Len(q) : \A x \in OpType :
           <<op>> \o Replaced(q, k, x) = Replaced(<<op>> \o q, k + 1, x)
    BY ConsReplaced
  <2>3. \A s : FrontOf(w, op, s) = <<op>> \o s
    BY <1>1, FrontWriting
  <2>4. Behind(w, op, q, 1)
    BY <2>1, <2>2, <2>3 DEF Behind
  <2> QED
    BY <2>1, <2>3, <2>4
<1>2. CASE ~Held(w, op)
  <2>1. FrontOf(w, op, q) = q
    BY <1>2, FrontIdle
  <2>2. ASSUME NEW k \in 1 .. Len(q), NEW x \in OpType
        PROVE  FrontOf(w, op, Replaced(q, k, x)) = Replaced(q, k, x)
    BY <1>2, FrontIdle, ReplacedSeq
  <2>3. Len(q) \in Nat /\ \A i \in 1 .. Len(q) : i + 0 = i
    OBVIOUS
  <2>4. Behind(w, op, q, 0)
    BY <2>1, <2>2, <2>3 DEF Behind
  <2> QED
    BY <2>1, <2>4
<1> QED
  BY <1>1, <1>2

LEMMA FrontAppend ==
    ASSUME NEW w, NEW op \in OpType, NEW q \in Seq(OpType), NEW x \in OpType
    PROVE  FrontOf(w, op, Append(q, x)) = Append(FrontOf(w, op, q), x)
PROOF
<1>1. CASE Held(w, op)
  <2>1. <<op>> \o Append(q, x) = Append(<<op>> \o q, x)
    BY ConsAppend
  <2> QED
    BY <1>1, <2>1 DEF FrontOf
<1>2. CASE ~Held(w, op)
  <2>1. Append(q, x) \in Seq(OpType)
    OBVIOUS
  <2> QED
    BY <1>2, <2>1, FrontIdle
<1> QED
  BY <1>1, <1>2

-----------------------------------------------------------------------------
(* Write *)

LEMMA MergeTargetFacts ==
    ASSUME queue \in Seq(OpType), MergeTarget # 0
    PROVE  /\ MergeTarget \in 1 .. Len(queue)
           /\ EndOffset(queue[MergeTarget]) = position
           /\ FreeSpace(queue[MergeTarget]) > 0
           /\ \A i \in MergeTarget + 1 .. Len(queue) :
                 ~Intersects(queue[MergeTarget], queue[i])
PROOF
<1> DEFINE ending == {i \in DOMAIN queue : EndOffset(queue[i]) = position}
           last == Max(ending)
<1>1. /\ ending # {} /\ FreeSpace(queue[last]) > 0 /\ MergeTarget = last
      /\ \A i \in last + 1 .. Len(queue) : ~Intersects(queue[last], queue[i])
  BY DEF MergeTarget
<1>2. ending \in SUBSET (1 .. Len(queue)) /\ Len(queue) \in Nat
  OBVIOUS
<1>3. \A i \in ending : EndOffset(queue[i]) = position
  OBVIOUS
<1> HIDE DEF ending
<1>4. PICK m \in ending : \A j \in ending : j <= m
  BY <1>1, <1>2, LastExists
<1>5. \A y \in ending : m >= y
  BY <1>2, <1>4
<1>6. last \in ending
  BY <1>4, <1>5 DEF Max
<1> HIDE DEF last
<1> QED
  BY <1>1, <1>2, <1>3, <1>6

LEMMA SmallerOf ==
    ASSUME NEW m \in Nat \ {0}, NEW n \in Nat \ {0}
    PROVE  Smaller(m, n) \in 1 .. m /\ Smaller(m, n) \in 1 .. n
  BY DEF Smaller

\* A write that does not intersect another one writes none of its places.
LEMMA IntersectsNot ==
    ASSUME NEW op \in OpType, NEW other \in OpType, ~Intersects(op, other),
           other.used <= other.size, NEW n \in Nat, op.used + n <= op.size,
           NEW p \in Places, p \in EndOffset(op) .. EndOffset(op) + n - 1
    PROVE  ~Covers(other, p)
PROOF
<1>1. /\ op.arg \in Nat /\ op.size \in Nat /\ op.used \in Nat
      /\ other.arg \in Nat /\ other.size \in Nat /\ other.used \in Nat /\ p \in Int
  BY OpFields DEF Places
<1>2. ~(op.arg < other.arg + other.size /\ other.arg < op.arg + op.size)
  BY DEF Intersects, LimitOffset
<1>3. op.arg + op.used <= p /\ p <= op.arg + op.used + n - 1
  BY <1>1 DEF EndOffset
<1> SUFFICES ASSUME Covers(other, p)
             PROVE  FALSE
  OBVIOUS
<1>4. other.arg <= p /\ p <= other.arg + other.used - 1
  BY <1>1 DEF Covers, EndOffset
<1> QED
  BY <1>1, <1>2, <1>3, <1>4

\* What a write does to the outcome.
WriteMade(b, m, ops, rings, left, others) ==
    /\ left \in Seq(OpType) /\ others \in Seq(RingType) /\ others # <<>>
    /\ Len(others) = Len(rings) /\ others[1].id = rings[1].id
    /\ Shape(left, others)
    /\ \A p \in Places : OutcomeAt(stream, left, others, p) =
          WrittenAt(p, position, m, b, OutcomeAt(stream, ops, rings, p))

\* What a write does to the queue.
WriteQueued ==
    /\ queue' \in Seq(OpType)
    /\ Len(queue') \in Len(queue) .. Len(queue) + 1
    /\ \A i \in 1 .. Len(queue) : queue'[i].op = queue[i].op /\ queue'[i].arg = queue[i].arg
    /\ Len(queue') = Len(queue) + 1 => queue'[Len(queue) + 1].op = "Write"

LEMMA WriteMerged ==
    ASSUME TypeOK, Shape(Pending, buffers), NEW b \in Bytes, NEW n \in Nat \ {0},
           MergeTarget # 0,
           PushWriteData(queue, buffers, MergeTarget, b,
                         Smaller(n, FreeSpace(queue[MergeTarget]))),
           worker' = worker, opData' = opData
    PROVE  /\ \E m \in 1 .. n : /\ position' = position + m
                                /\ WriteMade(b, m, Pending, buffers, Pending', buffers')
           /\ WriteQueued
PROOF
<1> DEFINE k == MergeTarget
           op == queue[k]
           m == Smaller(n, FreeSpace(op))
<1>1. /\ queue \in Seq(OpType) /\ buffers \in Seq(RingType) /\ buffers # <<>>
      /\ opData \in OpType /\ position \in Nat
  BY DEF TypeOK
<1>2. /\ k \in 1 .. Len(queue) /\ EndOffset(op) = position /\ FreeSpace(op) > 0
      /\ \A i \in k + 1 .. Len(queue) : ~Intersects(op, queue[i])
  BY <1>1, MergeTargetFacts
<1>3. /\ queue' = [queue EXCEPT ![k].used = @ + m]
      /\ buffers' = Filled(buffers, op.ring, op.offset + op.used, m, b)
      /\ position' = position + m
  BY DEF PushWriteData, Filled
<1> HIDE DEF k, op, m
<1>4. op = queue[k] /\ op \in OpType
  BY <1>1, <1>2 DEF op
<1>5. /\ op.arg \in Nat /\ op.offset \in Nat /\ op.size \in Nat /\ op.used \in Nat
  BY <1>4, OpFields
<1>6. op.size - op.used \in Nat \ {0}
  BY <1>2, <1>5 DEF FreeSpace
<1>7. m \in 1 .. n /\ m \in 1 .. op.size - op.used
  BY <1>6, SmallerOf DEF m, FreeSpace
<1>8. queue' = Replaced(queue, k, Used(op, m))
  <2>1. [queue EXCEPT ![k].used = @ + m] = [queue EXCEPT ![k] = [queue[k] EXCEPT !.used = @ + m]]
    BY <1>1, <1>2
  <2> QED
    BY <1>3, <1>4, <2>1 DEF Replaced, Used
<1> DEFINE ops == Pending
           left == Pending'
<1>9. PICK d \in {0, 1} :
         /\ ops \in Seq(OpType) /\ Len(ops) = Len(queue) + d
         /\ \A i \in 1 .. Len(queue) : ops[i + d] = queue[i]
         /\ \A x \in OpType : FrontOf(worker, opData, Replaced(queue, k, x)) = Replaced(ops, k + d, x)
  <2>1. /\ FrontOf(worker, opData, queue) \in Seq(OpType)
        /\ \E d \in {0, 1} : Behind(worker, opData, queue, d)
    BY <1>1, FrontQueue
  <2> QED
    BY <1>2, <2>1, PendingIsFront DEF Behind
<1>10. Used(op, m) \in OpType /\ m \in Nat
  <2>1. m \in Nat
    BY <1>7
  <2> QED
    BY <1>4, <2>1, UsedOp
<1>11. left = Replaced(ops, k + d, Used(op, m))
  BY <1>8, <1>9, <1>10, PendingIsFront
<1> HIDE DEF ops, left
<1> DEFINE j == k + d
<1>12. j \in 1 .. Len(ops) /\ ops[j] = op /\ Len(queue) \in Nat
  BY <1>1, <1>2, <1>4, <1>9
<1>13. Shape(ops, buffers) /\ OpsFormed(ops)
  BY DEF ops, Shape
<1>14. op.op = "Write" /\ op.used + m <= op.size
  BY <1>5, <1>6, <1>7, <1>12, <1>13 DEF OpsFormed
<1>15. left = Replaced(ops, j, Used(op, m))
  BY <1>11
<1>16. ASSUME NEW i \in j + 1 .. Len(ops), NEW p \in Places,
              p \in EndOffset(op) .. EndOffset(op) + m - 1
       PROVE  ~Covers(ops[i], p)
  <2> DEFINE x == i - d
  <2>1. x \in k + 1 .. Len(queue) /\ x \in 1 .. Len(queue) /\ x + d = i /\ i \in 1 .. Len(ops)
    BY <1>2, <1>9, <1>12
  <2> HIDE DEF x
  <2>2. ops[i] = queue[x] /\ queue[x] \in OpType
    BY <1>1, <1>9, <2>1
  <2>3. ~Intersects(op, ops[i]) /\ ops[i].used <= ops[i].size
    BY <1>2, <1>13, <2>1, <2>2 DEF OpsFormed
  <2> QED
    BY <1>4, <1>10, <1>14, <1>16, <2>2, <2>3, IntersectsNot
<1> HIDE DEF j
<1>17. Uses(ops, buffers, j, b, m, left, buffers')
  BY <1>3, <1>12, <1>14, <1>15 DEF Uses
<1>18. /\ left \in Seq(OpType) /\ buffers' \in Seq(RingType) /\ buffers' # <<>>
       /\ Len(buffers') = Len(buffers) /\ Shape(left, buffers')
       /\ \A i \in 1 .. Len(buffers) : buffers'[i].id = buffers[i].id
  BY <1>1, <1>9, <1>10, <1>12, <1>13, <1>17, UsesShape
<1>19. ASSUME NEW p \in Places
       PROVE  OutcomeAt(stream, left, buffers', p) =
                 WrittenAt(p, position, m, b, OutcomeAt(stream, ops, buffers, p))
  <2>1. NothingBehind(ops, j, m, p)
    BY <1>12, <1>16 DEF NothingBehind
  <2>2. OutcomeAt(stream, left, buffers', p) =
           WrittenAt(p, EndOffset(ops[j]), m, b, OutcomeAt(stream, ops, buffers, p))
    <3>1. /\ ops \in Seq(OpType) /\ buffers \in Seq(RingType) /\ buffers # <<>>
          /\ Shape(ops, buffers) /\ j \in 1 .. Len(ops) /\ m \in Nat
      BY <1>1, <1>9, <1>10, <1>12, <1>13
    <3> QED
      BY <1>17, <2>1, <3>1, OutcomeUses
  <2> QED
    BY <1>2, <1>12, <2>2
<1>20. WriteMade(b, m, ops, buffers, left, buffers')
  <2>1. 1 \in 1 .. Len(buffers)
    BY <1>1, RingsByNumber
  <2>2. buffers'[1].id = buffers[1].id
    BY <1>18, <2>1
  <2>3. \A p \in Places : OutcomeAt(stream, left, buffers', p) =
                           WrittenAt(p, position, m, b, OutcomeAt(stream, ops, buffers, p))
    BY <1>19
  <2> QED
    BY ZenonT(40), <1>18, <2>2, <2>3 DEF WriteMade
<1>21. WriteQueued
  <2>1. /\ queue' \in Seq(OpType) /\ Len(queue') = Len(queue)
        /\ \A i \in 1 .. Len(queue) :
              queue'[i] = IF i = k THEN Used(op, m) ELSE queue[i]
    BY <1>1, <1>2, <1>8, <1>10, ExceptSeq DEF Replaced
  <2>2. Used(op, m).op = op.op /\ Used(op, m).arg = op.arg
    BY <1>4, <1>10, UsedOp
  <2>3. \A i \in 1 .. Len(queue) : queue'[i].op = queue[i].op /\ queue'[i].arg = queue[i].arg
    BY <1>4, <2>1, <2>2
  <2> QED
    BY <1>12, <2>1, <2>3 DEF WriteQueued
<1> QED
  BY <1>3, <1>7, <1>20, <1>21 DEF ops, left

LEMMA LastRing ==
    ASSUME buffers \in Seq(RingType), buffers # <<>>
    PROVE  Last(buffers) = buffers[Len(buffers)]
  BY DEF Last

\* Where a ring has free room, some of it follows what was written.
LEMMA RoomToWrite ==
    ASSUME NEW ring \in RingType, RingFormed(ring), FreeSize(ring) > 0
    PROVE  WriterSize(ring) \in Nat \ {0}
PROOF
<1>1. /\ ring.size \in Nat \ {0} /\ ring.write \in Nat /\ ring.read \in Nat
      /\ ring.contiguous \in BOOLEAN
  BY DEF RingType
<1> QED
  BY <1>1 DEF FreeSize, DataSize, WriterSize, RingFormed

\* The last ring with one more region, which a new write is to use.
Regioned(ops, rings, x, k, others) ==
    /\ ops \in Seq(OpType) /\ rings \in Seq(RingType) /\ rings # <<>> /\ x \in OpType
    /\ Shape(ops, rings) /\ k \in Nat \ {0} /\ k <= WriterSize(rings[Len(rings)])
    /\ x.op = "Write" /\ x.ring = rings[Len(rings)].id
    /\ x.offset = rings[Len(rings)].write /\ x.size = k /\ x.used = 0
    /\ others = Replaced(rings, Len(rings), Push(rings[Len(rings)], k))

LEMMA RegionNew ==
    ASSUME NEW ops, NEW rings, NEW x, NEW k, NEW others, Regioned(ops, rings, x, k, others)
    PROVE  /\ others \in Seq(RingType) /\ others # <<>> /\ Shape(Append(ops, x), others)
           /\ \A content : \A p \in Places :
                 OutcomeAt(content, Append(ops, x), others, p) = OutcomeAt(content, ops, rings, p)
PROOF
<1>1. /\ ops \in Seq(OpType) /\ rings \in Seq(RingType) /\ rings # <<>> /\ x \in OpType
      /\ Shape(ops, rings) /\ k \in Nat \ {0} /\ k <= WriterSize(rings[Len(rings)])
      /\ x.op = "Write" /\ x.ring = rings[Len(rings)].id
      /\ x.offset = rings[Len(rings)].write /\ x.size = k /\ x.used = 0
      /\ others = Replaced(rings, Len(rings), Push(rings[Len(rings)], k))
  BY DEF Regioned
<1>2. others \in Seq(RingType) /\ others # <<>> /\ Shape(Append(ops, x), others)
  BY <1>1, ShapeNew
<1>3. ASSUME NEW content, NEW p \in Places
      PROVE  OutcomeAt(content, Append(ops, x), others, p) = OutcomeAt(content, ops, rings, p)
  BY <1>1, OutcomeNew
<1> QED
  BY <1>2, <1>3

LEMMA WriteInNew ==
    ASSUME TypeOK, Shape(Pending, buffers), NEW b \in Bytes, NEW n \in Nat \ {0},
           FreeSize(Last(buffers)) > 0,
           NEW size, size = Smaller(WriterSize(Last(buffers)), Larger(config.prealloc, n)),
           NEW new, new = WriteOp(position, Last(buffers).id, Last(buffers).write, size, 0),
           PushWriteData(Append(queue, new),
                         [buffers EXCEPT ![Len(buffers)] = Push(Last(buffers), size)],
                         Len(queue) + 1, b, Smaller(n, size)),
           worker' = worker, opData' = opData
    PROVE  /\ \E m \in 1 .. n : /\ position' = position + m
                                /\ WriteMade(b, m, Pending, buffers, Pending', buffers')
           /\ WriteQueued
PROOF
<1> DEFINE last == Last(buffers)
           m == Smaller(n, size)
           q == Append(queue, new)
           rings == Replaced(buffers, Len(buffers), Push(last, size))
<1>1. /\ queue \in Seq(OpType) /\ buffers \in Seq(RingType) /\ buffers # <<>>
      /\ opData \in OpType /\ position \in Nat /\ config \in Configs
  BY DEF TypeOK
<1>2. RingsOrdered(buffers)
  BY DEF Shape
<1>3. Len(buffers) \in 1 .. Len(buffers) /\ last = buffers[Len(buffers)]
      /\ buffers[Len(buffers)] \in RingType
  BY <1>1, RingsByNumber, LastRing
<1>4. last \in RingType /\ RingFormed(last)
  BY <1>2, <1>3 DEF RingsOrdered
<1>5. WriterSize(last) \in Nat \ {0}
  BY <1>4, RoomToWrite
<1>6. config.prealloc \in Nat \ {0}
  BY <1>1, ConfigsAssumption
<1>7. Larger(config.prealloc, n) \in Nat \ {0}
  BY <1>6 DEF Larger
<1>8. size \in 1 .. WriterSize(last)
  BY <1>5, <1>7, SmallerOf
<1>9. size \in Nat \ {0} /\ size <= WriterSize(last)
  BY <1>5, <1>8
<1>10. m \in 1 .. n /\ m \in 1 .. size /\ m \in Nat
  <2>1. m \in 1 .. n /\ m \in 1 .. size
    BY <1>9, SmallerOf
  <2> QED
    BY <1>9, <2>1
<1>11. /\ last.id \in Nat /\ last.write \in Nat
  BY <1>4 DEF RingType
<1>12. /\ new \in OpType /\ new.op = "Write" /\ new.arg = position /\ new.ring = last.id
       /\ new.offset = last.write /\ new.size = size /\ new.used = 0
  BY <1>1, <1>9, <1>11 DEF WriteOp, OpType
<1>13. /\ q \in Seq(OpType) /\ Len(q) = Len(queue) + 1 /\ Len(queue) \in Nat
       /\ q[Len(queue) + 1] = new /\ \A i \in 1 .. Len(queue) : q[i] = queue[i]
  BY <1>1, <1>12, Appended
<1>14. /\ queue' = [q EXCEPT ![Len(queue) + 1].used = @ + m]
       /\ buffers' = Filled(rings, q[Len(queue) + 1].ring,
                            q[Len(queue) + 1].offset + q[Len(queue) + 1].used, m, b)
       /\ position' = position + m
  BY DEF PushWriteData, Filled, Replaced
<1> DEFINE k == Len(queue) + 1
<1> HIDE DEF last, m, q, rings
<1>15. queue' = Replaced(q, k, Used(new, m)) /\ k \in 1 .. Len(q)
  <2>1. [q EXCEPT ![k].used = @ + m] = [q EXCEPT ![k] = [q[k] EXCEPT !.used = @ + m]]
    BY <1>13
  <2> QED
    BY <1>13, <1>14, <2>1 DEF Replaced, Used
<1>16. Used(new, m) \in OpType
  BY <1>10, <1>12, UsedOp
<1> DEFINE ops == Pending
           mid == FrontOf(worker, opData, q)
           left == Pending'
<1>17. mid = Append(ops, new)
  BY <1>1, <1>12, FrontAppend, PendingIsFront DEF q
<1>18. PICK d \in {0, 1} : mid \in Seq(OpType) /\ Behind(worker, opData, q, d)
  BY <1>1, <1>13, FrontQueue
<1>19. ops \in Seq(OpType)
  BY <1>1, FrontQueue, PendingIsFront
<1>20. left = Replaced(mid, k + d, Used(new, m))
  BY <1>15, <1>16, <1>18, PendingIsFront DEF Behind
<1>21. Len(mid) = k + d /\ mid[k + d] = new
  BY <1>13, <1>15, <1>18 DEF Behind
<1> HIDE DEF ops, mid, left
<1>22. Shape(ops, buffers)
  BY DEF ops
<1>22a. Regioned(ops, buffers, new, size, rings)
  <2>1. rings = Replaced(buffers, Len(buffers), Push(buffers[Len(buffers)], size))
    BY <1>3 DEF rings
  <2> QED
    BY <1>1, <1>3, <1>9, <1>12, <1>19, <1>22, <2>1 DEF Regioned
<1>23. rings \in Seq(RingType) /\ rings # <<>> /\ Shape(mid, rings)
  BY <1>17, <1>22a, RegionNew
<1>24. \A p \in Places : OutcomeAt(stream, mid, rings, p) = OutcomeAt(stream, ops, buffers, p)
  <2>1. \A p \in Places :
           OutcomeAt(stream, Append(ops, new), rings, p) = OutcomeAt(stream, ops, buffers, p)
    BY <1>22a, RegionNew
  <2> QED
    BY <1>17, <2>1
<1> DEFINE j == k + d
<1>25. j \in 1 .. Len(mid) /\ mid[j] = new /\ Len(mid) = j
  BY <1>13, <1>21
<1> HIDE DEF j
<1>26. Uses(mid, rings, j, b, m, left, buffers')
  <2>1. new.used + m <= new.size
    BY <1>9, <1>10, <1>12
  <2>2. q[Len(queue) + 1] = new
    BY <1>13
  <2> QED
    BY <1>12, <1>14, <1>20, <1>25, <2>1, <2>2 DEF Uses, j
<1>27. /\ left \in Seq(OpType) /\ buffers' \in Seq(RingType) /\ buffers' # <<>>
       /\ Len(buffers') = Len(rings) /\ Shape(left, buffers')
       /\ \A i \in 1 .. Len(rings) : buffers'[i].id = rings[i].id
  BY <1>10, <1>18, <1>23, <1>25, <1>26, UsesShape
<1>28. EndOffset(new) = position
  BY <1>1, <1>12 DEF EndOffset
<1>29. ASSUME NEW p \in Places
       PROVE  OutcomeAt(stream, left, buffers', p) =
                 WrittenAt(p, position, m, b, OutcomeAt(stream, ops, buffers, p))
  <2>1. NothingBehind(mid, j, m, p)
    BY <1>25 DEF NothingBehind
  <2>2. OutcomeAt(stream, left, buffers', p) =
           WrittenAt(p, EndOffset(mid[j]), m, b, OutcomeAt(stream, mid, rings, p))
    <3>1. mid \in Seq(OpType) /\ j \in 1 .. Len(mid) /\ m \in Nat
      BY <1>10, <1>18, <1>25
    <3> QED
      BY <1>23, <1>26, <2>1, <3>1, OutcomeUses
  <2> QED
    BY <1>24, <1>25, <1>28, <2>2
<1>30. Len(rings) = Len(buffers) /\ rings[1].id = buffers[1].id
  <2>1. Push(last, size).id = last.id
    BY DEF Push
  <2> QED
    BY <1>1, <1>3, <2>1 DEF rings, Replaced
<1>31. WriteMade(b, m, ops, buffers, left, buffers')
  BY <1>23, <1>27, <1>29, <1>30, RingsByNumber DEF WriteMade
<1>32. WriteQueued
  <2>1. /\ queue' \in Seq(OpType) /\ Len(queue') = Len(q)
        /\ \A i \in 1 .. Len(q) : queue'[i] = IF i = k THEN Used(new, m) ELSE q[i]
    BY <1>13, <1>15, <1>16, ExceptSeq DEF Replaced
  <2>2. Used(new, m).op = "Write"
    BY <1>10, <1>12, UsedOp
  <2>3. ASSUME NEW i \in 1 .. Len(queue)
        PROVE  queue'[i] = queue[i]
    <3>1. i \in 1 .. Len(q) /\ i # k
      BY <1>13
    <3> QED
      BY <1>13, <2>1, <3>1
  <2>4. queue'[k] = Used(new, m)
    BY <1>15, <2>1
  <2> QED
    BY <1>13, <2>1, <2>2, <2>3, <2>4 DEF WriteQueued
<1> QED
  BY <1>10, <1>14, <1>31, <1>32 DEF ops, left

-----------------------------------------------------------------------------
(* The other actions *)

\* What is pending is formed still, and has the same outcome.
OutcomeKept ==
    /\ Shape(Pending', buffers')
    /\ \A p \in Places : OutcomeAt(stream', Pending', buffers', p)
                            = OutcomeAt(stream, Pending, buffers, p)

LEMMA NothingPendingChanges ==
    ASSUME Shape(Pending, buffers), Pending' = Pending,
           UNCHANGED <<buffers, stream>>
    PROVE  OutcomeKept
PROOF
<1> DEFINE left == Pending'
           ops == Pending
<1>1. left = ops /\ Shape(ops, buffers)
  OBVIOUS
<1> HIDE DEF left, ops
<1>2. /\ Shape(left, buffers')
      /\ \A p \in Places : OutcomeAt(stream', left, buffers', p)
                              = OutcomeAt(stream, ops, buffers, p)
  BY <1>1
<1> QED
  BY <1>2 DEF OutcomeKept, left, ops

LEMMA PendingType ==
    ASSUME TypeOK
    PROVE  /\ Pending \in Seq(OpType)
           /\ ~Held(worker, opData) => Pending = queue
           /\ Held(worker, opData) => /\ Pending = <<opData>> \o queue
                                     /\ Pending # <<>> /\ Pending[1] = opData
                                     /\ Tail(Pending) = queue
PROOF
<1>1. queue \in Seq(OpType) /\ opData \in OpType
  BY DEF TypeOK
<1>2. CASE ~Held(worker, opData)
  <2>1. Pending = queue
    BY <1>1, <1>2, FrontIdle, PendingIsFront
  <2> QED
    BY <1>1, <1>2, <2>1
<1>3. CASE Held(worker, opData)
  <2>1. Pending = <<opData>> \o queue
    BY <1>3, FrontWriting, PendingIsFront
  <2>2. /\ <<opData>> \o queue \in Seq(OpType) /\ <<opData>> \o queue # <<>>
        /\ (<<opData>> \o queue)[1] = opData
    BY <1>1, ConsSeq
  <2>3. Tail(<<opData>> \o queue) = queue
    BY <1>1, ConsTail
  <2> QED
    BY <1>3, <2>1, <2>2, <2>3
<1> QED
  BY <1>2, <1>3

LEMMA AppendKeeps ==
    ASSUME TypeOK, Shape(Pending, buffers), NEW x \in OpType,
           x.op \notin {"Write", "PopBuffer"}, x.size = 0, x.used = 0,
           queue' = Append(queue, x),
           UNCHANGED <<worker, opData, buffers, stream>>
    PROVE  OutcomeKept
PROOF
<1> DEFINE ops == Pending
           left == Pending'
<1>1. /\ queue \in Seq(OpType) /\ opData \in OpType
      /\ buffers \in Seq(RingType) /\ buffers # <<>>
  BY DEF TypeOK
<1>2. left = Append(ops, x)
  BY <1>1, FrontAppend, PendingIsFront
<1>3. ops \in Seq(OpType)
  BY PendingType
<1>4. Shape(ops, buffers)
  OBVIOUS
<1> HIDE DEF ops, left
<1>5. Shape(left, buffers)
  BY <1>1, <1>2, <1>3, <1>4, ShapeAppend
<1>6. ASSUME NEW p \in Places
      PROVE  OutcomeAt(stream, left, buffers, p) = OutcomeAt(stream, ops, buffers, p)
  <2>1. ~Covers(x, p)
    BY NothingCovered
  <2> QED
    BY <1>2, <1>3, <2>1, OutcomeAppend
<1>7. Shape(left, buffers') /\ \A p \in Places :
         OutcomeAt(stream', left, buffers', p) = OutcomeAt(stream, ops, buffers, p)
  BY <1>5, <1>6
<1> QED
  BY <1>7 DEF OutcomeKept, ops, left

LEMMA ReconfigureKeeps ==
    ASSUME TypeOK, Shape(Pending, buffers), NEW x \in OpType,
           x.op = "PopBuffer", x.size = 0, x.used = 0,
           NEW size \in Nat \ {0},
           queue' = Append(queue, x),
           buffers' = Append(buffers, Ring(buffers[1].id + Len(buffers), size)),
           buffers' \in Seq(RingType),
           UNCHANGED <<worker, opData, stream>>
    PROVE  OutcomeKept
PROOF
<1> DEFINE ops == Pending
           left == Pending'
<1>1. /\ queue \in Seq(OpType) /\ opData \in OpType
      /\ buffers \in Seq(RingType) /\ buffers # <<>>
  BY DEF TypeOK
<1>2. left = Append(ops, x)
  BY <1>1, FrontAppend, PendingIsFront
<1>3. ops \in Seq(OpType)
  BY PendingType
<1>4. Shape(ops, buffers)
  OBVIOUS
<1> HIDE DEF ops, left
<1>5. Shape(left, buffers')
  BY <1>1, <1>2, <1>3, <1>4, ShapeReconfigure
<1>6. \A p \in Places :
         OutcomeAt(stream, left, buffers', p) = OutcomeAt(stream, ops, buffers, p)
  <2> SUFFICES ASSUME NEW p \in Places
               PROVE  OutcomeAt(stream, left, buffers', p) = OutcomeAt(stream, ops, buffers, p)
    OBVIOUS
  <2> DEFINE others == buffers'
  <2>1. Grown(buffers, size, others)
    BY DEF Grown
  <2> HIDE DEF others
  <2>2. OutcomeAt(stream, Append(ops, x), others, p) = OutcomeAt(stream, ops, buffers, p)
    BY <1>1, <1>3, <1>4, <2>1, OutcomeReconfigure
  <2> QED
    BY <1>2, <2>2 DEF others
<1>7. Shape(left, buffers') /\ \A p \in Places :
         OutcomeAt(stream', left, buffers', p) = OutcomeAt(stream, ops, buffers, p)
  BY <1>5, <1>6
<1> QED
  BY <1>7 DEF OutcomeKept, ops, left

\* An operation that writes nothing is taken.
LEMMA TakeKeeps ==
    ASSUME TypeOK, Shape(Pending, buffers), worker = "ready", queue # <<>>,
           Head(queue).op \in {"Sync", "Stop"}, worker' \notin {"writing", "failed"},
           queue' = Tail(queue), UNCHANGED <<buffers, stream>>
    PROVE  OutcomeKept
PROOF
<1>1. /\ queue \in Seq(OpType) /\ buffers \in Seq(RingType) /\ buffers # <<>>
  BY DEF TypeOK
<1>2. Pending = queue
  BY PendingType DEF Held
<1>3. Tail(queue) \in Seq(OpType) /\ Head(queue) = queue[1] /\ 1 \in 1 .. Len(queue)
      /\ queue[1] \in OpType
  BY <1>1, Tailed
<1>4. Pending' = Tail(queue)
  BY <1>3, FrontIdle, PendingIsFront DEF Held
<1>5. Shape(queue, buffers)
  BY <1>2
<1>6. Shape(Tail(queue), buffers)
  BY <1>1, <1>3, <1>5, ShapeTail
<1>7. queue[1].used = 0
  <2>1. queue[1].used <= queue[1].size /\ queue[1].size = 0
    BY <1>3, <1>5 DEF Shape, OpsFormed
  <2> QED
    BY <1>3, <2>1, OpFields
<1>8. ASSUME NEW p \in Places
      PROVE  OutcomeAt(stream, Tail(queue), buffers, p) = OutcomeAt(stream, queue, buffers, p)
  <2>1. ~Covers(queue[1], p)
    BY <1>3, <1>7, NothingCovered
  <2>2. stream[p] = IF Covers(queue[1], p) THEN DatumOf(buffers, queue[1], p) ELSE stream[p]
    BY <2>1
  <2> QED
    BY <1>1, <2>2, OutcomeTail
<1> DEFINE ops == Pending
           left == Pending'
<1>9. ops = queue /\ left = Tail(queue)
  BY <1>2, <1>4
<1> HIDE DEF ops, left
<1>10. Shape(left, buffers') /\ \A p \in Places :
         OutcomeAt(stream', left, buffers', p) = OutcomeAt(stream, ops, buffers, p)
  BY <1>6, <1>8, <1>9
<1> QED
  BY <1>10 DEF OutcomeKept, ops, left

LEMMA TakeWriteKeeps ==
    ASSUME TypeOK, Shape(Pending, buffers), TakeWrite
    PROVE  OutcomeKept
PROOF
<1>1. /\ worker = "ready" /\ queue # <<>> /\ queue' = Tail(queue) /\ worker' = "writing"
      /\ opData' = Head(queue) /\ Head(queue).op = "Write" /\ UNCHANGED <<buffers, stream>>
  BY DEF TakeWrite, Take, streamVars
<1>2. queue \in Seq(OpType)
  BY DEF TypeOK
<1>3. Pending = queue
  BY <1>1, PendingType DEF Held
<1>4. Pending' = <<Head(queue)>> \o Tail(queue)
  BY <1>1, FrontWriting, PendingIsFront DEF Held
<1>5. Pending' = Pending
  BY <1>1, <1>2, <1>3, <1>4, ConsHead
<1> QED
  BY <1>1, <1>5, NothingPendingChanges

LEMMA TakePopBufferKeeps ==
    ASSUME TypeOK, Shape(Pending, buffers), TakePopBuffer
    PROVE  /\ OutcomeKept
           /\ buffers' \in Seq(RingType) /\ buffers' # <<>>
           /\ Len(buffers') = Len(buffers) - 1 /\ buffers'[1].id = buffers[1].id + 1
PROOF
<1>1. /\ worker = "ready" /\ queue # <<>> /\ queue' = Tail(queue) /\ worker' = "ready"
      /\ Head(queue).op = "PopBuffer" /\ buffers' = Tail(buffers) /\ stream' = stream
  BY DEF TakePopBuffer, Take, streamVars
<1>2. /\ queue \in Seq(OpType) /\ buffers \in Seq(RingType) /\ buffers # <<>>
  BY DEF TypeOK
<1>3. Pending = queue
  BY <1>1, PendingType DEF Held
<1>4. Tail(queue) \in Seq(OpType) /\ Head(queue) = queue[1]
  BY <1>1, <1>2, Tailed
<1>5. Pending' = Tail(queue)
  BY <1>1, <1>4, FrontIdle, PendingIsFront DEF Held
<1>6. Shape(queue, buffers) /\ queue[1].op = "PopBuffer"
  BY <1>1, <1>3, <1>4
<1>7. /\ Tail(buffers) # <<>> /\ Tail(buffers)[1].id = buffers[1].id + 1
      /\ Shape(Tail(queue), Tail(buffers))
  BY <1>1, <1>2, <1>6, ShapePop
<1>8. \A p \in Places :
         OutcomeAt(stream, Tail(queue), Tail(buffers), p) = OutcomeAt(stream, queue, buffers, p)
  BY <1>1, <1>2, <1>6, OutcomePop
<1> DEFINE ops == Pending
           left == Pending'
<1>9. ops = queue /\ left = Tail(queue)
  BY <1>3, <1>5
<1> HIDE DEF ops, left
<1>10. Shape(left, buffers') /\ \A p \in Places :
          OutcomeAt(stream', left, buffers', p) = OutcomeAt(stream, ops, buffers, p)
  BY <1>1, <1>7, <1>8, <1>9
<1>11. Tail(buffers) \in Seq(RingType) /\ Len(Tail(buffers)) = Len(buffers) - 1
  BY <1>2, Tailed
<1> QED
  BY <1>1, <1>7, <1>10, <1>11 DEF OutcomeKept, ops, left

\* What the oldest ring gives up for n bytes of the operation op.
Given(op, n) == IF n = op.used THEN op.size ELSE n

LEMMA StreamWritesKeeps ==
    ASSUME TypeOK, Shape(Pending, buffers), opData.op = "Write",
           NEW n \in Nat, StreamWrites(n)
    PROVE  /\ OutcomeKept
           /\ queue' \in Seq(OpType)
           /\ stream' \in [Places -> Contents]
           /\ buffers' \in Seq(RingType) /\ buffers' # <<>>
           /\ Len(buffers') = Len(buffers) /\ buffers'[1].id = buffers[1].id
PROOF
<1> DEFINE ops == Pending
           left == Pending'
           popped == Pop(buffers[1], Given(opData, n))
<1>1. /\ worker = "writing" /\ n <= opData.used
      /\ stream' = Written(opData, n)
      /\ buffers' = Replaced(buffers, 1, popped)
      /\ queue' = IF n = opData.used THEN queue ELSE <<PopWriteData(opData, n)>> \o queue
      /\ worker' = "ready"
  <2>1. [buffers EXCEPT ![1] = Pop(@, Given(opData, n))] = Replaced(buffers, 1, popped)
    BY DEF Replaced
  <2> QED
    BY <2>1 DEF StreamWrites, Given
<1>2. /\ queue \in Seq(OpType) /\ opData \in OpType /\ buffers \in Seq(RingType) /\ buffers # <<>>
      /\ stream \in [Places -> Contents]
  BY DEF TypeOK
<1>3. /\ ops \in Seq(OpType) /\ ops = <<opData>> \o queue
      /\ ops # <<>> /\ ops[1] = opData /\ Tail(ops) = queue
  BY <1>1, PendingType DEF Held
<1>4. Shape(ops, buffers) /\ ops[1].op = "Write"
  BY <1>3
<1>5. /\ opData.arg \in Nat /\ opData.offset \in Nat /\ opData.size \in Nat /\ opData.used \in Nat
  BY <1>2, OpFields
<1>6. /\ 1 \in 1 .. Len(ops) /\ opData.used <= opData.size
      /\ Within(opData, buffers[1]) /\ opData.size > 0 /\ opData.offset = buffers[1].read
      /\ 1 \in 1 .. Len(buffers)
  <2>1. 1 \in 1 .. Len(ops) /\ 1 \in 1 .. Len(buffers)
    BY <1>2, <1>3
  <2> HIDE DEF ops
  <2>2. /\ Within(ops[1], buffers[1]) /\ ops[1].size > 0 /\ ops[1].offset = buffers[1].read
        /\ ops[1].used <= ops[1].size
    BY <1>2, <1>3, <1>4, FirstWrite
  <2> QED
    BY <1>3, <2>1, <2>2
<1> HIDE DEF ops, left
<1>16. /\ ops \in Seq(OpType) /\ buffers \in Seq(RingType) /\ ops # <<>> /\ buffers # <<>>
       /\ Shape(ops, buffers) /\ ops[1].op = "Write" /\ 1 \in 1 .. Len(ops)
  BY <1>2, <1>3, <1>4, <1>6
<1>7. ASSUME NEW p \in Places
      PROVE  Moved(opData, buffers, n, stream, stream', p)
  <2>1. stream'[p] = IF p \in opData.arg .. opData.arg + n - 1
                     THEN Datum(opData, p) ELSE stream[p]
    BY <1>1 DEF Written
  <2>2. Datum(opData, p) = DatumOf(buffers, opData, p)
    BY DEF Datum, DatumOf
  <2> QED
    BY <2>1, <2>2 DEF Moved
<1>8. ASSUME NEW p \in Places, p \in opData.arg .. opData.arg + n - 1
      PROVE  DatumOf(buffers, opData, p) \in Contents
  <2>1. Covers(opData, p)
    <3>1. p \in Int /\ opData.arg <= p /\ p <= opData.arg + n - 1
      BY <1>5, <1>8 DEF Places
    <3>2. p \in opData.arg .. opData.arg + opData.used - 1
      BY <1>1, <1>5, <3>1
    <3> QED
      BY <1>5, <3>2 DEF Covers, EndOffset
  <2> DEFINE c == opData.offset + p - opData.arg
             ring == RingOf(buffers, opData.ring)
  <2>2. /\ RingFormed(ring) /\ c \in 0 .. ring.size - 1
        /\ DatumOf(buffers, opData, p) = ring.cells[c]
    <3>1. Covers(ops[1], p)
      BY <1>3, <2>1
    <3>2. /\ RingFormed(RingOf(buffers, ops[1].ring))
          /\ ops[1].offset + p - ops[1].arg \in 0 .. RingOf(buffers, ops[1].ring).size - 1
          /\ DatumOf(buffers, ops[1], p) =
                RingOf(buffers, ops[1].ring).cells[ops[1].offset + p - ops[1].arg]
      BY <1>16, <3>1, CoveringWrite
    <3> QED
      BY <1>3, <3>2
  <2> HIDE DEF c, ring
  <2> QED
    BY <2>2 DEF RingFormed
<1>9. stream' \in [Places -> Contents]
  <2>1. stream' = [p \in Places |-> stream'[p]]
    BY <1>1 DEF Written
  <2>2. \A p \in Places : stream'[p] \in Contents
    BY <1>2, <1>7, <1>8 DEF Moved
  <2> QED
    BY <2>1, <2>2
<1>10. Given(opData, n) \in 0 .. opData.size
  BY <1>1, <1>5, <1>6 DEF Given
<1>11. popped.id = buffers[1].id
  BY DEF Pop
<1> HIDE DEF popped
<1>12. /\ buffers' \in Seq(RingType) /\ buffers' # <<>>
       /\ Len(buffers') = Len(buffers) /\ buffers'[1].id = buffers[1].id
  <2>1. buffers[1] \in RingType /\ RingFormed(buffers[1])
    BY <1>2, <1>4, <1>6, RingsByNumber DEF Shape, RingsOrdered
  <2>2. popped \in RingType
    BY <1>2, <1>6, <1>10, <2>1, Popped DEF popped
  <2>3. /\ Replaced(buffers, 1, popped) \in Seq(RingType)
        /\ Len(Replaced(buffers, 1, popped)) = Len(buffers)
        /\ Replaced(buffers, 1, popped)[1] = popped
    BY <1>2, <1>6, <2>2, ExceptSeq DEF Replaced
  <2>4. Replaced(buffers, 1, popped) # <<>>
    BY <1>2, <2>3
  <2> QED
    BY <1>1, <1>11, <2>3, <2>4
<1>13. queue' \in Seq(OpType) /\ left = queue'
  <2>1. queue' \in Seq(OpType)
    <3>1. PopWriteData(opData, n) \in OpType
      BY <1>1, <1>2, <1>6, PartOfWrite
    <3>2. <<PopWriteData(opData, n)>> \o queue \in Seq(OpType)
      BY <1>2, <3>1, ConsSeq
    <3> QED
      BY <1>1, <1>2, <3>2
  <2>2. left = FrontOf("ready", opData', queue')
    BY <1>1, PendingIsFront DEF left
  <2> QED
    BY <2>1, <2>2, FrontIdle DEF Held
<1>14. CASE n = opData.used
  <2>1. left = Tail(ops) /\ Given(opData, n) = ops[1].size
    BY <1>1, <1>3, <1>13, <1>14 DEF Given
  <2>2. buffers' = Replaced(buffers, 1, Pop(buffers[1], ops[1].size))
    BY <1>1, <2>1 DEF popped
  <2>3. Shape(left, buffers')
    <3> DEFINE others == buffers'
    <3>1. others = Replaced(buffers, 1, Pop(buffers[1], ops[1].size))
      BY <2>2
    <3> HIDE DEF others
    <3>2. Shape(Tail(ops), others)
      BY <1>2, <1>3, <1>4, <3>1, ShapeDone
    <3> QED
      BY <2>1, <3>2 DEF others
  <2>4. ASSUME NEW p \in Places
        PROVE  OutcomeAt(stream', left, buffers', p) = OutcomeAt(stream, ops, buffers, p)
    <3>1. Moved(ops[1], buffers, ops[1].used, stream, stream', p)
      BY <1>3, <1>7, <1>14
    <3>2. OutcomeAt(stream', Tail(ops), Replaced(buffers, 1, Pop(buffers[1], ops[1].size)), p)
             = OutcomeAt(stream, ops, buffers, p)
      BY <1>16, <3>1, OutcomeDone
    <3> QED
      BY <2>1, <2>2, <3>2
  <2>5. Shape(left, buffers') /\ \A p \in Places :
           OutcomeAt(stream', left, buffers', p) = OutcomeAt(stream, ops, buffers, p)
    BY <2>3, <2>4
  <2> QED
    BY <1>9, <1>12, <1>13, <2>5 DEF OutcomeKept, ops, left
<1>15. CASE n # opData.used
  <2>1. n < ops[1].used /\ Given(opData, n) = n
    BY <1>1, <1>3, <1>5, <1>15 DEF Given
  <2>7. PartOf(ops[1], n)
    BY <2>1 DEF PartOf
  <2>2. buffers' = Replaced(buffers, 1, Pop(buffers[1], n))
    BY <1>1, <2>1 DEF popped
  <2>3. left = Replaced(ops, 1, PopWriteData(ops[1], n))
    <3>1. PopWriteData(opData, n) \in OpType
      BY <1>1, <1>2, <1>6, PartOfWrite
    <3>2. Replaced(<<opData>> \o queue, 1, PopWriteData(opData, n))
             = <<PopWriteData(opData, n)>> \o queue
      BY <1>2, <3>1, ConsFirst
    <3> QED
      BY <1>1, <1>3, <1>13, <1>15, <3>2
  <2>4. Shape(left, buffers')
    <3> DEFINE others == buffers'
    <3>1. others = Replaced(buffers, 1, Pop(buffers[1], n))
      BY <2>2
    <3> HIDE DEF others
    <3>2. Shape(left, others)
      BY <1>2, <1>3, <1>4, <2>1, <2>3, <3>1, ShapePart
    <3> QED
      BY <3>2 DEF others
  <2>5. ASSUME NEW p \in Places
        PROVE  OutcomeAt(stream', left, buffers', p) = OutcomeAt(stream, ops, buffers, p)
    <3>1. Moved(ops[1], buffers, n, stream, stream', p)
      BY <1>3, <1>7
    <3>2. PartWritten(stream, stream', ops, buffers, n, p)
      BY <1>16, <2>7, <3>1, OutcomeWritten
    <3> QED
      BY <2>2, <2>3, <3>2 DEF PartWritten
  <2>6. Shape(left, buffers') /\ \A p \in Places :
           OutcomeAt(stream', left, buffers', p) = OutcomeAt(stream, ops, buffers, p)
    BY <2>4, <2>5
  <2> QED
    BY <1>9, <1>12, <1>13, <2>6 DEF OutcomeKept, ops, left
<1> QED
  BY <1>14, <1>15

-----------------------------------------------------------------------------
(* The order of the queue *)

LEMMA NoStopQueued ==
    ASSUME StopIsLast, user \notin {"closing", "closed"}
    PROVE  /\ \A i \in 1 .. Len(queue) : queue[i].op # "Stop"
           /\ worker # "stopped" /\ ~Ending
  BY DEF StopIsLast, Ending

LEMMA AppendOrdered ==
    ASSUME TypeOK, QueueOrdered, user \in {"idle", "called"}, NEW x \in OpType,
           queue' = Append(queue, x), x.op # "Write",
           x.op = "Sync" => x.arg = syncNext /\ syncNext' = syncNext + 1,
           x.op # "Sync" => syncNext' = syncNext,
           user' \in {"idle", "syncing", "closing"},
           x.op = "Stop" <=> user' = "closing",
           user' = "syncing" => x.op = "Sync",
           UNCHANGED <<worker, opData, wasException, synced, syncDone>>
    PROVE  QueueOrdered'
PROOF
<1>1. /\ queue \in Seq(OpType) /\ syncNext \in Nat \ {0} /\ syncDone \in Nat
      /\ opData \in OpType
  BY DEF TypeOK
<1>2. /\ queue' \in Seq(OpType) /\ Len(queue') = Len(queue) + 1 /\ Len(queue) \in Nat
      /\ queue'[Len(queue) + 1] = x /\ \A i \in 1 .. Len(queue) : queue'[i] = queue[i]
  BY <1>1, Appended
<1>3. /\ \A i \in 1 .. Len(queue) : queue[i].op # "Stop"
      /\ worker # "stopped" /\ ~Ending
  BY NoStopQueued DEF QueueOrdered
<1>4. queue' # <<>>
  BY <1>2
<1>5. \A i \in 1 .. Len(queue') : i \in 1 .. Len(queue) \/ i = Len(queue) + 1
  BY <1>2
<1>6. x.arg \in Nat /\ opData.arg \in Nat /\ \A i \in 1 .. Len(queue) : queue[i].arg \in Nat
  BY <1>1, OpFields
<1>7. Ending' <=> user' = "closing"
  BY DEF Ending
<1>8. StopIsLast'
  <2>1. ASSUME NEW i \in 1 .. Len(queue'), queue'[i].op = "Stop"
        PROVE  i = Len(queue') /\ Ending'
    BY <1>2, <1>3, <1>5, <1>7, <2>1
  <2>2. Ending' => queue'[Len(queue')].op = "Stop"
    BY <1>2, <1>7
  <2> QED
    BY <1>3, <1>4, <2>1, <2>2 DEF StopIsLast
<1>9. /\ syncDone < syncNext
      /\ worker = "synchronizing" => opData.op = "Sync" /\ opData.arg < syncNext
      /\ \A i \in 1 .. Len(queue) : queue[i].op = "Sync" =>
            /\ queue[i].arg < syncNext
            /\ worker = "synchronizing" => opData.arg < queue[i].arg
            /\ \A j \in 1 .. i - 1 : queue[j].op = "Sync" => queue[j].arg < queue[i].arg
  BY DEF QueueOrdered, SyncsOrdered
<1>10. SyncsOrdered'
  <2>1. syncNext' \in Nat /\ syncNext <= syncNext'
    BY <1>1
  <2>2. ASSUME NEW i \in 1 .. Len(queue'), queue'[i].op = "Sync"
        PROVE  /\ queue'[i].arg < syncNext'
               /\ worker = "synchronizing" => opData.arg < queue'[i].arg
               /\ \A j \in 1 .. i - 1 : queue'[j].op = "Sync" => queue'[j].arg < queue'[i].arg
    <3>1. CASE i \in 1 .. Len(queue)
      <4>1. queue'[i] = queue[i] /\ \A j \in 1 .. i - 1 : queue'[j] = queue[j]
        BY <1>2, <3>1
      <4> QED
        BY <1>1, <1>6, <1>9, <2>1, <2>2, <3>1, <4>1
    <3>2. CASE i = Len(queue) + 1
      <4>1. queue'[i] = x /\ x.op = "Sync" /\ x.arg = syncNext /\ syncNext' = syncNext + 1
        BY <1>2, <2>2, <3>2
      <4>2. \A j \in 1 .. i - 1 : j \in 1 .. Len(queue) /\ queue'[j] = queue[j]
        BY <1>2, <3>2
      <4> QED
        BY <1>1, <1>9, <4>1, <4>2
    <3> QED
      BY <1>5, <3>1, <3>2
  <2>3. /\ syncDone' < syncNext'
        /\ worker' = "synchronizing" => opData'.op = "Sync" /\ opData'.arg < syncNext'
    BY <1>1, <1>6, <1>9, <2>1
  <2> QED
    BY <2>2, <2>3 DEF SyncsOrdered
<1>11. SyncIsLast'
  <2> SUFFICES ASSUME user' = "syncing"
               PROVE  SyncIsLast'
    BY DEF SyncIsLast
  <2>1. x.op = "Sync" /\ x.arg = syncNext /\ syncNext' = syncNext + 1
    OBVIOUS
  <2>2. queue'[Len(queue')] = x
    BY <1>2
  <2>3. queue'[Len(queue')].arg = syncNext' - 1 /\ syncDone' < syncNext' - 1
    BY <1>1, <1>9, <2>1, <2>2
  <2> QED
    BY <1>4, <2>1, <2>2, <2>3 DEF SyncIsLast
<1> QED
  BY <1>8, <1>10, <1>11 DEF QueueOrdered

LEMMA WriteOrdered ==
    ASSUME TypeOK, QueueOrdered, user \in {"idle", "called"}, WriteQueued, user' = "idle",
           UNCHANGED <<worker, opData, wasException, synced, syncDone, syncNext>>
    PROVE  QueueOrdered'
PROOF
<1>1. queue \in Seq(OpType) /\ Len(queue) \in Nat
  BY DEF TypeOK
<1>2. /\ queue' \in Seq(OpType) /\ Len(queue') \in Len(queue) .. Len(queue) + 1
      /\ \A i \in 1 .. Len(queue) : queue'[i].op = queue[i].op /\ queue'[i].arg = queue[i].arg
      /\ Len(queue') = Len(queue) + 1 => queue'[Len(queue) + 1].op = "Write"
  BY DEF WriteQueued
<1>3. /\ \A i \in 1 .. Len(queue) : queue[i].op # "Stop"
      /\ worker # "stopped" /\ ~Ending
  BY NoStopQueued DEF QueueOrdered
<1>4. ASSUME NEW i \in 1 .. Len(queue'), queue'[i].op # "Write"
      PROVE  i \in 1 .. Len(queue)
  <2>1. Len(queue') = Len(queue) \/ Len(queue') = Len(queue) + 1
    BY <1>1, <1>2
  <2> QED
    BY <1>1, <1>2, <1>4, <2>1
<1>5. StopIsLast'
  <2>1. \A i \in 1 .. Len(queue') : queue'[i].op # "Stop"
    BY <1>2, <1>3, <1>4
  <2> QED
    BY <1>3, <2>1 DEF StopIsLast, Ending
<1>6. SyncsOrdered'
  <2>1. ASSUME NEW i \in 1 .. Len(queue'), queue'[i].op = "Sync"
        PROVE  /\ queue'[i].arg < syncNext'
               /\ worker = "synchronizing" => opData.arg < queue'[i].arg
               /\ \A j \in 1 .. i - 1 : queue'[j].op = "Sync" => queue'[j].arg < queue'[i].arg
    <3>1. i \in 1 .. Len(queue) /\ \A j \in 1 .. i - 1 : j \in 1 .. Len(queue)
      BY <1>1, <1>4, <2>1
    <3> QED
      BY <1>2, <2>1, <3>1 DEF QueueOrdered, SyncsOrdered
  <2> QED
    BY <2>1 DEF QueueOrdered, SyncsOrdered
<1> QED
  BY <1>5, <1>6 DEF QueueOrdered, SyncIsLast

LEMMA TakeOrdered ==
    ASSUME TypeOK, QueueOrdered, ~wasException, worker = "ready", queue # <<>>,
           queue' = Tail(queue),
           worker' \in {"ready", "writing", "synchronizing", "stopped"},
           worker' = "stopped" <=> Head(queue).op = "Stop",
           worker' = "synchronizing" <=> Head(queue).op = "Sync",
           worker' = "synchronizing" => opData' = Head(queue),
           UNCHANGED <<user, wasException, synced, syncDone, syncNext>>
    PROVE  QueueOrdered'
PROOF
<1>1. queue \in Seq(OpType) /\ syncNext \in Nat \ {0} /\ syncDone \in Nat
  BY DEF TypeOK
<1>2. /\ queue' \in Seq(OpType) /\ Len(queue) \in Nat \ {0} /\ Len(queue') = Len(queue) - 1
      /\ Head(queue) = queue[1] /\ \A i \in 1 .. Len(queue) - 1 : queue'[i] = queue[i + 1]
  BY <1>1, Tailed
<1>3. \A i \in 1 .. Len(queue') : /\ queue'[i] = queue[i + 1]
                                  /\ i + 1 \in 1 .. Len(queue) /\ 1 \in 1 .. i + 1 - 1
  BY <1>2
<1>4. Ending' = Ending
  BY DEF Ending
<1>5. /\ \A i \in 1 .. Len(queue) : queue[i].op = "Stop" => i = Len(queue) /\ Ending
      /\ Ending => queue[Len(queue)].op = "Stop"
  BY DEF QueueOrdered, StopIsLast
<1>6. StopIsLast'
  <2>1. ASSUME NEW i \in 1 .. Len(queue'), queue'[i].op = "Stop"
        PROVE  i = Len(queue') /\ Ending'
    <3>1. i + 1 \in 1 .. Len(queue) /\ queue[i + 1].op = "Stop"
      BY <1>3, <2>1
    <3>2. i + 1 = Len(queue) /\ Ending
      BY <1>5, <3>1
    <3>3. Len(queue) \in Nat /\ Len(queue') = Len(queue) - 1
      BY <1>2
    <3>4. i = Len(queue')
      BY <3>2, <3>3
    <3> QED
      BY <1>4, <3>2, <3>4
  <2>2. ASSUME worker' = "stopped"
        PROVE  queue' = <<>> /\ Ending'
    <3>1. queue[1].op = "Stop" /\ 1 \in 1 .. Len(queue)
      BY <1>2, <2>2
    <3>2. Len(queue) = 1 /\ Ending
      BY <1>5, <3>1
    <3> QED
      BY <1>2, <1>4, <3>2
  <2>3. ASSUME Ending', worker' # "stopped"
        PROVE  queue' # <<>> /\ queue'[Len(queue')].op = "Stop"
    <3>1. queue[Len(queue)].op = "Stop" /\ queue[1].op # "Stop"
      BY <1>2, <1>4, <1>5, <2>3
    <3>2. Len(queue) # 1
      BY <3>1
    <3>3. Len(queue') \in 1 .. Len(queue) - 1 /\ Len(queue') + 1 = Len(queue)
      BY <1>2, <3>2
    <3>4. queue'[Len(queue')] = queue[Len(queue)]
      BY <1>2, <3>3
    <3> QED
      BY <3>1, <3>3, <3>4
  <2> QED
    BY <2>1, <2>2, <2>3 DEF StopIsLast
<1>7. /\ syncDone < syncNext
      /\ \A i \in 1 .. Len(queue) : queue[i].op = "Sync" =>
            /\ queue[i].arg < syncNext
            /\ \A j \in 1 .. i - 1 : queue[j].op = "Sync" => queue[j].arg < queue[i].arg
  BY DEF QueueOrdered, SyncsOrdered
<1>8. SyncsOrdered'
  <2>1. ASSUME worker' = "synchronizing"
        PROVE  opData'.op = "Sync" /\ opData'.arg < syncNext'
    <3>1. opData' = queue[1] /\ queue[1].op = "Sync" /\ 1 \in 1 .. Len(queue)
      BY <1>2, <2>1
    <3> QED
      BY <1>7, <3>1
  <2>2. ASSUME NEW i \in 1 .. Len(queue'), queue'[i].op = "Sync"
        PROVE  /\ queue'[i].arg < syncNext'
               /\ worker' = "synchronizing" => opData'.arg < queue'[i].arg
               /\ \A j \in 1 .. i - 1 : queue'[j].op = "Sync" => queue'[j].arg < queue'[i].arg
    <3> DEFINE k == i + 1
    <3>1. queue'[i] = queue[k] /\ k \in 1 .. Len(queue) /\ 1 \in 1 .. k - 1
      BY <1>3
    <3>2. \A j \in 1 .. i - 1 : queue'[j] = queue[j + 1] /\ j + 1 \in 1 .. k - 1
      BY <1>2
    <3> HIDE DEF k
    <3>3. /\ queue[k].arg < syncNext
          /\ \A j \in 1 .. k - 1 : queue[j].op = "Sync" => queue[j].arg < queue[k].arg
      BY <1>7, <2>2, <3>1
    <3>4. worker' = "synchronizing" => opData' = queue[1] /\ queue[1].op = "Sync"
      BY <1>2
    <3> QED
      BY <3>1, <3>2, <3>3, <3>4
  <2> QED
    BY <1>7, <2>1, <2>2 DEF SyncsOrdered
<1>9. SyncIsLast'
  <2> SUFFICES ASSUME user = "syncing"
               PROVE  SyncIsLast'
    BY DEF SyncIsLast
  <2>1. /\ queue[Len(queue)].op = "Sync" /\ queue[Len(queue)].arg = syncNext - 1
        /\ syncDone < syncNext - 1
    BY DEF QueueOrdered, SyncIsLast
  <2>2. CASE Len(queue) = 1
    <3>1. worker' = "synchronizing" /\ opData' = queue[1]
      BY <1>2, <2>1, <2>2
    <3>2. queue' = <<>>
      BY <1>2, <2>2
    <3> QED
      BY <2>1, <2>2, <3>1, <3>2 DEF SyncIsLast
  <2>3. CASE Len(queue) # 1
    <3>1. Len(queue') \in 1 .. Len(queue) - 1 /\ Len(queue') + 1 = Len(queue)
      BY <1>2, <2>3
    <3>2. queue' # <<>>
      BY <3>1
    <3>3. queue'[Len(queue')] = queue[Len(queue)]
      BY <1>2, <3>1
    <3> QED
      BY <2>1, <3>2, <3>3 DEF SyncIsLast
  <2> QED
    BY <2>2, <2>3
<1> QED
  BY <1>6, <1>8, <1>9 DEF QueueOrdered

LEMMA RestOrdered ==
    ASSUME TypeOK, QueueOrdered, ~wasException, worker = "writing", worker' = "ready",
           NEW x \in OpType, x.op = "Write",
           queue' = queue \/ queue' = <<x>> \o queue,
           UNCHANGED <<user, wasException, syncDone, syncNext>>
    PROVE  QueueOrdered'
PROOF
<1>1. queue \in Seq(OpType) /\ Len(queue) \in Nat
  BY DEF TypeOK
<1>2. /\ \A i \in 1 .. Len(queue) : queue[i].op = "Stop" => i = Len(queue) /\ Ending
      /\ Ending => queue # <<>> /\ queue[Len(queue)].op = "Stop"
      /\ syncDone < syncNext
      /\ \A i \in 1 .. Len(queue) : queue[i].op = "Sync" =>
            /\ queue[i].arg < syncNext
            /\ \A j \in 1 .. i - 1 : queue[j].op = "Sync" => queue[j].arg < queue[i].arg
      /\ user = "syncing" => /\ queue # <<>> /\ queue[Len(queue)].op = "Sync"
                             /\ queue[Len(queue)].arg = syncNext - 1
                             /\ syncDone < syncNext - 1
  BY DEF QueueOrdered, StopIsLast, SyncsOrdered, SyncIsLast
<1>3. Ending' = Ending
  BY DEF Ending
<1>4. CASE queue' = queue
  BY <1>2, <1>3, <1>4 DEF QueueOrdered, StopIsLast, SyncsOrdered, SyncIsLast
<1>5. CASE queue' = <<x>> \o queue
  <2>1. /\ queue' \in Seq(OpType) /\ Len(queue') = Len(queue) + 1 /\ queue' # <<>>
        /\ queue'[1] = x /\ \A i \in 1 .. Len(queue) : queue'[i + 1] = queue[i]
    BY <1>1, <1>5, ConsSeq
  <2>2. ASSUME NEW i \in 1 .. Len(queue'), queue'[i].op # "Write"
        PROVE  i - 1 \in 1 .. Len(queue) /\ queue'[i] = queue[i - 1]
    <3>1. i # 1
      BY <2>1, <2>2
    <3>2. i - 1 \in 1 .. Len(queue) /\ i - 1 + 1 = i
      BY <1>1, <2>1, <3>1
    <3> QED
      BY <2>1, <3>2
  <2>3. queue # <<>> => queue'[Len(queue')] = queue[Len(queue)]
    <3> SUFFICES ASSUME queue # <<>>
                 PROVE  queue'[Len(queue')] = queue[Len(queue)]
      OBVIOUS
    <3>1. Len(queue) \in 1 .. Len(queue)
      BY <1>1
    <3> QED
      BY <2>1, <3>1
  <2>4. StopIsLast'
    <3>1. ASSUME NEW i \in 1 .. Len(queue'), queue'[i].op = "Stop"
          PROVE  i = Len(queue') /\ Ending'
      <4>1. i - 1 \in 1 .. Len(queue) /\ queue[i - 1].op = "Stop"
        BY <2>2, <3>1
      <4>2. i - 1 = Len(queue) /\ Ending
        BY <1>2, <4>1
      <4> QED
        BY <1>1, <1>3, <2>1, <4>2
    <3>2. Ending' => queue' # <<>> /\ queue'[Len(queue')].op = "Stop"
      BY <1>2, <1>3, <2>1, <2>3
    <3> QED
      BY <3>1, <3>2 DEF StopIsLast
  <2>5. SyncsOrdered'
    <3>1. ASSUME NEW i \in 1 .. Len(queue'), queue'[i].op = "Sync"
          PROVE  /\ queue'[i].arg < syncNext'
                 /\ \A j \in 1 .. i - 1 : queue'[j].op = "Sync" => queue'[j].arg < queue'[i].arg
      <4> DEFINE k == i - 1
      <4>1. k \in 1 .. Len(queue) /\ queue'[i] = queue[k] /\ queue[k].op = "Sync"
        BY <2>2, <3>1
      <4>2. ASSUME NEW j \in 1 .. i - 1, queue'[j].op = "Sync"
            PROVE  queue'[j].arg < queue'[i].arg
        <5>1. j \in 1 .. Len(queue')
          BY <1>1, <2>1
        <5> DEFINE m == j - 1
        <5>2. m \in 1 .. Len(queue) /\ queue'[j] = queue[m] /\ m \in 1 .. k - 1
          BY <2>2, <4>2, <5>1
        <5> HIDE DEF k, m
        <5> QED
          BY <1>2, <4>1, <4>2, <5>2
      <4> HIDE DEF k
      <4> QED
        BY <1>2, <4>1, <4>2
    <3> QED
      BY <1>2, <3>1 DEF SyncsOrdered
  <2>6. SyncIsLast'
    BY <1>2, <2>1, <2>3 DEF SyncIsLast
  <2> QED
    BY <2>4, <2>5, <2>6 DEF QueueOrdered
<1> QED
  BY <1>4, <1>5

LEMMA SyncOrdered ==
    ASSUME TypeOK, QueueOrdered, ~wasException, StreamSyncs
    PROVE  QueueOrdered'
PROOF
<1>1. /\ worker = "synchronizing" /\ synced' = TRUE /\ syncDone' = opData.arg
      /\ worker' = "ready"
      /\ UNCHANGED <<queue, user, wasException, syncNext>>
  BY DEF StreamSyncs
<1>2. /\ queue \in Seq(OpType) /\ Len(queue) \in Nat /\ syncNext \in Nat
  BY DEF TypeOK
<1>3. StopIsLast'
  BY <1>1 DEF QueueOrdered, StopIsLast, Ending
<1>4. SyncsOrdered'
  BY <1>1 DEF QueueOrdered, SyncsOrdered
<1>5. SyncIsLast'
  <2> SUFFICES ASSUME user = "syncing"
               PROVE  SyncIsLast'
    BY <1>1 DEF SyncIsLast
  <2>1. \/ /\ queue # <<>> /\ queue[Len(queue)].op = "Sync"
           /\ queue[Len(queue)].arg = syncNext - 1
        \/ queue = <<>>
    BY <1>1 DEF QueueOrdered, SyncIsLast
  <2>2. CASE queue = <<>>
    BY <1>1, <2>2 DEF SyncIsLast
  <2>3. CASE queue # <<>>
    <3>1. Len(queue) \in 1 .. Len(queue)
      BY <1>2, <2>3
    <3>2. opData.arg < queue[Len(queue)].arg
      BY <1>1, <2>1, <2>3, <3>1 DEF QueueOrdered, SyncsOrdered
    <3> QED
      BY <1>1, <2>1, <2>3, <3>2 DEF SyncIsLast
  <2> QED
    BY <2>2, <2>3
<1> QED
  BY <1>3, <1>4, <1>5 DEF QueueOrdered
-----------------------------------------------------------------------------
(* The invariant *)

LEMMA OtherOps ==
    ASSUME NEW op \in {"Sync", "PopBuffer", "Stop", "NoOp"}, NEW arg \in Nat
    PROVE  /\ OtherOp(op, arg) \in OpType
           /\ OtherOp(op, arg).op = op /\ OtherOp(op, arg).arg = arg
           /\ OtherOp(op, arg).size = 0 /\ OtherOp(op, arg).used = 0
  BY DEF OtherOp, OpType

LEMMA NewRing ==
    ASSUME NEW id \in Nat, NEW size \in Nat \ {0}
    PROVE  Ring(id, size) \in RingType /\ RingFormed(Ring(id, size))
PROOF
<1>1. [c \in 0 .. size - 1 |-> Junk] \in [0 .. size - 1 -> Contents]
  BY DEF Contents
<1> QED
  BY <1>1 DEF Ring, RingType, RingFormed

LEMMA InitInv == Init => IInv
PROOF
<1> SUFFICES ASSUME Init
             PROVE  IInv
  OBVIOUS
<1> DEFINE ring == Ring(1, FirstConfig.size)
<1>1. FirstConfig \in Configs /\ FirstConfig.size \in Nat \ {0}
  BY ConfigsAssumption
<1>2. ring \in RingType /\ RingFormed(ring)
  BY <1>1, NewRing
<1>3. ring.id = 1 /\ ring.read = 0 /\ ring.write = 0
  BY DEF Ring
<1>4. /\ queue = <<>> /\ buffers = <<ring>> /\ bufferCount = 1 /\ config = FirstConfig
      /\ position = 0 /\ syncNext = 1 /\ syncDone = 0 /\ wasException = FALSE
      /\ worker = "ready" /\ opData = NoOp /\ user = "idle"
      /\ stream = [p \in Places |-> Old] /\ synced = TRUE /\ spent = {}
  BY DEF Init
<1> HIDE DEF ring
<1>5. buffers \in Seq(RingType) /\ Len(buffers) = 1 /\ buffers[1] = ring /\ buffers # <<>>
  BY <1>2, <1>4
<1>6. TypeOK
  <2>1. stream \in [Places -> Contents]
    BY <1>4 DEF Contents
  <2>2. opData \in OpType
    BY <1>4, OtherOps DEF NoOp
  <2>3. queue \in Seq(OpType)
    BY <1>4
  <2>4. /\ position \in Nat /\ config \in Configs /\ bufferCount \in Nat
        /\ syncNext \in Nat \ {0} /\ syncDone \in Nat
        /\ worker = "ready" /\ user = "idle" /\ spent \subseteq Bytes
    BY <1>1, <1>4
  <2>5. wasException \in BOOLEAN /\ synced \in BOOLEAN
    BY <1>4
  <2> QED
    BY <1>5, <2>1, <2>2, <2>3, <2>4, <2>5 DEF TypeOK
<1>7. Shape(Pending, buffers)
  <2>1. Pending = <<>>
    BY <1>4, <1>6, PendingType DEF Held
  <2> DEFINE at == [i \in 1 .. 1 |-> [ring |-> 1, offset |-> 0]]
  <2>2. Laid(at, <<>>, buffers)
    <3>1. /\ at \in [1 .. 1 -> [ring : Nat, offset : Nat]]
          /\ at[1].ring = 1 /\ at[1].offset = 0
      OBVIOUS
    <3> HIDE DEF at
    <3>2. Len(<<>>) = 0
      OBVIOUS
    <3>3. \A i, j \in 1 .. 1 : i <= j => at[i].ring <= at[j].ring
      BY <3>1
    <3> QED
      BY <1>3, <1>5, <3>1, <3>2, <3>3 DEF Laid
  <2>3. RingsOrdered(buffers)
    BY <1>2, <1>3, <1>5 DEF RingsOrdered
  <2>4. OpsFormed(<<>>) /\ RegionsHeld(<<>>, buffers)
    BY DEF OpsFormed, RegionsHeld
  <2> QED
    BY <2>1, <2>2, <2>3, <2>4 DEF Shape
<1>8. QueueOrdered
  BY <1>4 DEF QueueOrdered, StopIsLast, Ending, SyncsOrdered, SyncIsLast
<1>9. WorkerAgrees
  BY <1>4 DEF WorkerAgrees
<1>10. RingsCounted
  <2>1. buffers[1].id = 1 /\ Len(buffers) = 1 /\ bufferCount = 1
    BY <1>3, <1>4, <1>5
  <2> QED
    BY <2>1 DEF RingsCounted
<1> QED
  BY <1>6, <1>7, <1>8, <1>9, <1>10 DEF IInv, Formed

LEMMA KeptFinal ==
    ASSUME OutcomeKept
    PROVE  Final' = Final
PROOF
<1>1. Final' = [p \in Places |-> OutcomeAt(stream', Pending', buffers', p)]
  BY FinalIsOutcome
<1> QED
  BY <1>1, FinalIsOutcome DEF OutcomeKept

\* What the file is is the same.
FileKept ==
    /\ UNCHANGED <<position, wasException>>
    /\ ~wasException => Final' = Final

\* The write of m bytes b of the file.
FileWritten(b, m) ==
    /\ ~wasException /\ ~wasException'
    /\ position' = position + m
    /\ Final' = [p \in Places |-> IF p \in position .. position + m - 1
                                  THEN b ELSE Final[p]]

LEMMA WriteInv ==
    ASSUME IInv, NEW b \in Bytes, NEW n \in 1 .. MaxWrite, Write(b, n)
    PROVE  /\ IInv' /\ wasException' = wasException
           /\ \E m \in 1 .. n : /\ position' = position + m
                                /\ ~wasException => FileWritten(b, m)
PROOF
<1> DEFINE size == Smaller(WriterSize(Last(buffers)), Larger(config.prealloc, n))
           new == WriteOp(position, Last(buffers).id, Last(buffers).write, size, 0)
<1>1. TypeOK /\ WorkerAgrees /\ RingsCounted /\ Formed /\ QueueOrdered
  BY DEF IInv
<1>2. /\ user \in {"idle", "called"} /\ user' = "idle" /\ n \in Nat \ {0}
      /\ FreeSize(Last(buffers)) > 0
      /\ UNCHANGED <<config, bufferCount, syncNext, syncDone, wasException, worker, opData,
                     stream, synced>>
      /\ spent' = spent \cup ({b} \cap Once)
  BY DEF Write, Usable, configVars, syncVars, streamVars
<1>3. Shape(Pending, buffers)
  BY <1>1 DEF Formed
<1>4. /\ \E m \in 1 .. n : /\ position' = position + m
                           /\ WriteMade(b, m, Pending, buffers, Pending', buffers')
      /\ WriteQueued
  <2>1. CASE MergeTarget # 0
    <3>1. PushWriteData(queue, buffers, MergeTarget, b,
                        Smaller(n, FreeSpace(queue[MergeTarget])))
      BY <2>1 DEF Write
    <3> QED
      BY <1>1, <1>2, <1>3, <2>1, <3>1, WriteMerged
  <2>2. CASE MergeTarget = 0
    <3>1. PushWriteData(Append(queue, new),
                        [buffers EXCEPT ![Len(buffers)] = Push(Last(buffers), size)],
                        Len(queue) + 1, b, Smaller(n, size))
      BY <2>2 DEF Write
    <3> QED
      BY <1>1, <1>2, <1>3, <3>1, WriteInNew
  <2> QED
    BY <2>1, <2>2
<1> HIDE DEF size, new
<1>5. PICK m \in 1 .. n : /\ position' = position + m
                          /\ WriteMade(b, m, Pending, buffers, Pending', buffers')
  BY <1>4
<1>6. /\ buffers' \in Seq(RingType) /\ buffers' # <<>>
      /\ Len(buffers') = Len(buffers) /\ buffers'[1].id = buffers[1].id
      /\ Shape(Pending', buffers')
  BY <1>5 DEF WriteMade
<1>7. TypeOK'
  <2>1. position' \in Nat
    BY <1>1, <1>2, <1>5 DEF TypeOK
  <2>2. queue' \in Seq(OpType)
    BY <1>4 DEF WriteQueued
  <2>3. spent' \subseteq Bytes
    BY <1>1, <1>2 DEF TypeOK
  <2> QED
    BY <1>1, <1>2, <1>6, <2>1, <2>2, <2>3 DEF TypeOK
<1>8. QueueOrdered'
  BY <1>1, <1>2, <1>4, WriteOrdered
<1>9. WorkerAgrees' /\ RingsCounted' /\ Formed'
  BY <1>1, <1>2, <1>6 DEF WorkerAgrees, RingsCounted, Formed
<1>10. ~wasException => FileWritten(b, m)
  <2>1. Final' = [p \in Places |-> OutcomeAt(stream, Pending', buffers', p)]
    BY <1>2, FinalIsOutcome
  <2>2. \A p \in Places : OutcomeAt(stream, Pending', buffers', p) =
           IF p \in position .. position + m - 1 THEN b ELSE Final[p]
    BY <1>5, FinalIsOutcome DEF WriteMade, WrittenAt
  <2> QED
    BY <1>2, <1>5, <2>1, <2>2 DEF FileWritten
<1> QED
  BY <1>2, <1>5, <1>7, <1>8, <1>9, <1>10 DEF IInv

LEMMA WriteNothingInv ==
    ASSUME IInv, WriteNothing
    PROVE  IInv' /\ FileKept
PROOF
<1>1. TypeOK /\ WorkerAgrees /\ RingsCounted /\ Formed /\ QueueOrdered
  BY DEF IInv
<1>2. /\ UNCHANGED <<position, queue, buffers, config, bufferCount, syncNext, syncDone,
                     wasException, worker, opData, stream, synced, spent>>
      /\ user \in {"idle", "called"} /\ user' = "idle"
  BY DEF WriteNothing, Usable, configVars, syncVars, streamVars
<1>3. TypeOK'
  BY <1>1, <1>2 DEF TypeOK
<1>4. Pending' = Pending
  BY <1>2 DEF Pending
<1>5. WorkerAgrees' /\ RingsCounted' /\ Formed'
  BY <1>1, <1>2, <1>4 DEF WorkerAgrees, RingsCounted, Formed
<1>6. QueueOrdered'
  BY <1>1, <1>2 DEF QueueOrdered, StopIsLast, Ending, SyncsOrdered, SyncIsLast
<1>7. OutcomeKept
  BY <1>1, <1>2, <1>4, NothingPendingChanges DEF Formed
<1> QED
  BY <1>2, <1>3, <1>5, <1>6, <1>7, KeptFinal DEF IInv, FileKept

LEMMA SyncInv ==
    ASSUME IInv, Sync
    PROVE  IInv' /\ FileKept
PROOF
<1> DEFINE x == OtherOp("Sync", syncNext)
<1>1. TypeOK /\ WorkerAgrees /\ RingsCounted /\ Formed /\ QueueOrdered
  BY DEF IInv
<1>2. /\ user \in {"idle", "called"}
      /\ queue' = Append(queue, x) /\ syncNext' = syncNext + 1
      /\ user' \in {"idle", "syncing"}
      /\ UNCHANGED <<position, buffers, config, bufferCount, syncDone, wasException, worker,
                     opData, stream, synced, spent>>
  BY DEF Sync, Usable, configVars, streamVars
<1>3. x \in OpType /\ x.op = "Sync" /\ x.arg = syncNext /\ x.size = 0 /\ x.used = 0
  BY <1>1, OtherOps DEF TypeOK
<1> HIDE DEF x
<1>4. OutcomeKept
  BY <1>1, <1>2, <1>3, AppendKeeps DEF Formed
<1>5. QueueOrdered'
  BY <1>1, <1>2, <1>3, AppendOrdered
<1>6. TypeOK'
  <2>1. queue' \in Seq(OpType)
    BY <1>1, <1>2, <1>3, Appended DEF TypeOK
  <2>2. syncNext' \in Nat \ {0}
    BY <1>1, <1>2 DEF TypeOK
  <2> QED
    BY <1>1, <1>2, <2>1, <2>2 DEF TypeOK
<1>7. WorkerAgrees' /\ RingsCounted' /\ Formed'
  BY <1>1, <1>2, <1>4 DEF WorkerAgrees, RingsCounted, Formed, OutcomeKept
<1> QED
  BY <1>2, <1>4, <1>5, <1>6, <1>7, KeptFinal DEF IInv, FileKept

LEMMA DestroyInv ==
    ASSUME IInv, Destroy
    PROVE  IInv' /\ FileKept
PROOF
<1> DEFINE x == OtherOp("Stop", 0)
<1>1. TypeOK /\ WorkerAgrees /\ RingsCounted /\ Formed /\ QueueOrdered
  BY DEF IInv
<1>2. /\ user = "idle" /\ user' = "closing"
      /\ queue' = Append(queue, x)
      /\ UNCHANGED <<position, buffers, config, bufferCount, syncNext, syncDone, wasException,
                     worker, opData, stream, synced, spent>>
  BY DEF Destroy, configVars, syncVars, streamVars
<1>3. x \in OpType /\ x.op = "Stop" /\ x.size = 0 /\ x.used = 0
  BY OtherOps
<1> HIDE DEF x
<1>4. OutcomeKept
  BY <1>1, <1>2, <1>3, AppendKeeps DEF Formed
<1>5. QueueOrdered'
  BY <1>1, <1>2, <1>3, AppendOrdered
<1>6. TypeOK'
  <2>1. queue' \in Seq(OpType)
    BY <1>1, <1>2, <1>3, Appended DEF TypeOK
  <2> QED
    BY <1>1, <1>2, <2>1 DEF TypeOK
<1>7. WorkerAgrees' /\ RingsCounted' /\ Formed'
  BY <1>1, <1>2, <1>4 DEF WorkerAgrees, RingsCounted, Formed, OutcomeKept
<1> QED
  BY <1>2, <1>4, <1>5, <1>6, <1>7, KeptFinal DEF IInv, FileKept

LEMMA ReconfigureInv ==
    ASSUME IInv, NEW new \in Configs, Reconfigure(new)
    PROVE  IInv' /\ FileKept
PROOF
<1> DEFINE x == OtherOp("PopBuffer", 0)
           ring == Ring(bufferCount + 1, new.size)
<1>1. TypeOK /\ WorkerAgrees /\ RingsCounted /\ Formed /\ QueueOrdered
  BY DEF IInv
<1>2. /\ user \in {"idle", "called"} /\ user' = "idle"
      /\ queue' = Append(queue, x)
      /\ buffers' = Append(buffers, ring)
      /\ bufferCount' = bufferCount + 1 /\ config' = new
      /\ UNCHANGED <<position, syncNext, syncDone, wasException, worker, opData, stream,
                     synced, spent>>
  BY DEF Reconfigure, Usable, syncVars, streamVars
<1>3. x \in OpType /\ x.op = "PopBuffer" /\ x.size = 0 /\ x.used = 0
  BY OtherOps
<1>4. new.size \in Nat \ {0} /\ bufferCount \in Nat /\ buffers \in Seq(RingType) /\ buffers # <<>>
  BY <1>1, ConfigsAssumption DEF TypeOK
<1>5. ring \in RingType
  BY <1>4, NewRing
<1>6. bufferCount + 1 = buffers[1].id + Len(buffers)
  <2>1. buffers[1].id \in Nat /\ Len(buffers) \in Nat
    BY <1>4, RingsByNumber
  <2> QED
    BY <1>1, <2>1 DEF RingsCounted
<1>7. ring = Ring(buffers[1].id + Len(buffers), new.size)
  BY <1>6
<1> HIDE DEF x, ring
<1>8. /\ buffers' \in Seq(RingType) /\ Len(buffers') = Len(buffers) + 1
      /\ buffers' # <<>> /\ buffers'[1] = buffers[1]
  <2>1. /\ buffers' \in Seq(RingType) /\ Len(buffers') = Len(buffers) + 1
        /\ \A j \in 1 .. Len(buffers) : buffers'[j] = buffers[j]
    BY <1>2, <1>4, <1>5, Appended
  <2>2. 1 \in 1 .. Len(buffers) /\ Len(buffers) \in Nat
    BY <1>4
  <2> QED
    BY <2>1, <2>2
<1>9. OutcomeKept
  BY <1>1, <1>2, <1>3, <1>4, <1>7, <1>8, ReconfigureKeeps DEF Formed
<1>10. QueueOrdered'
  BY <1>1, <1>2, <1>3, AppendOrdered
<1>11. TypeOK'
  <2>1. queue' \in Seq(OpType)
    BY <1>1, <1>2, <1>3, Appended DEF TypeOK
  <2> QED
    BY <1>1, <1>2, <1>4, <1>8, <2>1 DEF TypeOK
<1>12. RingsCounted'
  <2>1. buffers[1].id \in Nat /\ Len(buffers) \in Nat
    BY <1>4, RingsByNumber
  <2>2. buffers[1].id + Len(buffers) - 1 = bufferCount
    BY <1>1 DEF RingsCounted
  <2>3. /\ buffers'[1].id = buffers[1].id /\ Len(buffers') = Len(buffers) + 1
        /\ bufferCount' = bufferCount + 1
    BY <1>2, <1>8
  <2> QED
    BY <1>4, <2>1, <2>2, <2>3 DEF RingsCounted
<1>13. WorkerAgrees' /\ Formed'
  BY <1>1, <1>2, <1>9 DEF WorkerAgrees, Formed, OutcomeKept
<1> QED
  BY <1>2, <1>9, <1>10, <1>11, <1>12, <1>13, KeptFinal DEF IInv, FileKept
\* The steps of the user that come back.
LEMMA ReturnInv ==
    ASSUME IInv, UserReturns
    PROVE  IInv' /\ FileKept
PROOF
<1>1. TypeOK /\ WorkerAgrees /\ RingsCounted /\ Formed /\ QueueOrdered
  BY DEF IInv
<1>2. /\ UNCHANGED <<position, queue, buffers, config, bufferCount, syncNext, syncDone,
                     wasException, worker, opData, stream, synced, spent>>
      /\ \/ user = "syncing" /\ user' = "idle"
         \/ user = "closing" /\ user' = "closed"
  BY DEF UserReturns, SyncReturns, SyncThrows, Joined, configVars, syncVars, streamVars
<1>3. TypeOK'
  BY <1>1, <1>2 DEF TypeOK
<1>4. Pending' = Pending
  BY <1>2 DEF Pending
<1>5. WorkerAgrees' /\ RingsCounted' /\ Formed'
  BY <1>1, <1>2, <1>4 DEF WorkerAgrees, RingsCounted, Formed
<1>6. QueueOrdered'
  <2>1. StopIsLast' /\ SyncsOrdered'
    BY <1>1, <1>2 DEF QueueOrdered, StopIsLast, Ending, SyncsOrdered
  <2>2. SyncIsLast'
    BY <1>2 DEF SyncIsLast
  <2> QED
    BY <2>1, <2>2 DEF QueueOrdered
<1>7. OutcomeKept
  BY <1>1, <1>2, <1>4, NothingPendingChanges DEF Formed
<1> QED
  BY <1>2, <1>3, <1>5, <1>6, <1>7, KeptFinal DEF IInv, FileKept

LEMMA SeekInv ==
    ASSUME IInv, NEW p \in 0 .. MaxPosition, Seek(p)
    PROVE  IInv' /\ wasException' = wasException /\ position' = p
           /\ (~wasException => Final' = Final)
PROOF
<1>1. TypeOK /\ WorkerAgrees /\ RingsCounted /\ Formed /\ QueueOrdered
  BY DEF IInv
<1>2. /\ UNCHANGED <<queue, buffers, config, bufferCount, syncNext, syncDone,
                     wasException, worker, opData, stream, synced, spent>>
      /\ user \in {"idle", "called"} /\ user' = "idle"
      /\ position' = p /\ p \in Nat
  BY DEF Seek, Usable, configVars, syncVars, streamVars
<1>3. TypeOK'
  BY <1>1, <1>2 DEF TypeOK
<1>4. Pending' = Pending
  BY <1>2 DEF Pending
<1>5. WorkerAgrees' /\ RingsCounted' /\ Formed'
  BY <1>1, <1>2, <1>4 DEF WorkerAgrees, RingsCounted, Formed
<1>6. QueueOrdered'
  BY <1>1, <1>2 DEF QueueOrdered, StopIsLast, Ending, SyncsOrdered, SyncIsLast
<1>7. OutcomeKept
  BY <1>1, <1>2, <1>4, NothingPendingChanges DEF Formed
<1> QED
  BY <1>2, <1>3, <1>5, <1>6, <1>7, KeptFinal DEF IInv

LEMMA TakeInv ==
    ASSUME IInv, TakeWrite \/ TakeSync \/ TakeStop \/ TakePopBuffer
    PROVE  IInv' /\ FileKept
PROOF
<1>1. TypeOK /\ WorkerAgrees /\ RingsCounted /\ Formed /\ QueueOrdered
  BY DEF IInv
<1>2. /\ worker = "ready" /\ queue # <<>> /\ queue' = Tail(queue)
      /\ worker' \in {"ready", "writing", "synchronizing", "stopped"}
      /\ worker' = "stopped" <=> Head(queue).op = "Stop"
      /\ worker' = "synchronizing" <=> Head(queue).op = "Sync"
      /\ worker' = "writing" <=> Head(queue).op = "Write"
      /\ worker' \in {"writing", "synchronizing"} => opData' = Head(queue)
      /\ UNCHANGED <<position, config, bufferCount, syncNext, syncDone, wasException, user,
                     stream, synced, spent>>
  BY DEF TakeWrite, TakeSync, TakeStop, TakePopBuffer, Take, configVars, syncVars, streamVars
<1>3. ~wasException
  BY <1>1, <1>2 DEF WorkerAgrees
<1>4. Shape(Pending, buffers)
  BY <1>1, <1>3 DEF Formed
<1>5. /\ OutcomeKept
      /\ buffers' \in Seq(RingType) /\ buffers' # <<>>
      /\ buffers'[1].id + Len(buffers') - 1 = buffers[1].id + Len(buffers) - 1
  <2>1. CASE TakeWrite
    <3>1. buffers' = buffers
      BY <2>1 DEF TakeWrite
    <3> QED
      BY <1>1, <1>4, <2>1, <3>1, TakeWriteKeeps DEF TypeOK
  <2>2. CASE TakeSync \/ TakeStop
    <3>1. buffers' = buffers /\ Head(queue).op \in {"Sync", "Stop"}
          /\ worker' \notin {"writing", "failed"}
      BY <2>2 DEF TakeSync, TakeStop, Take
    <3> QED
      BY <1>1, <1>2, <1>4, <3>1, TakeKeeps DEF TypeOK
  <2>3. CASE TakePopBuffer
    <3>1. buffers[1].id \in Nat /\ Len(buffers) \in Nat
      BY <1>1, RingsByNumber DEF TypeOK
    <3>2. /\ OutcomeKept
          /\ buffers' \in Seq(RingType) /\ buffers' # <<>>
          /\ Len(buffers') = Len(buffers) - 1 /\ buffers'[1].id = buffers[1].id + 1
      BY <1>1, <1>4, <2>3, TakePopBufferKeeps
    <3> QED
      BY <3>1, <3>2
  <2> QED
    BY <2>1, <2>2, <2>3
<1>6. queue' \in Seq(OpType) /\ Head(queue) \in OpType /\ opData' \in OpType
  <2>1. queue \in Seq(OpType) /\ opData \in OpType
    BY <1>1 DEF TypeOK
  <2>2. queue' \in Seq(OpType) /\ Head(queue) \in OpType
    BY <1>2, <2>1
  <2>3. opData' = Head(queue) \/ opData' = opData
    BY DEF TakeWrite, TakeSync, TakeStop, TakePopBuffer
  <2> QED
    BY <2>1, <2>2, <2>3
<1>7. TypeOK'
  <2>1. worker' \in {"ready", "writing", "synchronizing", "stopped", "failed"}
    BY <1>2
  <2> QED
    BY <1>1, <1>2, <1>5, <1>6, <2>1 DEF TypeOK
<1>8. QueueOrdered'
  BY <1>1, <1>2, <1>3, TakeOrdered
<1>9. WorkerAgrees'
  BY <1>2, <1>3 DEF WorkerAgrees
<1>10. RingsCounted'
  <2>1. buffers[1].id + Len(buffers) - 1 = bufferCount
    BY <1>1 DEF RingsCounted
  <2>2. /\ buffers'[1].id + Len(buffers') - 1 = buffers[1].id + Len(buffers) - 1
        /\ bufferCount' = bufferCount
    BY <1>2, <1>5
  <2> QED
    BY <2>1, <2>2 DEF RingsCounted
<1>11. Formed'
  BY <1>5 DEF Formed, OutcomeKept
<1> QED
  BY <1>2, <1>5, <1>7, <1>8, <1>9, <1>10, <1>11, KeptFinal DEF IInv, FileKept

LEMMA WritesInv ==
    ASSUME IInv, NEW n \in 0 .. MaxPosition, StreamWrites(n)
    PROVE  IInv' /\ FileKept
PROOF
<1>1. TypeOK /\ WorkerAgrees /\ RingsCounted /\ Formed /\ QueueOrdered
  BY DEF IInv
<1>2. /\ worker = "writing" /\ worker' = "ready" /\ opData' = NoOp /\ n \in Nat
      /\ n <= opData.used
      /\ synced' = (synced /\ n = 0)
      /\ queue' = IF n = opData.used THEN queue ELSE <<PopWriteData(opData, n)>> \o queue
      /\ UNCHANGED <<position, config, bufferCount, syncNext, syncDone, wasException, user, spent>>
  BY DEF StreamWrites, configVars, syncVars
<1>3. ~wasException /\ opData.op = "Write"
  BY <1>1, <1>2 DEF WorkerAgrees
<1>4. Shape(Pending, buffers)
  BY <1>1, <1>3 DEF Formed
<1>5. /\ OutcomeKept
      /\ queue' \in Seq(OpType)
      /\ stream' \in [Places -> Contents]
      /\ buffers' \in Seq(RingType) /\ buffers' # <<>>
      /\ Len(buffers') = Len(buffers) /\ buffers'[1].id = buffers[1].id
  BY <1>1, <1>2, <1>3, <1>4, StreamWritesKeeps
<1>6. TypeOK'
  <2>1. opData' \in OpType
    BY <1>2, OtherOps DEF NoOp
  <2>2. synced' \in BOOLEAN
    BY <1>1, <1>2 DEF TypeOK
  <2> QED
    BY <1>1, <1>2, <1>5, <2>1, <2>2 DEF TypeOK
<1>7. QueueOrdered'
  <2> DEFINE x == PopWriteData(opData, n)
  <2>1. opData.used <= opData.size
    <3>1. /\ Pending \in Seq(OpType) /\ Pending # <<>> /\ Pending[1] = opData
      BY <1>1, <1>2, <1>3, PendingType DEF Held
    <3> QED
      BY <1>1, <1>3, <1>4, <3>1, FirstWrite DEF TypeOK
  <2>2. opData \in OpType
    BY <1>1 DEF TypeOK
  <2>3. x \in OpType
    BY <1>2, <2>1, <2>2, PartOfWrite
  <2>4. x.op = "Write"
    BY <1>3, <2>2 DEF PopWriteData, OpType
  <2>5. queue' = queue \/ queue' = <<x>> \o queue
    BY <1>2
  <2> HIDE DEF x
  <2> QED
    BY <1>1, <1>2, <1>3, <2>3, <2>4, <2>5, RestOrdered
<1>8. WorkerAgrees' /\ RingsCounted' /\ Formed'
  BY <1>1, <1>2, <1>3, <1>5 DEF WorkerAgrees, RingsCounted, Formed, OutcomeKept
<1> QED
  BY <1>2, <1>5, <1>6, <1>7, <1>8, KeptFinal DEF IInv, FileKept

LEMMA SyncsInv ==
    ASSUME IInv, StreamSyncs
    PROVE  IInv' /\ FileKept
PROOF
<1>1. TypeOK /\ WorkerAgrees /\ RingsCounted /\ Formed /\ QueueOrdered
  BY DEF IInv
<1>2. /\ worker = "synchronizing" /\ worker' = "ready" /\ opData' = NoOp
      /\ synced' = TRUE /\ syncDone' = opData.arg
      /\ UNCHANGED <<position, queue, buffers, config, bufferCount, syncNext, wasException,
                     user, stream, spent>>
  BY DEF StreamSyncs, configVars
<1>3. ~wasException
  BY <1>1, <1>2 DEF WorkerAgrees
<1>4. Shape(Pending, buffers)
  BY <1>1, <1>3 DEF Formed
<1>5. Pending' = Pending
  <2>1. ~Held(worker, opData) /\ ~Held(worker', opData')
    BY <1>2 DEF Held
  <2>2. queue \in Seq(OpType) /\ queue' = queue
    BY <1>1, <1>2 DEF TypeOK
  <2> QED
    BY <2>1, <2>2, FrontIdle, PendingIsFront
<1>6. OutcomeKept
  BY <1>2, <1>4, <1>5, NothingPendingChanges
<1>7. TypeOK'
  <2>1. opData' \in OpType
    BY <1>2, OtherOps DEF NoOp
  <2>2. syncDone' \in Nat
    BY <1>1, <1>2, OpFields DEF TypeOK
  <2> QED
    BY <1>1, <1>2, <2>1, <2>2 DEF TypeOK
<1>8. QueueOrdered'
  BY <1>1, <1>3, SyncOrdered
<1>9. WorkerAgrees' /\ RingsCounted' /\ Formed'
  BY <1>1, <1>2, <1>3, <1>6 DEF WorkerAgrees, RingsCounted, Formed, OutcomeKept
<1> QED
  BY <1>2, <1>6, <1>7, <1>8, <1>9, KeptFinal DEF IInv, FileKept

\* The block that the worker is to write is what the ring gives it to read.
LEMMA PointersAgree == IInv => BlocksFollowTheRing
PROOF
<1> SUFFICES ASSUME IInv, worker = "ready", queue # <<>>, Head(queue).op = "Write"
             PROVE  PointersInSync(Head(queue))
  BY DEF BlocksFollowTheRing
<1>1. TypeOK /\ Formed
  BY DEF IInv
<1>2. queue \in Seq(OpType) /\ buffers \in Seq(RingType) /\ buffers # <<>>
  BY <1>1 DEF TypeOK
<1>3. Shape(queue, buffers)
  BY <1>1, PendingType DEF Formed, Held
<1>4. Head(queue) = queue[1] /\ Head(buffers) = buffers[1]
  BY <1>2
<1> QED
  BY <1>2, <1>3, <1>4, FirstWrite DEF PointersInSync

\* So it is the stream that has thrown.
LEMMA FailInv ==
    ASSUME IInv, WorkerFails
    PROVE  IInv' /\ ~wasException /\ wasException' /\ position' = position
PROOF
<1>1. TypeOK /\ WorkerAgrees /\ RingsCounted /\ Formed /\ QueueOrdered
  BY DEF IInv
<1>2. /\ worker \in {"writing", "synchronizing"}
      /\ worker' = "failed" /\ wasException' = TRUE
      /\ user' = user \/ (user = "idle" /\ user' = "called")
      /\ UNCHANGED <<position, queue, buffers, config, bufferCount, syncNext, syncDone, opData,
                     stream, synced, spent>>
  BY PointersAgree DEF WorkerFails, BlocksFollowTheRing, configVars, syncVars, streamVars
<1>3. ~wasException
  BY <1>1, <1>2 DEF WorkerAgrees
<1>4. TypeOK'
  BY <1>1, <1>2 DEF TypeOK
<1>5. Pending' = Pending
  <2>1. Held(worker', opData') <=> Held(worker, opData)
    BY <1>1, <1>2 DEF Held, WorkerAgrees, QueueOrdered, SyncsOrdered
  <2> QED
    BY <1>2, <2>1, PendingIsFront DEF FrontOf
<1>6. WorkerAgrees' /\ RingsCounted' /\ Formed'
  BY <1>1, <1>2, <1>5 DEF WorkerAgrees, RingsCounted, Formed
<1>7. QueueOrdered'
  BY <1>1, <1>2 DEF QueueOrdered, StopIsLast, Ending, SyncsOrdered
<1> QED
  BY <1>2, <1>3, <1>4, <1>6, <1>7 DEF IInv

\* What a step does to the file.
FileSteps ==
    \/ FileKept
    \/ \E b \in Bytes, n \in 1 .. MaxWrite :
          Write(b, n) /\ \E m \in 1 .. n : FileWritten(b, m)
    \/ \E p \in 0 .. MaxPosition : /\ wasException' = wasException /\ position' = p
                                   /\ ~wasException => Final' = Final
    \/ ~wasException /\ wasException' /\ position' = position

LEMMA NextInv == IInv /\ [Next]_vars => IInv' /\ FileSteps
PROOF
<1> SUFFICES ASSUME IInv, [Next]_vars
             PROVE  IInv' /\ FileSteps
  OBVIOUS
<1>1. ASSUME NEW b \in Bytes, NEW n \in 1 .. MaxWrite, Write(b, n)
      PROVE  IInv' /\ FileSteps
  <2>1. PICK m \in 1 .. n : /\ position' = position + m
                            /\ ~wasException => FileWritten(b, m)
    BY <1>1, WriteInv
  <2>2. IInv' /\ wasException' = wasException
    BY <1>1, WriteInv
  <2>3. CASE ~wasException
    BY <1>1, <2>1, <2>2, <2>3 DEF FileSteps
  <2>4. CASE wasException
    <3>1. position \in Nat /\ position + n <= MaxPosition
      BY <1>1 DEF IInv, TypeOK, Write
    <3>2. position' \in 0 .. MaxPosition
      BY <2>1, <3>1, PositionAssumption
    <3> QED
      BY <2>2, <2>4, <3>2 DEF FileSteps
  <2> QED
    BY <2>3, <2>4
<1>2. ASSUME NEW p \in 0 .. MaxPosition, Seek(p)
      PROVE  IInv' /\ FileSteps
  BY <1>2, SeekInv DEF FileSteps
<1>3. ASSUME NEW new \in Configs, Reconfigure(new)
      PROVE  IInv' /\ FileSteps
  BY <1>3, ReconfigureInv DEF FileSteps
<1>4. CASE WriteNothing \/ Sync \/ Destroy
  BY <1>4, WriteNothingInv, SyncInv, DestroyInv DEF FileSteps
<1>5. CASE UserReturns
  BY <1>5, ReturnInv DEF FileSteps
<1>6. CASE TakeWrite \/ TakeSync \/ TakeStop \/ TakePopBuffer
  BY <1>6, TakeInv DEF FileSteps
<1>7. ASSUME NEW n \in 0 .. MaxPosition, StreamWrites(n)
      PROVE  IInv' /\ FileSteps
  BY <1>7, WritesInv DEF FileSteps
<1>8. CASE StreamSyncs
  BY <1>8, SyncsInv DEF FileSteps
<1>9. CASE WorkerFails
  BY <1>9, FailInv DEF FileSteps
<1>10. CASE UNCHANGED vars
  <2>1. UNCHANGED <<position, queue, buffers, config, bufferCount, syncNext, syncDone,
                    wasException, worker, opData, user, stream, synced, spent>>
    BY <1>10 DEF vars, configVars, syncVars, streamVars
  <2>2. TypeOK /\ WorkerAgrees /\ RingsCounted /\ Formed /\ QueueOrdered
    BY DEF IInv
  <2>3. Pending' = Pending
    BY <2>1 DEF Pending
  <2>4. TypeOK'
    BY <2>1, <2>2 DEF TypeOK
  <2>5. WorkerAgrees' /\ RingsCounted' /\ Formed'
    BY <2>1, <2>2, <2>3 DEF WorkerAgrees, RingsCounted, Formed
  <2>6. QueueOrdered'
    BY <2>1, <2>2 DEF QueueOrdered, StopIsLast, Ending, SyncsOrdered, SyncIsLast
  <2>7. OutcomeKept
    BY <2>1, <2>2, <2>3, NothingPendingChanges DEF Formed
  <2> QED
    BY <2>1, <2>4, <2>5, <2>6, <2>7, KeptFinal DEF IInv, FileSteps, FileKept
<1> QED
  BY <1>1, <1>2, <1>3, <1>4, <1>5, <1>6, <1>7, <1>8, <1>9, <1>10
  DEF Next, UserCalls, WorkerSteps, Writes

LEMMA Invariance == Spec => []IInv
PROOF
<1>1. IInv /\ [Next]_vars => IInv'
  BY NextInv
<1> QED
  BY <1>1, InitInv, PTL DEF Spec
-----------------------------------------------------------------------------
(* The theorems *)

\* The worker never finds that the block it is to write is not what the ring
\* gives it to read, so that ThreadFunc does not throw "buffer pointers out of
\* sync": the blocks that are queued lie one behind the other in the rings,
\* from the place that is read to the one that is written.
THEOREM BlocksFollowTheRingAlways == Spec => []BlocksFollowTheRing
  BY PointersAgree, Invariance, PTL

LEMMA NothingLeft ==
    ASSUME IInv, worker \notin {"writing", "failed"}, queue = <<>>
    PROVE  Final = stream
PROOF
<1>1. TypeOK
  BY DEF IInv
<1>2. Pending = <<>> /\ Pending \in Seq(OpType)
  BY <1>1, PendingType DEF Held
<1>3. ASSUME NEW p \in Places
      PROVE  OutcomeAt(stream, Pending, buffers, p) = stream[p]
  <2>1. \A j \in 1 .. Len(Pending) : ~Covers(Pending[j], p)
    BY <1>2
  <2> QED
    BY <1>2, <2>1, OutcomeOfNone
<1>4. Final = [p \in Places |-> stream[p]]
  BY <1>3, FinalIsOutcome
<1> QED
  BY <1>1, <1>4 DEF TypeOK

\* When a Sync that waits returns, all that was written is in the stream and
\* synchronized; when the destructor returns, without the worker having failed,
\* it is in the stream. The last operation that is queued is then the Sync, or
\* the Stop, that the caller waits for.
THEOREM ReturnsAreLate == Spec => ReturnsMeanWritten
PROOF
<1> DEFINE Late == /\ SyncReturns => synced /\ stream = Final
                   /\ Joined /\ ~wasException => stream = Final
<1>1. IInv => Late
  <2> SUFFICES ASSUME IInv
               PROVE  Late
    OBVIOUS
  <2>1. TypeOK /\ WorkerAgrees /\ QueueOrdered
    BY DEF IInv
  <2>2. ASSUME SyncReturns
        PROVE  synced /\ stream = Final
    <3>1. user = "syncing" /\ ~wasException /\ syncDone - (syncNext - 1) >= 0
      BY <2>2 DEF SyncReturns
    <3>2. syncDone \in Nat /\ syncNext \in Nat
      BY <2>1 DEF TypeOK
    <3>3. ~(syncDone < syncNext - 1)
      BY <3>1, <3>2
    <3>4. worker = "ready" /\ queue = <<>> /\ synced
      BY <2>1, <3>1, <3>3 DEF QueueOrdered, SyncIsLast
    <3> QED
      BY <3>4, NothingLeft
  <2>3. ASSUME Joined, ~wasException
        PROVE  stream = Final
    <3>1. worker = "stopped"
      BY <2>1, <2>3 DEF Joined, WorkerAgrees
    <3>2. queue = <<>>
      BY <2>1, <3>1 DEF QueueOrdered, StopIsLast
    <3> QED
      BY <3>1, <3>2, NothingLeft
  <2> QED
    BY <2>2, <2>3
<1> QED
  BY <1>1, Invariance, PTL DEF ReturnsMeanWritten

-----------------------------------------------------------------------------
(* The refinement *)

LEMMA FinalType ==
    ASSUME IInv, ~wasException
    PROVE  Final \in [Places -> Contents]
PROOF
<1> DEFINE ops == Pending
<1>1. TypeOK /\ ops \in Seq(OpType) /\ Shape(ops, buffers)
  BY PendingType DEF IInv, Formed
<1>2. buffers \in Seq(RingType) /\ buffers # <<>> /\ stream \in [Places -> Contents]
  BY <1>1 DEF TypeOK
<1>3. Final = [p \in Places |-> OutcomeAt(stream, ops, buffers, p)]
  BY FinalIsOutcome
<1> HIDE DEF ops
<1>4. ASSUME NEW p \in Places
      PROVE  OutcomeAt(stream, ops, buffers, p) \in Contents
  <2>1. CASE \A j \in 1 .. Len(ops) : ~Covers(ops[j], p)
    <3>1. OutcomeAt(stream, ops, buffers, p) = stream[p]
      BY <1>1, <2>1, OutcomeOfNone
    <3> QED
      BY <1>2, <3>1
  <2>2. ASSUME NEW i \in 1 .. Len(ops), Covers(ops[i], p),
               \A j \in 1 .. Len(ops) : Covers(ops[j], p) => j <= i
        PROVE  OutcomeAt(stream, ops, buffers, p) \in Contents
    <3> DEFINE ring == RingOf(buffers, ops[i].ring)
               c == ops[i].offset + p - ops[i].arg
    <3>1. /\ RingFormed(ring) /\ c \in 0 .. ring.size - 1
          /\ DatumOf(buffers, ops[i], p) = ring.cells[c]
      BY <1>1, <1>2, <2>2, CoveringWrite
    <3> HIDE DEF ring, c
    <3>2. OutcomeAt(stream, ops, buffers, p) = DatumOf(buffers, ops[i], p)
      BY <1>1, <2>2, OutcomeOfLast
    <3> QED
      BY <3>1, <3>2 DEF RingFormed
  <2> QED
    BY <1>1, <2>1, <2>2, OutcomeCases
<1> QED
  BY <1>3, <1>4

LEMMA WriteRefines ==
    ASSUME IInv, NEW b \in Bytes, NEW m \in Nat, FileWritten(b, m)
    PROVE  File!Write(b, m)
PROOF
<1>1. Final \in [Places -> Contents]
  BY FinalType DEF FileWritten
<1>2. Final # Lost
  BY <1>1, ContentAssumption DEF Contents
<1> QED
  BY <1>2 DEF FileWritten, File!Write, File!Places, Places

LEMMA NextRefines == IInv /\ [Next]_vars => [File!Next]_(File!vars)
PROOF
<1> SUFFICES ASSUME IInv, [Next]_vars
             PROVE  [File!Next]_(File!vars)
  OBVIOUS
<1>1. FileSteps
  BY NextInv
<1>2. CASE FileKept
  BY <1>2 DEF FileKept, File!vars
<1>3. ASSUME NEW b \in Bytes, NEW n \in 1 .. MaxWrite, Write(b, n),
             NEW m \in 1 .. n, FileWritten(b, m)
      PROVE  File!Next
  <2>1. position \in Nat /\ position + n <= MaxPosition
    BY <1>3 DEF IInv, TypeOK, Write
  <2>2. m \in 1 .. MaxPosition
    BY <2>1, PositionAssumption
  <2>3. File!Write(b, m)
    BY <1>3, WriteRefines
  <2> QED
    BY <2>2, <2>3 DEF File!Next
<1>4. ASSUME NEW p \in 0 .. MaxPosition, wasException' = wasException, position' = p,
             ~wasException => Final' = Final
      PROVE  File!Next
  BY <1>4 DEF File!Next, File!Seek
<1>5. CASE ~wasException /\ wasException' /\ position' = position
  BY <1>5 DEF File!Next, File!Fail
<1> QED
  BY <1>1, <1>2, <1>3, <1>4, <1>5 DEF FileSteps

\* However writes are merged into blocks that wait, taken in part and put back,
\* in whatever rings, the stream is to contain what the same writes made at
\* once would have written, until it fails; and each call of Write before that is
\* such a write, of as many bytes as it takes.
THEOREM FileImplemented == Spec => ImplementsFile
PROOF
<1> DEFINE EachWrites == \A b \in Bytes, n \in 1 .. MaxWrite :
                            Write(b, n) /\ ~wasException => \E m \in 1 .. n : File!Write(b, m)
<1>1. Init => File!Init
  <2> SUFFICES ASSUME Init
               PROVE  File!Init
    OBVIOUS
  <2>1. IInv
    BY InitInv
  <2>2. Final = [p \in Places |-> Old]
    BY <2>1, NothingLeft DEF Init
  <2> QED
    BY <2>2 DEF Init, File!Init, File!Places, Places
<1>2. IInv => EachWrites
  <2> SUFFICES ASSUME IInv, NEW b \in Bytes, NEW n \in 1 .. MaxWrite, Write(b, n),
                      ~wasException
               PROVE  \E m \in 1 .. n : File!Write(b, m)
    OBVIOUS
  <2>1. PICK m \in 1 .. n : FileWritten(b, m)
    BY WriteInv
  <2>2. File!Write(b, m)
    BY <2>1, WriteRefines
  <2> QED
    BY <2>2
<1> QED
  BY <1>1, <1>2, Invariance, NextRefines, PTL DEF Spec, ImplementsFile, File!Spec
====
