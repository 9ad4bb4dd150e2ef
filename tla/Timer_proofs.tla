----------------------------- MODULE Timer_proofs ------------------------------
(***************************************************************************)
(* Proofs about Timer and the ExecutionDeferrer that uses it, for any      *)
(* threads, callbacks, tokens, times and length of the run: the worker does*)
(* not oversleep, nothing runs after its removal, AddTask starts functions *)
(* in the order of the calls, the destructor leaves nothing that was due,  *)
(* and nothing of what was deferred escapes a Cancel.                      *)
(*                                                                         *)
(* The timer's invariant says where each callback is (Places), who holds   *)
(* the mutex of a token (Holding), that the order of times is the order of *)
(* additions for the immediate callbacks (Precedence), and what the        *)
(* worker's second loop may rely on (Ending). The deferrer's says which    *)
(* thread is in which call (Calling, Cancelling), that a deferral is made  *)
(* under the tester that is given out (UnderTester), that what is set is   *)
(* held by the deferrer's token (Held), that what is removed is dead       *)
(* (Killed) and what a Cancel took back stays so (Final).                  *)
(***************************************************************************)
EXTENDS ExecutionDeferrer, SequenceTheorems, TLAPS

\* Only the worker executes, and so locks a token's mutex once.
Holding == \A l \in Tokens : holder[l] \in {NoThread, Worker} /\ depth[l] \in {0, 1}

\* A callback that has been added is in the queue, with the worker, served or
\* erased, and an erased one is not in the queue.
Places ==
    /\ Queued \subseteq added \ erased
    /\ top \in added \cup {NoTask}
    /\ pc \in {"run", "executed"} => top \in served
    /\ \A t \in added \ (served \cup erased) : t \in Queued \/ t = top
    /\ \A t \in Queued : t \in served => t \notin Immediate
    /\ \A c \in Threads : adding[c] \notin added
    /\ \A c, d \in Threads : adding[c] = adding[d] => c = d \/ adding[c] = NoTask
    /\ \A c \in Threads : removing[c] \in erased \cup {NoTask}
    /\ \A t \in Removable : TesterOf[t] \in released => t \in erased

\* No callback is due before the end of the wait.
WakesInTime == pc = "asleep" => \A t \in Queued : wakeAt # Never /\ wakeAt <= at[t]

\* In the queue the immediate callbacks are in the order of their additions.
InOrder ==
    \A i, j \in DOMAIN queue :
        queue[j] \in Immediate /\ queue[i] \in earlier[queue[j]] => i < j

\* What was added earlier has an earlier time and is served earlier.
Precedence ==
    /\ \A t \in Immediate : at[t] <= now
    /\ \A t \in Immediate : \A u \in earlier[t] : u # t /\ u \in added /\ at[u] <= at[t]
    /\ \A t \in Immediate : t \in added /\ t \notin Queued => earlier[t] \subseteq served
    /\ InOrder

\* After the cancellation no client adds, and after the end nobody does.
Ending ==
    /\ cancelled => cancelTime <= now
    /\ draining => cancelled /\ cancelTime <= currentTime
    /\ cancelled => \A c \in Clients : adding[c] = NoTask
    /\ adding[Worker] # NoTask => pc = "run"
    /\ pc = "exit" => draining /\ \A t \in Queued : at[t] > cancelTime

IInv ==
    /\ TypeOK
    /\ Holding
    /\ Places
    /\ NothingRunsAfterRemoval
    /\ WakesInTime
    /\ Precedence
    /\ Ending

-----------------------------------------------------------------------------
(* Sequences *)

\* Without its i-th element a sequence has the others in their order.
LEMMA Removed ==
  ASSUME NEW S, NEW s \in Seq(S), NEW i \in 1..Len(s)
  PROVE  /\ RemoveAt(s, i) \in Seq(S)
         /\ DOMAIN RemoveAt(s, i) = 1..(Len(s) - 1)
         /\ \A j \in 1..(Len(s) - 1) : RemoveAt(s, i)[j] = s[IF j < i THEN j ELSE j + 1]
<1> DEFINE front == SubSeq(s, 1, i - 1)
           back == SubSeq(s, i + 1, Len(s))
<1>1. /\ front \in Seq(S) /\ Len(front) = i - 1
      /\ \A j \in 1..(i - 1) : front[j] = s[j]
  OBVIOUS
<1>2. /\ back \in Seq(S) /\ Len(back) = Len(s) - i
      /\ \A j \in 1..(Len(s) - i) : back[j] = s[i + j]
  OBVIOUS
<1>3. RemoveAt(s, i) = front \o back
  BY DEF RemoveAt
<1> HIDE DEF front, back
<1>4. /\ front \o back \in Seq(S)
      /\ DOMAIN (front \o back) = 1..(Len(s) - 1)
  BY <1>1, <1>2
<1>5. ASSUME NEW j \in 1..(Len(s) - 1)
      PROVE  (front \o back)[j] = s[IF j < i THEN j ELSE j + 1]
  <2>1. CASE j < i
    BY <1>1, <1>2, <2>1
  <2>2. CASE ~(j < i)
    <3>1. (front \o back)[j] = back[j - (i - 1)]
      BY <1>1, <1>2, <2>2
    <3>2. j - (i - 1) \in 1..(Len(s) - i)
      BY <2>2
    <3>3. back[j - (i - 1)] = s[i + (j - (i - 1))] /\ i + (j - (i - 1)) = j + 1
      BY <1>2, <3>2
    <3> QED
      BY <3>1, <3>3, <2>2
  <2> QED
    BY <2>1, <2>2
<1> QED
  BY <1>3, <1>4, <1>5

\* The tail is what is left without the first element.
LEMMA WithoutHead ==
  ASSUME NEW S, NEW s \in Seq(S), s # <<>>
  PROVE  /\ Head(s) = s[1] /\ 1 \in 1..Len(s)
         /\ Tail(s) \in Seq(S)
         /\ DOMAIN Tail(s) = 1..(Len(s) - 1)
         /\ \A j \in 1..(Len(s) - 1) : Tail(s)[j] = s[IF j < 1 THEN j ELSE j + 1]
OBVIOUS

\* Inserted at p, an element has the others before and behind it in their order.
LEMMA Inserted ==
  ASSUME NEW S, NEW s \in Seq(S), NEW e \in S, NEW p \in 1..(Len(s) + 1)
  PROVE  /\ InsertAt(s, p, e) \in Seq(S)
         /\ DOMAIN InsertAt(s, p, e) = 1..(Len(s) + 1)
         /\ InsertAt(s, p, e)[p] = e
         /\ \A j \in 1..(Len(s) + 1) : j < p => InsertAt(s, p, e)[j] = s[j]
         /\ \A j \in 1..(Len(s) + 1) : j > p => InsertAt(s, p, e)[j] = s[j - 1]
<1> DEFINE front == SubSeq(s, 1, p - 1)
           back == SubSeq(s, p, Len(s))
           longer == front \o <<e>>
<1>1. /\ front \in Seq(S) /\ Len(front) = p - 1
      /\ \A j \in 1..(p - 1) : front[j] = s[j]
  OBVIOUS
<1>2. /\ back \in Seq(S) /\ Len(back) = Len(s) - p + 1
      /\ \A j \in 1..(Len(s) - p + 1) : back[j] = s[p - 1 + j]
  OBVIOUS
<1>3. InsertAt(s, p, e) = longer \o back
  BY DEF InsertAt
<1> HIDE DEF front, back
<1>4. /\ longer \in Seq(S) /\ Len(longer) = p
      /\ longer[p] = e
      /\ \A j \in 1..(p - 1) : longer[j] = s[j]
  BY <1>1, SMTT(30)
<1> HIDE DEF longer
<1>5. longer \o back \in Seq(S) /\ Len(longer \o back) = Len(s) + 1
  <2>1. longer \o back \in Seq(S) /\ Len(longer \o back) = Len(longer) + Len(back)
    BY <1>2, <1>4, ConcatProperties
  <2> QED
    BY <1>2, <1>4, <2>1
<1>6. DOMAIN (longer \o back) = 1..(Len(s) + 1)
  BY <1>5
<1>7. \A j \in 1..p : (longer \o back)[j] = longer[j]
  BY <1>2, <1>4
<1>8. ASSUME NEW j \in 1..(Len(s) + 1), j > p PROVE (longer \o back)[j] = s[j - 1]
  <2>1. (longer \o back)[j] = back[j - p]
    BY <1>2, <1>4, <1>8
  <2>2. j - p \in 1..(Len(s) - p + 1) /\ p - 1 + (j - p) = j - 1
    BY <1>8
  <2> QED
    BY <1>2, <2>1, <2>2
<1>9. (longer \o back)[p] = e
  BY <1>4, <1>7
<1>10. ASSUME NEW j \in 1..(Len(s) + 1), j < p PROVE (longer \o back)[j] = s[j]
  <2>1. j \in 1..p /\ j \in 1..(p - 1)
    BY <1>10
  <2> QED
    BY <1>4, <1>7, <2>1
<1> QED
  BY <1>3, <1>5, <1>6, <1>8, <1>9, <1>10

-----------------------------------------------------------------------------
(* What the steps do to the queue *)

\* A callback is taken out of the queue.
LEMMA TakenOut ==
  ASSUME IInv, NEW i \in 1..Len(queue),
         queue' \in Seq(Tasks), DOMAIN queue' = 1..(Len(queue) - 1),
         \A j \in 1..(Len(queue) - 1) : queue'[j] = queue[IF j < i THEN j ELSE j + 1],
         UNCHANGED <<at, earlier>>
  PROVE  Sorted' /\ InOrder' /\ Queued' = Queued \ {queue[i]}
<1> DEFINE f(j) == IF j < i THEN j ELSE j + 1
<1>1. /\ queue \in Seq(Tasks) /\ Sorted /\ InOrder
      /\ DOMAIN queue = 1..Len(queue)
  BY DEF IInv, TypeOK, Precedence
<1>2. \A j \in DOMAIN queue' : f(j) \in DOMAIN queue /\ f(j) # i /\ queue'[j] = queue[f(j)]
  BY <1>1
<1>3. \A j, k \in DOMAIN queue' : j < k <=> f(j) < f(k)
  OBVIOUS
<1>4. \A k \in DOMAIN queue : k # i => \E j \in DOMAIN queue' : f(j) = k
  <2> SUFFICES ASSUME NEW k \in DOMAIN queue, k # i
               PROVE  \E j \in DOMAIN queue' : f(j) = k
    OBVIOUS
  <2>1. CASE k < i
    BY <1>1, <2>1
  <2>2. CASE k > i
    <3>1. k - 1 \in DOMAIN queue' /\ f(k - 1) = k
      BY <1>1, <2>2
    <3> QED
      BY <3>1
  <2> QED
    BY <1>1, <2>1, <2>2
<1> HIDE DEF f
<1>5. Sorted'
  BY <1>1, <1>2, <1>3 DEF Sorted
<1>6. InOrder'
  BY <1>1, <1>2, <1>3 DEF InOrder
<1>7. ASSUME NEW t PROVE t \in Queued' <=> t \in Queued \ {queue[i]}
  <2>1. ASSUME t \in Queued' PROVE t \in Queued \ {queue[i]}
    <3>1. PICK j \in DOMAIN queue' : t = queue'[j]
      BY <2>1 DEF Queued, ToSet
    <3>2. f(j) \in DOMAIN queue /\ f(j) # i /\ t = queue[f(j)]
      BY <1>2, <3>1
    <3>3. queue[f(j)] # queue[i]
      BY <1>1, <3>2 DEF Sorted
    <3> QED
      BY <3>2, <3>3 DEF Queued, ToSet
  <2>2. ASSUME t \in Queued \ {queue[i]} PROVE t \in Queued'
    <3>1. PICK k \in DOMAIN queue : t = queue[k]
      BY <2>2 DEF Queued, ToSet
    <3>2. k # i
      BY <2>2, <3>1
    <3>3. PICK j \in DOMAIN queue' : f(j) = k
      BY <1>4, <3>2
    <3> QED
      BY <1>2, <3>1, <3>3 DEF Queued, ToSet
  <2> QED
    BY <2>1, <2>2
<1> QED
  BY <1>5, <1>6, <1>7

\* A callback is put in at its time.
LEMMA PutIn ==
  ASSUME IInv, NEW t \in Tasks, t \notin Queued, NEW time \in Nat,
         Emplace(t, time), at' \in [Tasks -> Nat], at'[t] = time,
         \A u \in Queued : at'[u] = at[u],
         earlier' = earlier,
         t \in Immediate => \A u \in earlier[t] : u # t /\ at[u] <= time,
         \A u \in Queued : u \in Immediate => t \notin earlier[u]
  PROVE  queue' \in Seq(Tasks) /\ Sorted' /\ InOrder' /\ Queued' = Queued \cup {t}
<1>1. /\ queue \in Seq(Tasks) /\ Sorted /\ InOrder /\ at \in [Tasks -> Nat]
      /\ DOMAIN queue = 1..Len(queue)
      /\ \A j \in DOMAIN queue : queue[j] \in Queued /\ queue[j] \in Tasks
  BY DEF IInv, TypeOK, Precedence, Queued, ToSet
<1>2. PICK k \in 0..Len(queue) :
          /\ k > 0 => at[queue[k]] <= time
          /\ k < Len(queue) => at[queue[k + 1]] > time
          /\ queue' = InsertAt(queue, k + 1, t)
  BY DEF Emplace
<1> DEFINE p == k + 1
<1>3. /\ queue' \in Seq(Tasks)
      /\ DOMAIN queue' = 1..(Len(queue) + 1)
      /\ queue'[k + 1] = t
      /\ \A j \in 1..(Len(queue) + 1) : j < k + 1 => queue'[j] = queue[j]
      /\ \A j \in 1..(Len(queue) + 1) : j > k + 1 => queue'[j] = queue[j - 1]
  <2>1. p \in 1..(Len(queue) + 1) /\ queue' = InsertAt(queue, p, t)
    BY <1>1, <1>2
  <2>. queue \in Seq(Tasks)
    BY <1>1
  <2> HIDE DEF p
  <2>2. queue' \in Seq(Tasks) /\ DOMAIN queue' = 1..(Len(queue) + 1)
    BY ONLY queue \in Seq(Tasks), t \in Tasks, <2>1, Inserted
  <2>3. queue'[p] = t
    BY ONLY queue \in Seq(Tasks), t \in Tasks, <2>1, Inserted
  <2>4. \A j \in 1..(Len(queue) + 1) : j < p => queue'[j] = queue[j]
    BY ONLY queue \in Seq(Tasks), t \in Tasks, <2>1, Inserted
  <2>5. \A j \in 1..(Len(queue) + 1) : j > p => InsertAt(queue, p, t)[j] = queue[j - 1]
    <3>1. p \in 1..(Len(queue) + 1)
      BY <2>1
    <3> QED
      BY ONLY queue \in Seq(Tasks), t \in Tasks, <3>1, Inserted, SMTT(30)
  <2> QED
    BY <2>1, <2>2, <2>3, <2>4, <2>5 DEF p
<1> HIDE DEF p
<1>4. \A j \in 1..k : at[queue[j]] <= time
  <2> SUFFICES ASSUME NEW j \in 1..k PROVE at[queue[j]] <= time
    OBVIOUS
  <2>1. k \in DOMAIN queue /\ j \in DOMAIN queue /\ at[queue[k]] <= time
    BY <1>1, <1>2
  <2>2. CASE j = k
    BY <2>1, <2>2
  <2>3. CASE j < k
    <3>1. at[queue[j]] <= at[queue[k]]
      BY <1>1, <2>1, <2>3 DEF Sorted
    <3>2. at[queue[j]] \in Nat /\ at[queue[k]] \in Nat
      BY <1>1, <2>1
    <3> QED
      BY <2>1, <3>1, <3>2
  <2> QED
    BY <2>2, <2>3
<1>5. \A j \in (k + 1)..Len(queue) : at[queue[j]] > time
  <2> SUFFICES ASSUME NEW j \in (k + 1)..Len(queue) PROVE at[queue[j]] > time
    OBVIOUS
  <2>1. k + 1 \in DOMAIN queue /\ j \in DOMAIN queue /\ at[queue[k + 1]] > time
    BY <1>1, <1>2
  <2>2. CASE j = k + 1
    BY <2>1, <2>2
  <2>3. CASE j > k + 1
    <3>1. at[queue[k + 1]] <= at[queue[j]]
      BY <1>1, <2>1, <2>3 DEF Sorted
    <3>2. at[queue[j]] \in Nat /\ at[queue[k + 1]] \in Nat
      BY <1>1, <2>1
    <3> QED
      BY <2>1, <3>1, <3>2
  <2> QED
    BY <2>2, <2>3
<1> DEFINE g(j) == IF j < k + 1 THEN j ELSE j - 1
<1>6. \A j \in DOMAIN queue' :
          \/ j = k + 1 /\ queue'[j] = t
          \/ j # k + 1 /\ g(j) \in DOMAIN queue /\ queue'[j] = queue[g(j)]
  <2> SUFFICES ASSUME NEW j \in DOMAIN queue', j # k + 1
               PROVE  g(j) \in DOMAIN queue /\ queue'[j] = queue[g(j)]
    BY <1>3
  <2>1. CASE j <= k
    <3>1. j \in 1..Len(queue) /\ j \in 1..(Len(queue) + 1) /\ j < k + 1
      BY <1>3, <2>1
    <3>2. queue'[j] = queue[j] /\ g(j) = j
      BY <1>3, <3>1
    <3> QED
      BY <1>1, <3>1, <3>2
  <2>2. CASE ~(j <= k)
    <3>1. j - 1 \in 1..Len(queue) /\ j \in 1..(Len(queue) + 1) /\ j > k + 1
      BY <1>3, <2>2
    <3>2. queue'[j] = queue[j - 1] /\ g(j) = j - 1
      BY <1>3, <3>1
    <3> QED
      BY <1>1, <3>1, <3>2
  <2> QED
    BY <2>1, <2>2
<1>7. \A i, j \in DOMAIN queue' : i # k + 1 /\ j # k + 1 => (i < j <=> g(i) < g(j))
  BY <1>3
<1>8. \A j \in DOMAIN queue' : j # k + 1 =>
          /\ j < k + 1 => at[queue[g(j)]] <= time
          /\ j > k + 1 => at[queue[g(j)]] > time
  <2> SUFFICES ASSUME NEW j \in DOMAIN queue', j # k + 1
               PROVE  /\ j < k + 1 => at[queue[g(j)]] <= time
                      /\ j > k + 1 => at[queue[g(j)]] > time
    OBVIOUS
  <2>1. ASSUME j < k + 1 PROVE at[queue[g(j)]] <= time
    <3>1. j \in 1..k /\ g(j) = j
      BY <1>3, <2>1
    <3> QED
      BY <1>4, <3>1
  <2>2. ASSUME j > k + 1 PROVE at[queue[g(j)]] > time
    <3>1. j - 1 \in (k + 1)..Len(queue) /\ g(j) = j - 1
      BY <1>3, <2>2
    <3> QED
      BY <1>5, <3>1
  <2> QED
    BY <2>1, <2>2
<1> HIDE DEF g
<1>9. Sorted'
  <2> SUFFICES ASSUME NEW i \in DOMAIN queue', NEW j \in DOMAIN queue', i < j
               PROVE  queue'[i] # queue'[j] /\ at'[queue'[i]] <= at'[queue'[j]]
    BY DEF Sorted
  <2>1. CASE i = k + 1
    <3>1. j # k + 1 /\ j > k + 1
      BY <1>3, <2>1
    <3> QED
      BY <1>1, <1>6, <1>8, <2>1, <3>1
  <2>2. CASE j = k + 1
    <3>1. i # k + 1 /\ i < k + 1
      BY <1>3, <2>2
    <3> QED
      BY <1>1, <1>6, <1>8, <2>2, <3>1
  <2>3. CASE i # k + 1 /\ j # k + 1
    <3>1. /\ g(i) \in DOMAIN queue /\ g(j) \in DOMAIN queue /\ g(i) < g(j)
          /\ queue'[i] = queue[g(i)] /\ queue'[j] = queue[g(j)]
      BY <1>6, <1>7, <2>3
    <3> QED
      BY <1>1, <3>1 DEF Sorted
  <2> QED
    BY <2>1, <2>2, <2>3
<1>10. InOrder'
  <2> SUFFICES ASSUME NEW i \in DOMAIN queue', NEW j \in DOMAIN queue',
                      queue'[j] \in Immediate, queue'[i] \in earlier[queue'[j]]
               PROVE  i < j
    BY DEF InOrder
  <2>1. CASE j = k + 1
    <3>1. queue'[j] = t /\ t \in Immediate /\ i # k + 1
      BY <1>6, <2>1
    <3>2. at[queue[g(i)]] <= time
      BY <1>6, <3>1
    <3>3. ~(i > k + 1)
      BY <1>1, <1>6, <1>8, <3>1, <3>2
    <3> QED
      BY <1>3, <2>1, <3>1, <3>3
  <2>2. CASE j # k + 1
    <3>1. queue'[j] = queue[g(j)] /\ g(j) \in DOMAIN queue
      BY <1>6, <2>2
    <3>2. i # k + 1
      BY <1>1, <1>6, <3>1
    <3>3. queue'[i] = queue[g(i)] /\ g(i) \in DOMAIN queue
      BY <1>6, <3>2
    <3>4. g(i) < g(j)
      BY <1>1, <3>1, <3>3 DEF InOrder
    <3> QED
      BY <1>7, <2>2, <3>2, <3>4
  <2> QED
    BY <2>1, <2>2
<1>11. ASSUME NEW u PROVE u \in Queued' <=> u \in Queued \cup {t}
  <2>1. ASSUME u \in Queued' PROVE u \in Queued \cup {t}
    <3>1. PICK j \in DOMAIN queue' : u = queue'[j]
      BY <2>1 DEF Queued, ToSet
    <3> QED
      BY <1>1, <1>6, <3>1
  <2>2. t \in Queued'
    BY <1>3 DEF Queued, ToSet
  <2>3. ASSUME u \in Queued PROVE u \in Queued'
    <3>1. PICK j \in DOMAIN queue : u = queue[j]
      BY <2>3 DEF Queued, ToSet
    <3>2. CASE j <= k
      <4>1. j \in 1..(Len(queue) + 1) /\ j < k + 1
        BY <1>1, <3>2
      <4>2. j \in DOMAIN queue' /\ queue'[j] = u
        BY <1>3, <3>1, <4>1
      <4> QED
        BY <4>2 DEF Queued, ToSet
    <3>3. CASE j > k
      <4>1. j + 1 \in 1..(Len(queue) + 1) /\ j + 1 > k + 1 /\ (j + 1) - 1 = j
        BY <1>1, <3>3
      <4>2. j + 1 \in DOMAIN queue' /\ queue'[j + 1] = u
        BY <1>3, <3>1, <4>1
      <4> QED
        BY <4>2 DEF Queued, ToSet
    <3> QED
      BY <1>1, <3>2, <3>3
  <2> QED
    BY <2>1, <2>2, <2>3
<1> QED
  BY <1>3, <1>9, <1>10, <1>11

-----------------------------------------------------------------------------
(* The invariant *)

\* The invariant holds at the start ...
LEMMA InitInv == Init => IInv
<1> SUFFICES ASSUME Init PROVE IInv
  OBVIOUS
<1> USE ThreadsAssumption, TasksAssumption, TestersAssumption, TimesAssumption,
        NoThreadAssumption
    DEF Init, LifeInit
<1>1. queue = <<>> /\ DOMAIN queue = {} /\ Queued = {}
  BY DEF Queued, ToSet
<1>2. TypeOK
  <2>1. LifeTypeOK /\ Sorted
    BY <1>1 DEF LifeTypeOK, Sorted
  <2>2. 0 \in 0..MaxTime /\ cancelTime \in 0..MaxTime + 1
    OBVIOUS
  <2>3. queue \in Seq(Tasks) /\ top \notin Queued
    BY <1>1
  <2>4. /\ erased \subseteq added \cap Removable
        /\ removing \in [Threads -> Removable \cup {NoTask}]
        /\ earlier \in [Tasks -> SUBSET Immediate]
    OBVIOUS
  <2> QED
    BY <2>1, <2>2, <2>3, <2>4 DEF TypeOK
<1>3. Holding /\ Places /\ NothingRunsAfterRemoval /\ WakesInTime
  BY <1>1 DEF Holding, Places, NothingRunsAfterRemoval, WakesInTime
<1>4. Precedence
  BY <1>1 DEF Precedence, InOrder, Immediate
<1>5. Ending
  BY <1>1 DEF Ending
<1> QED
  BY <1>2, <1>3, <1>4, <1>5 DEF IInv

\* A call of the timer reads the clock, ...
LEMMA StampInv ==
  ASSUME IInv, NEW c \in Threads, NEW t \in Tasks, Stamp(c, t)
  PROVE  IInv'
<1> USE ThreadsAssumption, TasksAssumption, TestersAssumption, TimesAssumption,
        NoThreadAssumption
<1>1. /\ t \notin added /\ t \notin Queued /\ t # top
      /\ \A d \in Threads : adding[d] # t
      /\ adding[c] = NoTask
      /\ IF c = Worker THEN pc = "run" ELSE ~cancelled
      /\ at' = [at EXCEPT ![t] = now + Delay[t]]
      /\ adding' = [adding EXCEPT ![c] = t]
      /\ earlier' = [earlier EXCEPT ![t] = added \cap Immediate]
      /\ UNCHANGED <<lifeVars, now, queue, pc, top, cancelled, stamp, currentTime,
                     wakeAt, draining, removing, erased, added, served, released,
                     cancelTime>>
  BY DEF IInv, Places, Stamp, CanCall
<1>2. /\ Queued' = Queued
      /\ \A j \in DOMAIN queue : queue[j] \in Queued /\ queue[j] # t
      /\ Queued \subseteq Tasks
      /\ at \in [Tasks -> Nat]
      /\ now + Delay[t] \in Nat
      /\ \A u \in Tasks : u # t => at'[u] = at[u] /\ earlier'[u] = earlier[u]
  BY <1>1 DEF IInv, TypeOK, Queued, ToSet
<1>3. TypeOK'
  <2>1. Sorted'
    BY <1>1, <1>2 DEF IInv, TypeOK, Sorted
  <2>2. LifeTypeOK'
    BY <1>1 DEF IInv, TypeOK, LifeTypeOK, lifeVars
  <2> QED
    BY <1>1, <1>2, <2>1, <2>2 DEF IInv, TypeOK, lifeVars
<1>4. Holding' /\ NothingRunsAfterRemoval'
  BY <1>1, <1>2 DEF IInv, Holding, NothingRunsAfterRemoval, lifeVars
<1>5. Places'
  BY <1>1, <1>2 DEF IInv, Places, TypeOK
<1>6. WakesInTime'
  BY <1>1, <1>2 DEF IInv, WakesInTime
<1>7. Precedence'
  <2>1. InOrder'
    BY <1>1, <1>2 DEF IInv, Precedence, InOrder, TypeOK
  <2>2. ASSUME NEW u \in Immediate PROVE at'[u] <= now'
    <3>1. CASE u = t
      BY <1>1, <1>2, <3>1 DEF IInv, TypeOK, Immediate
    <3>2. CASE u # t
      BY <1>1, <1>2, <2>2, <3>2 DEF IInv, Precedence, Immediate
    <3> QED
      BY <3>1, <3>2
  <2>3. ASSUME NEW u \in Immediate, NEW v \in earlier'[u]
        PROVE  v # u /\ v \in added' /\ at'[v] <= at'[u]
    <3>1. CASE u = t
      <4>1. v \in added \cap Immediate /\ v # t
        BY <1>1, <3>1, <2>3 DEF IInv, TypeOK, Immediate
      <4>2. at'[v] <= now /\ at'[t] = now + Delay[t] /\ Delay[t] = 0 /\ now \in Nat
        BY <1>1, <1>2, <4>1, <2>3, <3>1 DEF IInv, TypeOK, Precedence, Immediate
      <4> QED
        BY <1>1, <3>1, <4>1, <4>2
    <3>2. CASE u # t
      <4>1. v \in earlier[u] /\ v \in added /\ v # u /\ at[v] <= at[u] /\ v \in Tasks
        BY <1>1, <1>2, <2>3, <3>2 DEF IInv, TypeOK, Precedence, Immediate
      <4>2. at'[v] = at[v] /\ at'[u] = at[u]
        BY <1>1, <1>2, <4>1, <2>3, <3>2 DEF Immediate
      <4> QED
        BY <1>1, <4>1, <4>2
    <3> QED
      BY <3>1, <3>2
  <2>4. \A u \in Immediate : u \in added' /\ u \notin Queued' => earlier'[u] \subseteq served'
    BY <1>1, <1>2 DEF IInv, Precedence, Immediate
  <2> QED
    BY <2>1, <2>2, <2>3, <2>4 DEF Precedence
<1>8. Ending'
  BY <1>1, <1>2 DEF IInv, Ending, TypeOK
<1> QED
  BY <1>3, <1>4, <1>5, <1>6, <1>7, <1>8 DEF IInv

\* ... and puts the callback into the queue.
LEMMA PushInv ==
  ASSUME IInv, NEW c \in Threads, PushNew(c)
  PROVE  IInv'
<1> USE ThreadsAssumption, TasksAssumption, TestersAssumption, TimesAssumption,
        NoThreadAssumption
<1> DEFINE t == adding[c]
<1>1. /\ t \in Tasks /\ t \notin added /\ t \notin Queued /\ t # top
      /\ t \notin served /\ t \notin erased
      /\ \A d \in Threads : d # c => adding[d] # t
      /\ Emplace(t, at[t])
      /\ pc' = IF pc = "asleep" THEN "loop" ELSE pc
      /\ adding' = [adding EXCEPT ![c] = NoTask]
      /\ added' = added \cup {t}
      /\ UNCHANGED <<lifeVars, now, top, cancelled, timeVars, removing, erased,
                     earlier, served, released, cancelTime>>
  BY DEF IInv, TypeOK, Places, PushNew, Broadcast
<1>2. pc # "exit"
  BY <1>1 DEF IInv, Ending
<1> HIDE DEF t
<1>3. /\ at \in [Tasks -> Nat] /\ at[t] \in Nat /\ at' = at /\ earlier' = earlier
      /\ Queued \subseteq Tasks
  BY <1>1 DEF IInv, TypeOK, Places, timeVars
<1>4. /\ t \in Immediate => \A u \in earlier[t] : u # t /\ at[u] <= at[t]
      /\ \A u \in Queued : u \in Immediate => t \notin earlier[u]
  BY <1>1 DEF IInv, Precedence
<1>5. queue' \in Seq(Tasks) /\ Sorted' /\ InOrder' /\ Queued' = Queued \cup {t}
  BY <1>1, <1>3, <1>4, PutIn
<1>6. TypeOK'
  <2>1. LifeTypeOK'
    BY <1>1 DEF IInv, TypeOK, LifeTypeOK, lifeVars
  <2> QED
    BY <1>1, <1>2, <1>3, <1>5, <2>1 DEF IInv, TypeOK, lifeVars, timeVars
<1>7. Holding'
  BY <1>1 DEF IInv, Holding, lifeVars
<1>8. NothingRunsAfterRemoval'
  BY <1>1, <1>5 DEF IInv, NothingRunsAfterRemoval, Places, lifeVars
<1>9. Places'
  BY <1>1, <1>5 DEF IInv, Places, TypeOK
<1>10. WakesInTime'
  BY <1>1 DEF IInv, WakesInTime
<1>11. Precedence'
  BY <1>1, <1>3, <1>4, <1>5 DEF IInv, Precedence
<1>12. Ending'
  BY <1>1, <1>2, <1>3 DEF IInv, Ending, TypeOK, timeVars
<1> QED
  BY <1>6, <1>7, <1>8, <1>9, <1>10, <1>11, <1>12 DEF IInv

\* A removal takes the callback out of the queue, ...
LEMMA EraseInv ==
  ASSUME IInv, NEW c \in Threads, NEW t \in Tasks, Erase(c, t)
  PROVE  IInv'
<1> USE ThreadsAssumption, TasksAssumption, TestersAssumption, TimesAssumption,
        NoThreadAssumption
<1>1. /\ t \in added /\ t \in Removable /\ t \notin erased
      /\ erased' = erased \cup {t}
      /\ removing' = [removing EXCEPT ![c] = t]
      /\ UNCHANGED <<lifeVars, now, pc, top, cancelled, timeVars, adding, histVars>>
  BY DEF Erase
<1>2. queue' \in Seq(Tasks) /\ Sorted' /\ InOrder' /\ Queued' = Queued \ {t}
  <2>1. CASE t \notin Queued /\ queue' = queue
    BY <1>1, <2>1 DEF IInv, TypeOK, Precedence, Sorted, InOrder, Queued, timeVars, histVars
  <2>2. ASSUME NEW i \in DOMAIN queue, queue[i] = t, queue' = RemoveAt(queue, i)
        PROVE  queue' \in Seq(Tasks) /\ Sorted' /\ InOrder' /\ Queued' = Queued \ {t}
    <3>1. queue \in Seq(Tasks) /\ i \in 1..Len(queue)
      BY DEF IInv, TypeOK
    <3>2. /\ queue' \in Seq(Tasks)
          /\ DOMAIN queue' = 1..(Len(queue) - 1)
          /\ \A j \in 1..(Len(queue) - 1) : queue'[j] = queue[IF j < i THEN j ELSE j + 1]
      BY ONLY <2>2, <3>1, Removed
    <3>3. UNCHANGED <<at, earlier>>
      BY <1>1 DEF timeVars, histVars
    <3> QED
      BY <2>2, <3>1, <3>2, <3>3, TakenOut
  <2> QED
    BY <2>1, <2>2 DEF Erase
<1>3. TypeOK'
  <2>1. LifeTypeOK'
    BY <1>1 DEF IInv, TypeOK, LifeTypeOK, lifeVars
  <2> QED
    BY <1>1, <1>2, <2>1 DEF IInv, TypeOK, lifeVars, timeVars, histVars
<1>4. Holding' /\ NothingRunsAfterRemoval'
  BY <1>1, <1>2 DEF IInv, Holding, NothingRunsAfterRemoval, lifeVars, histVars
<1>5. Places'
  BY <1>1, <1>2 DEF IInv, Places, TypeOK, histVars
<1>6. WakesInTime'
  BY <1>1, <1>2 DEF IInv, WakesInTime, timeVars
<1>7. Precedence'
  BY <1>1, <1>2 DEF IInv, Precedence, timeVars, histVars, Immediate
<1>8. Ending'
  BY <1>1, <1>2 DEF IInv, Ending, timeVars, histVars
<1> QED
  BY <1>3, <1>4, <1>5, <1>6, <1>7, <1>8 DEF IInv

\* Who kills a token from outside finds that its callback is not running.
LEMMA KilledOutside ==
  ASSUME IInv, NEW c \in Clients, NEW l \in Tokens, Kill(l, c)
  PROVE  ~(pc = "run" /\ TesterOf[top] = l)
BY ThreadsAssumption, NoThreadAssumption DEF IInv, TypeOK, Holding, Kill, CanLock

\* ... and kills its token, as the owner of a token may, too.
LEMMA ReleaseInv ==
  ASSUME IInv, NEW c \in Threads,
         ReleaseCallback(c) \/ \E l \in Tokens : ReleaseTester(c, l)
  PROVE  IInv'
<1> USE ThreadsAssumption, TasksAssumption, TestersAssumption, TimesAssumption,
        NoThreadAssumption
<1>1. PICK l \in Tokens :
          /\ Kill(l, c)
          /\ removing' \in {removing, [removing EXCEPT ![c] = NoTask]}
          /\ \/ c = Worker /\ released' = released
             \/ c \in Clients /\ released' = released \cup {l}
          /\ \A t \in Removable : TesterOf[t] = l => t \in erased
          /\ UNCHANGED <<now, queue, pc, top, cancelled, timeVars, adding, erased,
                         added, earlier, served, cancelTime>>
  <2>1. CASE ReleaseCallback(c)
    <3>1. removing[c] \in Removable /\ removing[c] \in erased
      BY <2>1 DEF ReleaseCallback, IInv, TypeOK, Places
    <3>2. TesterOf[removing[c]] \in Tokens
      BY <3>1
    <3>3. \A t \in Removable : TesterOf[t] = TesterOf[removing[c]] => t \in erased
      BY <3>1
    <3>4. c = Worker \/ c \in Clients
      OBVIOUS
    <3> QED
      BY <2>1, <3>2, <3>3, <3>4 DEF ReleaseCallback
  <2>2. ASSUME NEW l \in Tokens, ReleaseTester(c, l)
        PROVE  /\ Kill(l, c)
               /\ removing' = removing
               /\ c \in Clients /\ released' = released \cup {l}
               /\ \A t \in Removable : TesterOf[t] # l
               /\ UNCHANGED <<now, queue, pc, top, cancelled, timeVars, adding, erased,
                              added, earlier, served, cancelTime>>
    BY <2>2 DEF ReleaseTester, callVars
  <2> QED
    BY <2>1, <2>2
<1>2. /\ alive' = [alive EXCEPT ![l] = FALSE]
      /\ UNCHANGED <<holder, depth>>
      /\ c \in Clients => ~(pc = "run" /\ TesterOf[top] = l)
  BY <1>1, KilledOutside DEF Kill
<1>3. Queued' = Queued /\ Sorted' /\ InOrder'
  BY <1>1 DEF IInv, TypeOK, Precedence, Queued, Sorted, InOrder, timeVars
<1>4. TypeOK'
  <2>1. LifeTypeOK'
    BY <1>2 DEF IInv, TypeOK, LifeTypeOK
  <2> QED
    BY <1>1, <1>2, <1>3, <2>1 DEF IInv, TypeOK, timeVars
<1>5. Holding'
  BY <1>2 DEF IInv, Holding
<1>6. NothingRunsAfterRemoval'
  BY <1>1, <1>2, <1>3 DEF IInv, NothingRunsAfterRemoval, TypeOK, LifeTypeOK, Places
<1>7. Places'
  BY <1>1, <1>3 DEF IInv, Places, TypeOK
<1>8. WakesInTime' /\ Precedence' /\ Ending'
  BY <1>1, <1>3 DEF IInv, WakesInTime, Precedence, Ending, timeVars
<1> QED
  BY <1>4, <1>5, <1>6, <1>7, <1>8 DEF IInv

\* The clock goes on; the worker is cancelled, sleeps, wakes, reads the clock.
LEMMA QuietInv ==
  ASSUME IInv,
         \/ Tick \/ CancelWorker \/ SleepOnEmpty \/ SleepUntilTop
         \/ WakeUp \/ WakeSpuriously \/ ReadClock \/ BeginDrain
  PROVE  IInv'
<1> USE ThreadsAssumption, TasksAssumption, TestersAssumption, TimesAssumption,
        NoThreadAssumption
<1>1. UNCHANGED <<lifeVars, queue, top, at, callVars, added, earlier, served, released>>
  BY DEF Tick, CancelWorker, SleepOnEmpty, SleepUntilTop, WakeUp, WakeSpuriously,
         ReadClock, BeginDrain, timeVars, histVars
<1>2. Queued' = Queued /\ Sorted' /\ InOrder' /\ LifeTypeOK' /\ Holding'
  BY <1>1 DEF IInv, TypeOK, Precedence, Queued, Sorted, InOrder, LifeTypeOK, lifeVars, Holding
<1>3. /\ now' \in 0..MaxTime /\ now' >= now
      /\ pc' = "run" <=> pc = "run"
      /\ pc' = "executed" <=> pc = "executed"
      /\ pc' = "exit" <=> pc = "exit"
      /\ pc' \in {"popped", "guard"} <=> pc \in {"popped", "guard"}
      /\ pc' \in {"loop", "asleep", "popped", "guard", "run", "executed", "exit"}
  BY DEF Tick, CancelWorker, SleepOnEmpty, SleepUntilTop, WakeUp, WakeSpuriously,
         ReadClock, BeginDrain, IInv, TypeOK
<1>4. /\ wakeAt' \in Nat \cup {Never}
      /\ stamp' \in 0..MaxTime /\ currentTime' \in 0..MaxTime
      /\ cancelTime' \in 0..MaxTime + 1
      /\ cancelled' \in BOOLEAN /\ draining' \in BOOLEAN
  <2>1. /\ wakeAt \in Nat \cup {Never}
        /\ now \in 0..MaxTime /\ stamp \in 0..MaxTime /\ currentTime \in 0..MaxTime
        /\ cancelTime \in 0..MaxTime + 1 /\ now \in 0..MaxTime + 1
        /\ cancelled \in BOOLEAN /\ draining \in BOOLEAN
    BY DEF IInv, TypeOK
  <2>2. queue # <<>> => at[Head(queue)] \in Nat
    BY WithoutHead DEF IInv, TypeOK
  <2>3. wakeAt' \in Nat \cup {Never}
    BY <2>1, <2>2 DEF Tick, CancelWorker, SleepOnEmpty, SleepUntilTop, WakeUp,
                      WakeSpuriously, ReadClock, BeginDrain, timeVars
  <2>4. stamp' \in 0..MaxTime /\ currentTime' \in 0..MaxTime
    BY <2>1 DEF Tick, CancelWorker, SleepOnEmpty, SleepUntilTop, WakeUp,
                WakeSpuriously, ReadClock, BeginDrain, timeVars
  <2>5. cancelTime' \in 0..MaxTime + 1
    BY <2>1 DEF Tick, CancelWorker, SleepOnEmpty, SleepUntilTop, WakeUp,
                WakeSpuriously, ReadClock, BeginDrain, histVars
  <2>6. cancelled' \in BOOLEAN /\ draining' \in BOOLEAN
    BY <2>1 DEF Tick, CancelWorker, SleepOnEmpty, SleepUntilTop, WakeUp,
                WakeSpuriously, ReadClock, BeginDrain, timeVars
  <2> QED
    BY <2>3, <2>4, <2>5, <2>6
<1>5. TypeOK'
  BY <1>1, <1>2, <1>3, <1>4 DEF IInv, TypeOK, lifeVars, callVars
<1>6. NothingRunsAfterRemoval'
  BY <1>1, <1>2, <1>3 DEF IInv, NothingRunsAfterRemoval, lifeVars
<1>7. Places'
  BY <1>1, <1>2, <1>3 DEF IInv, Places, callVars
<1>8. WakesInTime'
  <2>1. CASE SleepOnEmpty
    <3>1. Queued = {}
      BY <2>1 DEF SleepOnEmpty, Queued, ToSet
    <3> QED
      BY <1>2, <3>1 DEF WakesInTime
  <2>2. CASE SleepUntilTop
    <3>1. /\ queue # <<>> /\ queue \in Seq(Tasks) /\ at \in [Tasks -> Nat]
          /\ wakeAt' = at[Head(queue)] /\ Sorted
      BY <2>2 DEF SleepUntilTop, IInv, TypeOK
    <3>2. Head(queue) = queue[1] /\ 1 \in DOMAIN queue /\ at[queue[1]] \in Nat
      BY <3>1
    <3>3. ASSUME NEW t \in Queued PROVE at[queue[1]] <= at[t]
      <4>1. PICK i \in DOMAIN queue : t = queue[i]
        BY DEF Queued, ToSet
      <4>2. CASE i = 1
        BY <3>2, <4>1, <4>2
      <4>3. CASE i > 1
        BY <3>1, <3>2, <4>1, <4>3 DEF Sorted
      <4> QED
        BY <3>1, <4>2, <4>3
    <3> QED
      BY <1>1, <1>2, <3>1, <3>2, <3>3 DEF WakesInTime
  <2>3. CASE ~SleepOnEmpty /\ ~SleepUntilTop
    <3>1. pc' = "asleep" => pc = "asleep" /\ wakeAt' = wakeAt
      BY <2>3 DEF Tick, CancelWorker, WakeUp, WakeSpuriously, ReadClock, BeginDrain, timeVars
    <3> QED
      BY <1>1, <1>2, <3>1 DEF IInv, WakesInTime
  <2> QED
    BY <2>1, <2>2, <2>3
<1>9. Precedence'
  <2>1. \A t \in Immediate : at'[t] <= now'
    BY <1>1, <1>3 DEF IInv, Precedence, TypeOK, Immediate
  <2> QED
    BY <1>1, <1>2, <2>1 DEF IInv, Precedence
<1>10. Ending'
  <2>1. CASE CancelWorker
    BY <1>1, <1>2, <2>1 DEF CancelWorker, IInv, Ending, TypeOK, callVars, timeVars
  <2>2. CASE BeginDrain
    BY <1>1, <1>2, <2>2 DEF BeginDrain, IInv, Ending, TypeOK, callVars, histVars
  <2>3. CASE ~CancelWorker /\ ~BeginDrain
    <3>1. UNCHANGED <<cancelled, draining, currentTime, cancelTime>>
      BY <2>3 DEF Tick, SleepOnEmpty, SleepUntilTop, WakeUp, WakeSpuriously, ReadClock,
                  timeVars, histVars
    <3> QED
      BY <1>1, <1>2, <1>3, <3>1 DEF IInv, Ending, TypeOK, callVars
  <2> QED
    BY <2>1, <2>2, <2>3
<1> QED
  BY <1>2, <1>5, <1>6, <1>7, <1>8, <1>9, <1>10 DEF IInv

\* The first callback is popped for its execution.
LEMMA PopInv ==
  ASSUME IInv, PopDue \/ DrainNext
  PROVE  IInv'
<1> USE ThreadsAssumption, TasksAssumption, TestersAssumption, TimesAssumption,
        NoThreadAssumption
<1>1. /\ pc = "loop" /\ top = NoTask
      /\ UNCHANGED <<lifeVars, now, cancelled, timeVars, callVars, histVars>>
  BY DEF PopDue, DrainNext, IInv, TypeOK
<1>2. CASE /\ queue # <<>> /\ top' = Head(queue) /\ queue' = Tail(queue)
           /\ pc' \in {"popped", "guard"}
  <2>1. /\ queue \in Seq(Tasks) /\ top' = queue[1] /\ 1 \in 1..Len(queue)
        /\ queue' \in Seq(Tasks)
        /\ DOMAIN queue' = 1..(Len(queue) - 1)
        /\ \A j \in 1..(Len(queue) - 1) : queue'[j] = queue[IF j < 1 THEN j ELSE j + 1]
    BY <1>2, WithoutHead DEF IInv, TypeOK
  <2>2. UNCHANGED <<at, earlier>>
    BY <1>1 DEF timeVars, histVars
  <2>3. Sorted' /\ InOrder' /\ Queued' = Queued \ {top'}
    BY <2>1, <2>2, TakenOut
  <2>4. top' \in Queued /\ top' \in Tasks /\ top' # NoTask
    BY <2>1 DEF Queued, ToSet
  <2>5. TypeOK'
    <3>1. LifeTypeOK'
      BY <1>1 DEF IInv, TypeOK, LifeTypeOK, lifeVars
    <3> QED
      BY <1>1, <1>2, <2>1, <2>3, <2>4, <3>1
         DEF IInv, TypeOK, lifeVars, timeVars, callVars, histVars
  <2>6. Holding'
    BY <1>1 DEF IInv, Holding, lifeVars
  <2>7. NothingRunsAfterRemoval'
    BY <1>1, <1>2, <2>3 DEF IInv, NothingRunsAfterRemoval, lifeVars, histVars
  <2>8. Places'
    <3>1. top' \in added' /\ top' \notin served' \cap Immediate
      BY <1>1, <2>4 DEF IInv, Places, histVars
    <3>2. /\ Queued' \subseteq added' \ erased'
          /\ \A t \in added' \ (served' \cup erased') : t \in Queued' \/ t = top'
          /\ \A t \in Queued' : t \in served' => t \notin Immediate
      BY <1>1, <2>3, <2>4 DEF IInv, TypeOK, Places, callVars, histVars
    <3>3. pc' \notin {"run", "executed"}
      BY <1>2
    <3> QED
      BY <1>1, <3>1, <3>2, <3>3 DEF IInv, Places, callVars, histVars
  <2>9. WakesInTime'
    BY <1>2 DEF WakesInTime
  <2>10. Precedence'
    <3>1. ASSUME NEW t \in Immediate, t \in added', t \notin Queued'
          PROVE  earlier'[t] \subseteq served'
      <4>1. CASE t \notin Queued
        BY <1>1, <3>1, <4>1 DEF IInv, Precedence, histVars
      <4>2. CASE t \in Queued
        <5>1. t = top' /\ t = queue[1]
          BY <2>1, <2>3, <3>1, <4>2
        <5>2. ASSUME NEW u \in earlier[t] PROVE u \in served
          <6>1. u \in added /\ u \notin erased /\ u # top
            BY <1>1, <3>1 DEF IInv, Precedence, TypeOK, Immediate
          <6>2. u \notin Queued
            <7> SUFFICES ASSUME NEW i \in DOMAIN queue, u = queue[i] PROVE FALSE
              BY DEF Queued, ToSet
            <7>1. i < 1
              BY <2>1, <3>1, <5>1 DEF IInv, Precedence, InOrder
            <7> QED
              BY <2>1, <7>1
          <6> QED
            BY <6>1, <6>2 DEF IInv, Places
        <5> QED
          BY <1>1, <5>2 DEF histVars
      <4> QED
        BY <4>1, <4>2
    <3> QED
      BY <1>1, <2>3, <3>1 DEF IInv, Precedence, timeVars, histVars
  <2>11. Ending'
    BY <1>1, <1>2 DEF IInv, Ending, timeVars, callVars, histVars
  <2> QED
    BY <2>5, <2>6, <2>7, <2>8, <2>9, <2>10, <2>11 DEF IInv
<1>3. CASE /\ draining /\ ~(queue # <<>> /\ at[Head(queue)] <= currentTime)
           /\ pc' = "exit" /\ UNCHANGED <<top, queue>>
  <2>1. Queued' = Queued /\ Sorted' /\ InOrder' /\ LifeTypeOK' /\ Holding'
    BY <1>1, <1>3 DEF IInv, TypeOK, Precedence, Queued, Sorted, InOrder, LifeTypeOK, Holding,
                      lifeVars, timeVars, histVars
  <2>2. TypeOK'
    BY <1>1, <1>3, <2>1 DEF IInv, TypeOK, lifeVars, timeVars, callVars, histVars
  <2>3. NothingRunsAfterRemoval' /\ Places' /\ WakesInTime'
    BY <1>1, <1>3, <2>1 DEF IInv, NothingRunsAfterRemoval, Places, WakesInTime,
                            lifeVars, callVars, histVars
  <2>4. Precedence'
    BY <1>1, <2>1 DEF IInv, Precedence, timeVars, histVars
  <2>5. ASSUME NEW t \in Queued PROVE at[t] > cancelTime
    <3>1. PICK i \in DOMAIN queue : t = queue[i]
      BY DEF Queued, ToSet
    <3>2. /\ queue \in Seq(Tasks) /\ Sorted /\ at \in [Tasks -> Nat]
          /\ cancelTime \in Nat /\ currentTime \in Nat /\ cancelTime <= currentTime
      BY <1>3 DEF IInv, TypeOK, Ending
    <3>3. /\ queue # <<>> /\ Head(queue) = queue[1] /\ 1 \in DOMAIN queue
          /\ i \in 1..Len(queue) /\ at[queue[1]] \in Nat /\ at[t] \in Nat
      BY <3>1, <3>2
    <3>4. at[queue[1]] > currentTime
      BY <1>3, <3>2, <3>3
    <3>5. at[queue[1]] <= at[t]
      <4>1. CASE i = 1
        BY <3>1, <3>3, <4>1
      <4>2. CASE i > 1
        BY <3>1, <3>2, <3>3, <4>2 DEF Sorted
      <4> QED
        BY <3>3, <4>1, <4>2
    <3> QED
      BY <3>2, <3>3, <3>4, <3>5
  <2>6. Ending'
    BY <1>1, <1>3, <2>1, <2>5 DEF IInv, Ending, timeVars, callVars, histVars
  <2> QED
    BY <2>1, <2>2, <2>3, <2>4, <2>6 DEF IInv
<1> QED
  BY <1>2, <1>3 DEF PopDue, DrainNext

\* The callback is executed or refused, and returns.
LEMMA ExecutionInv ==
  ASSUME IInv, StartTask \/ SkipTask \/ FinishTask
  PROVE  IInv'
<1> USE ThreadsAssumption, TasksAssumption, TestersAssumption, TimesAssumption,
        NoThreadAssumption
<1>1. /\ top \in Tasks /\ top \in added /\ top \notin Queued
      /\ UNCHANGED <<now, queue, top, cancelled, timeVars, callVars,
                     added, earlier, released, cancelTime>>
  BY DEF StartTask, SkipTask, FinishTask, IInv, TypeOK, Places, histVars
<1>2. Queued' = Queued /\ Sorted' /\ InOrder'
  BY <1>1 DEF IInv, TypeOK, Precedence, Queued, Sorted, InOrder, timeVars
<1>3. /\ pc \in {"guard", "run"} /\ pc' \in {"run", "executed"}
      /\ pc = "run" => top \in served
      /\ served' = served \cup {top}
      /\ pc' = "executed" /\ pc = "run" => adding[Worker] = NoTask
      /\ pc' = "run" => pc = "guard"
  BY <1>1 DEF StartTask, SkipTask, FinishTask, IInv, Places, histVars
<1>4. /\ alive' = alive
      /\ LifeTypeOK' /\ Holding'
      /\ \A l \in Tokens : holder'[l] = Worker <=> pc' = "run" /\ TesterOf[top] = l
      /\ pc' = "run" /\ TesterOf[top] \in Tokens => alive[TesterOf[top]]
  <2> DEFINE l == TesterOf[top]
  <2>1. CASE StartTask /\ l \in Tokens
    <3>1. /\ holder[l] = NoThread /\ depth[l] = 0 /\ alive[l]
          /\ holder' = [holder EXCEPT ![l] = Worker]
          /\ depth' = [depth EXCEPT ![l] = 1]
          /\ alive' = alive /\ pc = "guard" /\ pc' = "run"
      BY <2>1 DEF StartTask, TryStartExecution, CanLock, IInv, TypeOK, LifeTypeOK
    <3> QED
      BY <2>1, <3>1 DEF IInv, TypeOK, LifeTypeOK, Holding
  <2>2. CASE FinishTask /\ l \in Tokens
    <3>1. /\ holder[l] = Worker /\ depth[l] = 1
          /\ holder' = [holder EXCEPT ![l] = NoThread]
          /\ depth' = [depth EXCEPT ![l] = 0]
          /\ alive' = alive /\ pc = "run" /\ pc' = "executed"
      BY <2>2 DEF FinishTask, FinishExecution, IInv, TypeOK, LifeTypeOK, Holding
    <3> QED
      BY <2>2, <3>1 DEF IInv, TypeOK, LifeTypeOK, Holding
  <2>3. CASE SkipTask \/ l \notin Tokens
    <3>1. /\ UNCHANGED lifeVars
          /\ pc' = "run" => l \notin Tokens
          /\ pc = "run" => l \notin Tokens
      BY <2>3 DEF StartTask, SkipTask, FinishTask, RefuseExecution
    <3> QED
      BY <1>3, <3>1 DEF IInv, TypeOK, LifeTypeOK, Holding, lifeVars
  <2> QED
    BY <2>1, <2>2, <2>3
<1>5. TypeOK'
  BY <1>1, <1>2, <1>3, <1>4 DEF IInv, TypeOK, timeVars, callVars
<1>6. NothingRunsAfterRemoval'
  BY <1>1, <1>2, <1>3, <1>4 DEF IInv, NothingRunsAfterRemoval, TypeOK
<1>7. Places'
  BY <1>1, <1>2, <1>3 DEF IInv, Places, callVars
<1>8. WakesInTime'
  BY <1>3 DEF WakesInTime
<1>9. Precedence'
  BY <1>1, <1>2, <1>3 DEF IInv, Precedence, timeVars
<1>10. Ending'
  BY <1>1, <1>2, <1>3 DEF IInv, Ending, timeVars, callVars
<1> QED
  BY <1>4, <1>5, <1>6, <1>7, <1>8, <1>9, <1>10 DEF IInv

\* A periodic callback is put back.
LEMMA RestartInv ==
  ASSUME IInv, Restart
  PROVE  IInv'
<1> USE ThreadsAssumption, TasksAssumption, TestersAssumption, TimesAssumption,
        NoThreadAssumption
<1>1. /\ pc = "executed" /\ pc' = "loop" /\ top' = NoTask
      /\ top \in Tasks /\ top \in added /\ top \in served /\ top \notin Queued
      /\ IsPeriodic(top) => top \in Removable /\ top \notin Immediate
      /\ UNCHANGED <<lifeVars, now, cancelled, stamp, currentTime, wakeAt, draining,
                     callVars, histVars>>
      /\ Queued \subseteq Tasks
  BY DEF Restart, IInv, TypeOK, Places, IsPeriodic, Immediate
<1>2. /\ queue' \in Seq(Tasks) /\ Sorted' /\ InOrder'
      /\ Queued' \in {Queued, Queued \cup {top}}
      /\ top \in Queued' => IsPeriodic(top) /\ top \notin erased
      /\ at' \in [Tasks -> Nat]
      /\ \A u \in Tasks : u # top \/ u \in Immediate => at'[u] = at[u]
  <2> DEFINE time == stamp + Period[top]
  <2>1. CASE IsPeriodic(top) /\ ~draining
    <3>1. /\ time \in Nat
          /\ at' = [at EXCEPT ![top] = time]
          /\ IF top \in erased THEN queue' = queue ELSE Emplace(top, time)
      <4>1. stamp \in Nat /\ Period[top] \in Nat
        BY <1>1, <2>1 DEF IsPeriodic, IInv, TypeOK
      <4> QED
        BY <2>1, <4>1 DEF Restart
    <3> HIDE DEF time
    <3>2. /\ at' \in [Tasks -> Nat] /\ at'[top] = time /\ earlier' = earlier
          /\ \A u \in Tasks : u # top => at'[u] = at[u]
      BY <1>1, <3>1 DEF IInv, TypeOK, histVars
    <3>3. CASE top \in erased
      <4>1. queue' = queue /\ Queued' = Queued /\ queue \in Seq(Tasks)
        BY <3>1, <3>3 DEF Queued, IInv, TypeOK
      <4>2. \A i \in DOMAIN queue : queue[i] \in Tasks /\ queue[i] # top
        BY <1>1 DEF Queued, ToSet
      <4>3. Sorted' /\ InOrder'
        BY <3>2, <4>1, <4>2 DEF Sorted, InOrder, IInv, TypeOK, Precedence
      <4> QED
        BY <1>1, <2>1, <3>2, <4>1, <4>3
    <3>4. CASE top \notin erased
      <4>1. \A u \in Queued : at'[u] = at[u]
        BY <1>1, <3>2
      <4>2. \A u \in Queued : u \in Immediate => top \notin earlier[u]
        BY <1>1, <2>1 DEF IInv, TypeOK, Immediate
      <4>3. queue' \in Seq(Tasks) /\ Sorted' /\ InOrder' /\ Queued' = Queued \cup {top}
        BY <1>1, <2>1, <3>1, <3>2, <3>4, <4>1, <4>2, PutIn
      <4> QED
        BY <1>1, <2>1, <3>2, <3>4, <4>3
    <3> QED
      BY <3>3, <3>4
  <2>2. CASE ~(IsPeriodic(top) /\ ~draining)
    <3>1. queue' = queue /\ at' = at /\ earlier' = earlier
      BY <2>2 DEF Restart, histVars
    <3> QED
      BY <1>1, <3>1 DEF IInv, TypeOK, Precedence, Sorted, InOrder, Queued
  <2> QED
    BY <2>1, <2>2
<1>3. TypeOK'
  <2>1. LifeTypeOK'
    BY <1>1 DEF IInv, TypeOK, LifeTypeOK, lifeVars
  <2>2. NoTask \notin Queued'
    BY <1>1, <1>2
  <2> QED
    BY <1>1, <1>2, <2>1, <2>2 DEF IInv, TypeOK, lifeVars, callVars, histVars
<1>4. Holding'
  BY <1>1 DEF IInv, Holding, lifeVars
<1>5. NothingRunsAfterRemoval'
  <2>1. \A t \in Removable : TesterOf[t] \in released => t \notin Queued'
    BY <1>1, <1>2 DEF IInv, Places
  <2> QED
    BY <1>1, <2>1 DEF IInv, NothingRunsAfterRemoval, lifeVars, histVars
<1>6. Places'
  BY <1>1, <1>2 DEF IInv, Places, callVars, histVars
<1>7. WakesInTime'
  BY <1>1 DEF WakesInTime
<1>8. Precedence'
  <2>1. \A t \in Immediate : t \in Tasks /\ at'[t] = at[t]
    BY <1>2 DEF Immediate
  <2>2. \A t \in Immediate : earlier[t] \subseteq Immediate
    BY <2>1 DEF IInv, TypeOK
  <2>3. \A t \in Immediate : t \notin Queued' => t \notin Queued
    BY <1>2
  <2> QED
    BY <1>1, <1>2, <2>1, <2>2, <2>3 DEF IInv, Precedence, histVars
<1>9. Ending'
  BY <1>1 DEF IInv, Ending, callVars, histVars
<1> QED
  BY <1>3, <1>4, <1>5, <1>6, <1>7, <1>8, <1>9 DEF IInv

\* ... is kept by every step ...
LEMMA NextInv == IInv /\ [Next]_vars => IInv'
<1> SUFFICES ASSUME IInv, [Next]_vars PROVE IInv'
  OBVIOUS
<1>1. CASE Tick \/ CancelWorker \/ WakeSpuriously
  BY <1>1, QuietInv
<1>2. CASE WorkerStep
  BY <1>2, QuietInv, PopInv, ExecutionInv, RestartInv DEF WorkerStep
<1>3. ASSUME NEW c \in Threads,
             \/ \E t \in Tasks : Stamp(c, t) \/ Erase(c, t)
             \/ PushNew(c) \/ ReleaseCallback(c)
             \/ \E l \in Tokens : ReleaseTester(c, l)
      PROVE  IInv'
  BY <1>3, StampInv, PushInv, EraseInv, ReleaseInv
<1>4. CASE Finished \/ UNCHANGED vars
  BY <1>4 DEF Finished, vars, lifeVars, timeVars, callVars, histVars, IInv, TypeOK,
     LifeTypeOK, Sorted, Queued, Holding, Places, NothingRunsAfterRemoval, WakesInTime,
     Precedence, InOrder, Ending
<1> QED
  BY <1>1, <1>2, <1>3, <1>4 DEF Next

\* ... and so always.
LEMMA Invariance == Spec => []IInv
<1> QED
  BY InitInv, NextInv, PTL DEF Spec

-----------------------------------------------------------------------------
(***************************************************************************)
(* After another thread has reset its token a callback is not running, not *)
(* waiting and does not come back, whenever the worker was executing or    *)
(* restarting it meanwhile (Timer.cpp:248-255, 279-283).                   *)
(***************************************************************************)
THEOREM NothingRunsAfterRemovalAlways == Spec => []NothingRunsAfterRemoval
<1>1. IInv => NothingRunsAfterRemoval
  BY DEF IInv
<1> QED
  BY <1>1, Invariance, PTL

(***************************************************************************)
(* Types, and the queue is sorted; and whatever is added or removed while  *)
(* it sleeps, no callback in the queue is due before the deadline of the   *)
(* worker's wait (Timer.cpp:264-294).                                      *)
(***************************************************************************)
THEOREM NeverOversleepsAlways == Spec => []NeverOversleeps
<1>1. IInv => NeverOversleeps
  BY DEF IInv, WakesInTime, NeverOversleeps
<1> QED
  BY <1>1, Invariance, PTL

(***************************************************************************)
(* A function whose AddTask had returned when another's began is taken     *)
(* before that one, however many threads add (TimerTest.cpp,               *)
(* SameTimeScheduleOrder).                                                 *)
(***************************************************************************)
THEOREM StartedInOrderAlways == Spec => []StartedInOrder
<1>1. IInv => StartedInOrder
  <2> SUFFICES ASSUME IInv, NEW t \in served \cap Immediate
               PROVE  earlier[t] \subseteq served
    BY DEF StartedInOrder
  <2>1. t \in added /\ t \notin Queued
    BY DEF IInv, TypeOK, Places
  <2> QED
    BY <2>1 DEF IInv, Precedence
<1> QED
  BY <1>1, Invariance, PTL

(***************************************************************************)
(* When the worker has ended, what had been added and was due at the       *)
(* cancellation has been executed or removed, and what was not due is      *)
(* still there (Timer.cpp:298-312).                                        *)
(***************************************************************************)
THEOREM DrainedAtExitAlways == Spec => []DrainedAtExit
<1>1. IInv => DrainedAtExit
  <2> SUFFICES ASSUME IInv, pc = "exit" PROVE DrainedAtExit
    BY DEF DrainedAtExit
  <2>1. top = NoTask
    BY DEF IInv, TypeOK
  <2> QED
    BY <2>1, TasksAssumption DEF IInv, TypeOK, Places, Ending, DrainedAtExit
<1> QED
  BY <1>1, Invariance, PTL

-----------------------------------------------------------------------------
(* ExecutionDeferrer: the invariant *)

InCancel == {"killing", "resetting", "withdrawing", "publishing"}
InDefer == {"deferring", "adding"}
Setting == {"setting", "assigning", "removing", "assigned"}

DeferrerTypeOK ==
    /\ life \in LifeTokens /\ tester \in LifeTokens
    /\ deferredToken \in DeferredTasks \cup {NoTask}
    /\ canceller \in Clients \cup {NoThread}
    /\ callPc \in [Threads -> {"idle"} \cup InCancel \cup InDefer \cup Setting]
    /\ making \in [Threads -> Deferrals \cup {NoTask}]
    /\ used \in SUBSET LifeTokens
    /\ final \in SUBSET Deferrals

\* One client cancels at a time. From the end of the old life token to the
\* return, the tester is still of the old one, and the deferrer's token is
\* empty once it has been reset.
Cancelling ==
    /\ \A c \in Threads : callPc[c] \in InCancel <=> canceller = c
    /\ life \in used /\ tester \in used
    /\ \A c \in Threads :
        callPc[c] \in InCancel \ {"killing"} => tester # life /\ tester \in released
    /\ tester # life => \E c \in Threads : callPc[c] \in InCancel \ {"killing"}
    /\ \A c \in Threads : callPc[c] \in {"withdrawing", "publishing"} => deferredToken = NoTask

\* Who calls what: the worker only from a callback, Defer from a deferred task
\* and the timer from a DoDefer; a thread adds and removes in these calls only.
Calling ==
    /\ pc # "run" => callPc[Worker] = "idle"
    /\ callPc[Worker] \in InDefer => top \in DeferredTasks
    /\ callPc[Worker] \in Setting => top \in Deferrals
    /\ \A c \in Threads :
        /\ c # Worker => callPc[c] \notin Setting
        /\ callPc[c] \in InDefer <=> making[c] # NoTask
        /\ callPc[c] = "adding" => adding[c] = making[c]
        /\ callPc[c] = "setting" => adding[c] = TaskOf[top]
        /\ callPc[c] \notin {"adding", "setting"} => adding[c] = NoTask
        /\ removing[c] # NoTask => callPc[c] \in {"removing", "withdrawing"}

\* A deferral is made under the tester that is given out, or under an old one.
UnderTester ==
    \A d \in Deferrals :
        d \in added \/ (\E c \in Threads : making[c] = d)
            => TesterOf[d] \in released \cup {tester}

\* A task that is set and not removed is in the deferrer's token, or about to be.
Held ==
    \A d \in Deferrals :
        TaskOf[d] \in added \ erased =>
            deferredToken = TaskOf[d] \/ (callPc[Worker] = "assigning" /\ top = d)

\* A removed task is dead when its removal has returned; what runs is alive.
Killed ==
    /\ \A r \in DeferredTasks \cap erased :
        ~alive[TesterOf[r]] \/ \E c \in Threads : removing[c] = r
    /\ pc = "run" /\ TesterOf[top] \in Tokens => alive[TesterOf[top]]

\* What a Cancel took back: its DoDefer cannot start, its task is removed and dead.
Final ==
    \A d \in final :
        /\ TesterOf[d] \in released
        /\ TaskOf[d] \in added => TaskOf[d] \in erased /\ ~alive[TesterOf[TaskOf[d]]]

DeferrerInv ==
    /\ DeferrerTypeOK
    /\ Cancelling
    /\ Calling
    /\ UnderTester
    /\ Held
    /\ Killed
    /\ Final

-----------------------------------------------------------------------------
(* ExecutionDeferrer: the steps *)

\* Every call of the deferrer is made of steps of the timer.
LEMMA StepOfTimer ==
  ASSUME DeferrerInv, DeferrerNext
  PROVE  [Next]_vars
<1> USE ThreadsAssumption, TasksAssumption, DeferralsAssumption, LifeTokensAssumption
<1>1. CASE (Tick \/ WakeSpuriously) /\ UNCHANGED deferrerVars
  BY <1>1 DEF Next
<1>2. CASE TimerStep
  BY <1>2 DEF TimerStep, WorkerStep, Next
<1>3. ASSUME NEW c \in Threads, DeferStep(c) PROVE [Next]_vars
  <2>1. CASE CallAddTask(c)
    <3>1. making[c] \in Tasks
      BY <2>1 DEF CallAddTask, InDefer, DeferrerInv, DeferrerTypeOK, Calling
    <3> QED
      BY <2>1, <3>1 DEF CallAddTask, Next
  <2>2. CASE ReturnFromAddTask(c)
    BY <2>2 DEF ReturnFromAddTask, Next
  <2> QED
    BY <1>3, <2>1, <2>2 DEF DeferStep
<1>4. ASSUME NEW c \in Threads, NEW d \in Deferrals, GetTester(c, d) PROVE [Next]_vars
  BY <1>4 DEF GetTester
<1>5. ASSUME NEW c \in Clients, LockCancel(c) \/ CancelStep(c) PROVE [Next]_vars
  <2>1. CASE LockCancel(c)
    BY <2>1 DEF LockCancel
  <2>2. CASE ResetLife(c)
    BY <2>2 DEF ResetLife, Next, DeferrerInv, DeferrerTypeOK
  <2>3. CASE ResetToken(c)
    BY <2>3 DEF ResetToken, Erase, Next
  <2>4. CASE TaskIsRemoved(c)
    BY <2>4 DEF TaskIsRemoved, Next
  <2>5. CASE ReturnFromCancel(c)
    BY <2>5 DEF ReturnFromCancel
  <2> QED
    BY <1>5, <2>1, <2>2, <2>3, <2>4, <2>5 DEF CancelStep
<1>6. CASE DoDeferStep
  <2>1. CASE SetCallback
    BY <2>1 DEF SetCallback, InDoDefer, Next
  <2>2. CASE CallbackIsSet
    BY <2>2 DEF CallbackIsSet, Next
  <2>3. CASE AssignToken
    BY <2>3 DEF AssignToken, Erase, Next
  <2>4. CASE OldIsRemoved
    BY <2>4 DEF OldIsRemoved, Next
  <2>5. CASE CallbackEnds
    BY <2>5 DEF CallbackEnds, WorkerStep, Next
  <2> QED
    BY <1>6, <2>1, <2>2, <2>3, <2>4, <2>5 DEF DoDeferStep
<1> QED
  BY <1>1, <1>2, <1>3, <1>4, <1>5, <1>6 DEF DeferrerNext

\* While a DoDefer runs, its life token is the deferrer's: no Cancel has ended it.
LEMMA DoDeferIsAlive ==
  ASSUME IInv, DeferrerInv, InDoDefer
  PROVE  /\ TesterOf[top] = tester /\ tester = life /\ TesterOf[top] \notin released
         /\ \A c \in Threads : callPc[c] \notin InCancel \ {"killing"}
<1>1. TesterOf[top] \notin released
  BY DEF IInv, NothingRunsAfterRemoval, InDoDefer
<1>2. top \in added
  BY TasksAssumption, DeferralsAssumption DEF IInv, Places, InDoDefer
<1>3. TesterOf[top] = tester
  BY <1>1, <1>2 DEF DeferrerInv, UnderTester, InDoDefer
<1> QED
  BY <1>1, <1>3 DEF DeferrerInv, Cancelling

\* The deferrer starts with the timer, ...
LEMMA DeferrerInitInv == DeferrerInit => IInv /\ DeferrerInv
<1> SUFFICES ASSUME DeferrerInit PROVE IInv /\ DeferrerInv
  OBVIOUS
<1> USE ThreadsAssumption, TasksAssumption, DeferralsAssumption, LifeTokensAssumption,
        NoThreadAssumption
    DEF DeferrerInit
<1>1. IInv
  BY InitInv
<1>2. /\ pc = "loop" /\ added = {} /\ erased = {}
      /\ \A c \in Threads : adding[c] = NoTask /\ removing[c] = NoTask
  BY DEF Init
<1>3. DeferrerTypeOK
  BY DEF DeferrerTypeOK
<1>4. Cancelling
  BY DEF Cancelling, InCancel
<1>5. Calling
  <2>1. \A d \in Deferrals : d # NoTask
    OBVIOUS
  <2> QED
    BY <1>2 DEF Calling, InDefer, Setting
<1>6. UnderTester
  BY <1>2 DEF UnderTester
<1>7. Held /\ Killed /\ Final
  BY <1>2 DEF Held, Killed, Final
<1> QED
  BY <1>1, <1>3, <1>4, <1>5, <1>6, <1>7 DEF DeferrerInv

\* ... leaves its worker alone until it starts a callback, ...
LEMMA TimerStepInv ==
  ASSUME IInv, DeferrerInv, UNCHANGED deferrerVars,
         \/ Tick \/ WakeSpuriously \/ SleepOnEmpty \/ SleepUntilTop \/ WakeUp
         \/ PopDue \/ ReadClock \/ StartTask \/ SkipTask \/ Restart
  PROVE  DeferrerInv'
<1> USE ThreadsAssumption, TasksAssumption, DeferralsAssumption, LifeTokensAssumption
<1>1. /\ UNCHANGED <<added, erased, released, adding, removing, alive>>
      /\ pc = "run" => pc' = "run" /\ top' = top
      /\ pc' = "run" /\ pc # "run" /\ TesterOf[top'] \in Tokens => alive[TesterOf[top']]
  BY DEF Tick, WakeSpuriously, SleepOnEmpty, SleepUntilTop, WakeUp, PopDue, ReadClock,
         StartTask, SkipTask, Restart, RefuseExecution, TryStartExecution, lifeVars,
         timeVars, callVars, histVars
<1>2. UNCHANGED <<life, tester, deferredToken, canceller, callPc, making, used, final>>
  BY DEF deferrerVars
<1>3. DeferrerTypeOK' /\ Cancelling' /\ UnderTester' /\ Final'
  BY <1>1, <1>2 DEF DeferrerInv, DeferrerTypeOK, Cancelling, UnderTester, Final
<1>4. pc # "run" => callPc[Worker] = "idle"
  BY DEF DeferrerInv, Calling
<1>5. Calling'
  BY <1>1, <1>2, <1>4 DEF DeferrerInv, Calling, InDefer, Setting
<1>6. Held'
  BY <1>1, <1>2, <1>4 DEF DeferrerInv, Held
<1>7. Killed'
  BY <1>1 DEF DeferrerInv, Killed
<1> QED
  BY <1>3, <1>5, <1>6, <1>7 DEF DeferrerInv

\* ... is called by Defer, ...
LEMMA DeferInv ==
  ASSUME IInv, IInv', DeferrerInv, NEW c \in Threads,
         DeferStep(c) \/ \E d \in Deferrals : GetTester(c, d)
  PROVE  DeferrerInv'
<1> USE ThreadsAssumption, TasksAssumption, DeferralsAssumption, LifeTokensAssumption
<1>1. /\ UNCHANGED <<erased, released, removing, alive, top, life, tester, deferredToken,
                     canceller, used, final>>
      /\ pc = "run" <=> pc' = "run"
      /\ \E from, to \in {"idle"} \cup InDefer :
            callPc[c] = from /\ callPc' = [callPc EXCEPT ![c] = to]
  BY DEF DeferStep, CallAddTask, ReturnFromAddTask, GetTester, Stamp, PushNew, Broadcast,
         GotoCall, InDefer, vars, lifeVars, callVars, histVars, timeVars
<1>2. \A e \in Threads : /\ callPc'[e] \in InCancel <=> callPc[e] \in InCancel
                         /\ callPc'[e] \in Setting <=> callPc[e] \in Setting
                         /\ e # c => callPc'[e] = callPc[e]
                         /\ callPc'[e] \notin {"idle"} \cup InDefer => callPc'[e] = callPc[e]
  BY <1>1 DEF DeferrerInv, DeferrerTypeOK, InCancel, InDefer, Setting
<1>3. DeferrerTypeOK'
  <2>1. making' \in [Threads -> Deferrals \cup {NoTask}]
    BY DEF DeferrerInv, DeferrerTypeOK, DeferStep, CallAddTask, ReturnFromAddTask, GetTester
  <2> QED
    BY <1>1, <2>1 DEF DeferrerInv, DeferrerTypeOK
<1>4. Cancelling'
  BY <1>1, <1>2 DEF DeferrerInv, Cancelling, InCancel, InDefer
<1>5. Calling' /\ UnderTester' /\ Held' /\ Final'
  <2>1. CASE \E d \in Deferrals : GetTester(c, d)
    <3>1. PICK d \in Deferrals :
              /\ callPc[c] = "idle" /\ callPc' = [callPc EXCEPT ![c] = "deferring"]
              /\ c = Worker => pc = "run" /\ top \in DeferredTasks
              /\ TesterOf[d] = tester
              /\ making' = [making EXCEPT ![c] = d]
              /\ UNCHANGED <<adding, added, pc>>
      BY <2>1 DEF GetTester, GotoCall, vars, callVars, histVars
    <3>2. Calling'
      BY <1>1, <1>2, <3>1 DEF DeferrerInv, DeferrerTypeOK, Calling, InDefer, Setting
    <3>3. UnderTester'
      BY <1>1, <3>1 DEF DeferrerInv, DeferrerTypeOK, UnderTester
    <3>4. Held' /\ Final'
      BY <1>1, <1>2, <3>1 DEF DeferrerInv, Held, Final, InDefer
    <3> QED
      BY <3>2, <3>3, <3>4
  <2>2. CASE CallAddTask(c)
    <3>1. /\ callPc[c] = "deferring" /\ callPc' = [callPc EXCEPT ![c] = "adding"]
          /\ adding' = [adding EXCEPT ![c] = making[c]]
          /\ UNCHANGED <<making, added, pc>>
      BY <2>2 DEF CallAddTask, Stamp, GotoCall
    <3>2. Calling'
      BY <1>1, <1>2, <3>1, SMTT(30)
         DEF DeferrerInv, DeferrerTypeOK, Calling, InDefer, Setting, IInv, TypeOK
    <3>3. UnderTester' /\ Final'
      BY <1>1, <3>1 DEF DeferrerInv, UnderTester, Final
    <3>4. Held'
      BY <1>1, <1>2, <3>1 DEF DeferrerInv, Held, InDefer
    <3> QED
      BY <3>2, <3>3, <3>4
  <2>3. CASE ReturnFromAddTask(c)
    <3>1. /\ callPc[c] = "adding" /\ callPc' = [callPc EXCEPT ![c] = "idle"]
          /\ adding' = [adding EXCEPT ![c] = NoTask]
          /\ making' = [making EXCEPT ![c] = NoTask]
          /\ added' = added \cup {adding[c]}
          /\ adding[c] = making[c] /\ making[c] \in Deferrals
      BY <2>3 DEF ReturnFromAddTask, PushNew, GotoCall, DeferrerInv, DeferrerTypeOK,
                  Calling, InDefer
    <3>2. Calling'
      BY <1>1, <1>2, <3>1, SMTT(30)
         DEF DeferrerInv, DeferrerTypeOK, Calling, InDefer, Setting, IInv, TypeOK
    <3>3. UnderTester'
      BY <1>1, <3>1 DEF DeferrerInv, DeferrerTypeOK, UnderTester
    <3>4. \A d \in Deferrals : TaskOf[d] \in added' <=> TaskOf[d] \in added
      BY <3>1
    <3>5. Final'
      BY <1>1, <3>4 DEF DeferrerInv, DeferrerTypeOK, Final
    <3>6. callPc[Worker] = "assigning" => callPc'[Worker] = "assigning"
      BY <3>1 DEF DeferrerInv, DeferrerTypeOK
    <3>7. Held'
      BY <1>1, <3>4, <3>6 DEF DeferrerInv, Held
    <3> QED
      BY <3>2, <3>3, <3>5, <3>7
  <2> QED
    BY <2>1, <2>2, <2>3 DEF DeferStep
<1>6. Killed'
  BY <1>1 DEF DeferrerInv, Killed
<1> QED
  BY <1>3, <1>4, <1>5, <1>6 DEF DeferrerInv

\* ... sets the callback in a DoDefer and takes its token, ...
LEMMA DoDeferInv ==
  ASSUME IInv, IInv', DeferrerInv, SetCallback \/ CallbackIsSet
  PROVE  DeferrerInv'
<1> USE ThreadsAssumption, TasksAssumption, DeferralsAssumption, LifeTokensAssumption
<1>1. /\ UNCHANGED <<erased, released, removing, alive, top, life, tester, deferredToken,
                     canceller, making, used, final>>
      /\ pc = "run" <=> pc' = "run"
      /\ \/ callPc[Worker] = "idle" /\ callPc' = [callPc EXCEPT ![Worker] = "setting"]
         \/ callPc[Worker] = "setting" /\ callPc' = [callPc EXCEPT ![Worker] = "assigning"]
  BY DEF SetCallback, CallbackIsSet, Stamp, PushNew, Broadcast, GotoCall, lifeVars, callVars,
         histVars
<1>2. /\ pc = "run" /\ top \in Deferrals /\ top \in added
  <2>1. pc = "run" /\ top \in Deferrals
    BY DEF SetCallback, CallbackIsSet, InDoDefer, DeferrerInv, Calling, Setting
  <2> QED
    BY <2>1 DEF IInv, Places
<1>3. TesterOf[top] \notin released
  BY <1>2, DoDeferIsAlive DEF InDoDefer
<1>4. \A e \in Threads : /\ e # Worker => callPc'[e] = callPc[e]
                         /\ callPc'[e] \in InCancel <=> callPc[e] \in InCancel
                         /\ callPc'[e] \in InDefer <=> callPc[e] \in InDefer
                         /\ callPc'[e] \in InCancel => callPc'[e] = callPc[e]
  BY <1>1 DEF DeferrerInv, DeferrerTypeOK, InCancel, InDefer
<1>5. DeferrerTypeOK'
  BY <1>1 DEF DeferrerInv, DeferrerTypeOK, Setting
<1>6. Cancelling'
  <2>1. \A e \in Threads : callPc'[e] \in {"withdrawing", "publishing"} =>
                              callPc[e] \in {"withdrawing", "publishing"}
    BY <1>4 DEF InCancel
  <2>2. \A e \in Threads : callPc'[e] \in InCancel \ {"killing"} <=>
                              callPc[e] \in InCancel \ {"killing"}
    BY <1>1, <1>4 DEF DeferrerInv, DeferrerTypeOK, InCancel
  <2> QED
    BY <1>1, <1>4, <2>1, <2>2 DEF DeferrerInv, Cancelling
<1>7. Killed'
  BY <1>1 DEF DeferrerInv, Killed
<1>8. CASE SetCallback
  <2>1. /\ callPc[Worker] = "idle" /\ callPc' = [callPc EXCEPT ![Worker] = "setting"]
        /\ adding' = [adding EXCEPT ![Worker] = TaskOf[top]]
        /\ added' = added
    BY <1>8 DEF SetCallback, Stamp, GotoCall
  <2>2. Calling'
    BY <1>1, <1>2, <1>4, <2>1
       DEF DeferrerInv, DeferrerTypeOK, Calling, InDefer, Setting, IInv, TypeOK
  <2>3. UnderTester' /\ Final'
    BY <1>1, <2>1 DEF DeferrerInv, UnderTester, Final
  <2>4. Held'
    BY <1>1, <2>1 DEF DeferrerInv, Held
  <2> QED
    BY <1>5, <1>6, <1>7, <2>2, <2>3, <2>4 DEF DeferrerInv
<1>9. CASE CallbackIsSet
  <2>1. /\ callPc[Worker] = "setting" /\ callPc'[Worker] = "assigning"
        /\ callPc' = [callPc EXCEPT ![Worker] = "assigning"]
        /\ adding' = [adding EXCEPT ![Worker] = NoTask]
        /\ added' = added \cup {TaskOf[top]}
    BY <1>9 DEF CallbackIsSet, PushNew, GotoCall, DeferrerInv, DeferrerTypeOK, Calling
  <2>2. Calling'
    BY <1>1, <1>2, <1>4, <2>1
       DEF DeferrerInv, DeferrerTypeOK, Calling, InDefer, Setting, IInv, TypeOK
  <2>3. \A d \in Deferrals : d \in added' => d \in added
    BY <1>2, <2>1
  <2>4. UnderTester'
    BY <1>1, <2>3 DEF DeferrerInv, UnderTester
  <2>5. \A d \in Deferrals : TaskOf[d] \in added' => TaskOf[d] \in added \/ d = top
    BY <1>2, <2>1
  <2>6. Held'
    BY <1>1, <2>1, <2>5 DEF DeferrerInv, Held
  <2>7. Final'
    BY <1>1, <1>3, <2>5 DEF DeferrerInv, DeferrerTypeOK, Final
  <2> QED
    BY <1>5, <1>6, <1>7, <2>2, <2>4, <2>6, <2>7 DEF DeferrerInv
<1> QED
  BY <1>8, <1>9

\* ... puts the token in its place, removes what the old one had set, returns, ...
LEMMA ReplaceInv ==
  ASSUME IInv, IInv', DeferrerInv, AssignToken \/ OldIsRemoved \/ CallbackEnds
  PROVE  DeferrerInv'
<1> USE ThreadsAssumption, TasksAssumption, DeferralsAssumption, LifeTokensAssumption,
        TestersAssumption
<1>1. /\ UNCHANGED <<added, released, adding, top, life, tester,
                     canceller, making, used, final>>
      /\ callPc[Worker] \in {"idle"} \cup Setting
      /\ callPc'[Worker] \in {"idle"} \cup Setting
      /\ callPc'[Worker] # "setting" /\ callPc'[Worker] # "assigning"
      /\ callPc' = [callPc EXCEPT ![Worker] = callPc'[Worker]]
  BY DEF AssignToken, OldIsRemoved, CallbackEnds, Erase, ReleaseCallback, FinishTask,
         GotoCall, vars, callVars, histVars, Setting, DeferrerInv, DeferrerTypeOK
<1>2. CASE AssignToken
  <2>1. /\ callPc[Worker] = "assigning" /\ callPc'[Worker] \in {"assigned", "removing"}
        /\ pc = "run" /\ pc' = "run" /\ top \in Deferrals
        /\ deferredToken' = TaskOf[top]
        /\ alive' = alive
        /\ \/ deferredToken = NoTask /\ UNCHANGED <<erased, removing>>
           \/ /\ deferredToken # NoTask
              /\ erased' = erased \cup {deferredToken}
              /\ callPc'[Worker] = "removing"
              /\ removing[Worker] = NoTask
              /\ removing' = [removing EXCEPT ![Worker] = deferredToken]
    BY <1>2 DEF AssignToken, Erase, GotoCall, vars, lifeVars, callVars, DeferrerInv,
                DeferrerTypeOK, Calling, Setting
  <2>2. DeferrerTypeOK'
    BY <1>1, <2>1 DEF DeferrerInv, DeferrerTypeOK, DeferredTasks, Setting
  <2>3. Calling'
    <3>1. \A c \in Threads : c # Worker =>
              callPc'[c] = callPc[c] /\ removing'[c] = removing[c]
      BY <1>1, <2>1 DEF DeferrerInv, DeferrerTypeOK, IInv, TypeOK
    <3>2. /\ making[Worker] = NoTask /\ adding[Worker] = NoTask
          /\ removing[Worker] = NoTask
      BY <2>1 DEF DeferrerInv, Calling, InDefer
    <3>3. removing'[Worker] # NoTask => callPc'[Worker] = "removing"
      BY <2>1, <3>2
    <3>4. callPc'[Worker] \notin InDefer /\ callPc'[Worker] \notin {"adding", "setting"}
      BY <2>1 DEF InDefer
    <3>5. ASSUME NEW c \in Threads
          PROVE  /\ c # Worker => callPc'[c] \notin Setting
                 /\ callPc'[c] \in InDefer <=> making'[c] # NoTask
                 /\ callPc'[c] = "adding" => adding'[c] = making'[c]
                 /\ callPc'[c] = "setting" => adding'[c] = TaskOf[top']
                 /\ callPc'[c] \notin {"adding", "setting"} => adding'[c] = NoTask
                 /\ removing'[c] # NoTask => callPc'[c] \in {"removing", "withdrawing"}
      <4>1. CASE c = Worker
        BY <1>1, <3>2, <3>3, <3>4, <4>1
      <4>2. CASE c # Worker
        BY <1>1, <3>1, <4>2 DEF DeferrerInv, Calling
      <4> QED
        BY <4>1, <4>2
    <3>6. /\ pc' = "run" /\ callPc'[Worker] \notin InDefer /\ top' \in Deferrals
      BY <1>1, <2>1, <3>4
    <3> QED
      BY <3>5, <3>6 DEF Calling
  <2>4. Cancelling'
    <3>1. \A c \in Threads : callPc[c] \notin InCancel \ {"killing"}
      BY <2>1, DoDeferIsAlive DEF InDoDefer
    <3>2. \A c \in Threads : c # Worker => callPc'[c] = callPc[c]
      BY <1>1 DEF DeferrerInv, DeferrerTypeOK
    <3>3. callPc[Worker] \notin InCancel /\ callPc'[Worker] \notin InCancel
      BY <2>1 DEF InCancel
    <3>4. tester = life
      BY <2>1, DoDeferIsAlive DEF InDoDefer
    <3>5. \A c \in Threads : callPc'[c] \notin InCancel \ {"killing"}
      BY <3>1, <3>2, <3>3
    <3> QED
      BY <1>1, <3>2, <3>3, <3>4, <3>5 DEF DeferrerInv, Cancelling, InCancel
  <2>5. Held'
    BY <1>1, <2>1 DEF DeferrerInv, Held
  <2>6. Killed'
    <3>1. ASSUME NEW t \in DeferredTasks \cap erased'
          PROVE  ~alive'[TesterOf[t]] \/ \E c \in Threads : removing'[c] = t
      <4>1. CASE t \in erased /\ ~alive[TesterOf[t]]
        BY <2>1, <4>1
      <4>2. ASSUME t \in erased, NEW c \in Threads, removing[c] = t
            PROVE  removing'[c] = t
        <5>1. c # Worker \/ UNCHANGED removing
          BY <2>1, <4>2 DEF DeferredTasks
        <5> QED
          BY <2>1, <4>2, <5>1 DEF IInv, TypeOK
      <4>3. CASE t \notin erased
        <5>1. removing'[Worker] = t
          BY <2>1, <3>1, <4>3 DEF IInv, TypeOK
        <5> QED
          BY <5>1
      <4> QED
        BY <3>1, <4>1, <4>2, <4>3 DEF DeferrerInv, Killed
    <3> QED
      BY <1>1, <2>1, <3>1 DEF DeferrerInv, Killed
  <2>7. UnderTester' /\ Final'
    BY <1>1, <2>1 DEF DeferrerInv, UnderTester, Final
  <2> QED
    BY <2>2, <2>3, <2>4, <2>5, <2>6, <2>7 DEF DeferrerInv
<1>3. CASE OldIsRemoved \/ CallbackEnds
  <2>1. /\ callPc[Worker] # "assigning" /\ callPc'[Worker] \in {"idle", "assigned"}
        /\ deferredToken' = deferredToken
        /\ UNCHANGED erased
    BY <1>3 DEF OldIsRemoved, CallbackEnds, ReleaseCallback, FinishTask, GotoCall, callVars,
                DeferrerInv, DeferrerTypeOK, Setting
  <2>2. DeferrerTypeOK'
    BY <1>1, <2>1 DEF DeferrerInv, DeferrerTypeOK
  <2>3. Cancelling'
    <3>1. \A c \in Threads : /\ callPc'[c] \in InCancel <=> callPc[c] \in InCancel
                             /\ callPc'[c] \in InCancel => callPc'[c] = callPc[c]
                             /\ callPc[c] \in InCancel => callPc'[c] = callPc[c]
      BY <1>1 DEF DeferrerInv, DeferrerTypeOK, InCancel, Setting
    <3>2. \A c \in Threads : /\ callPc'[c] \in {"withdrawing", "publishing"} =>
                                  callPc[c] \in {"withdrawing", "publishing"}
                             /\ callPc'[c] \in InCancel \ {"killing"} <=>
                                  callPc[c] \in InCancel \ {"killing"}
      BY <3>1 DEF InCancel
    <3> QED
      BY <1>1, <2>1, <3>1, <3>2 DEF DeferrerInv, Cancelling
  <2>4. UnderTester'
    BY <1>1 DEF DeferrerInv, UnderTester
  <2>5. Held'
    BY <1>1, <2>1 DEF DeferrerInv, Held
  <2>6. CASE OldIsRemoved
    <3> DEFINE r == removing[Worker]
    <3>1. /\ callPc[Worker] = "removing" /\ callPc'[Worker] = "assigned"
          /\ pc = "run" /\ pc' = "run" /\ top \in Deferrals
          /\ r \in Removable
          /\ TesterOf[r] \in Tokens
          /\ alive' = [alive EXCEPT ![TesterOf[r]] = FALSE]
          /\ removing' = [removing EXCEPT ![Worker] = NoTask]
      BY <2>6 DEF OldIsRemoved, ReleaseCallback, Kill, GotoCall, DeferrerInv, DeferrerTypeOK,
                  Calling, Setting, IInv, TypeOK
    <3>2. TesterOf[top] # TesterOf[r]
      BY <3>1
    <3>3. Calling'
      BY <1>1, <3>1, SMTT(30)
         DEF DeferrerInv, DeferrerTypeOK, Calling, InDefer, Setting, IInv, TypeOK
    <3> HIDE DEF r
    <3>4. alive \in [Tokens -> BOOLEAN] /\ \A l \in Tokens : ~alive[l] => ~alive'[l]
      BY <3>1 DEF IInv, TypeOK, LifeTypeOK
    <3>5. \A t \in DeferredTasks : t \in Removable /\ TesterOf[t] \in Tokens
      BY DEF DeferredTasks
    <3>6. Killed'
      <4>1. ASSUME NEW t \in DeferredTasks \cap erased
            PROVE  ~alive'[TesterOf[t]] \/ \E c \in Threads : removing'[c] = t
        <5>1. CASE t = r
          BY <3>1, <3>4, <5>1
        <5>2. CASE t # r /\ ~alive[TesterOf[t]]
          BY <3>4, <3>5, <5>2
        <5>3. ASSUME t # r, NEW c \in Threads, removing[c] = t
              PROVE  removing'[c] = t
          BY <3>1, <5>3 DEF r, IInv, TypeOK
        <5> QED
          BY <5>1, <5>2, <5>3 DEF DeferrerInv, Killed
      <4>2. TesterOf[top] \in Tokens => alive'[TesterOf[top]]
        BY <3>1, <3>2, <3>4 DEF DeferrerInv, Killed
      <4> QED
        BY <1>1, <2>1, <4>1, <4>2 DEF Killed
    <3>7. Final'
      BY <1>1, <2>1, <3>4 DEF DeferrerInv, DeferrerTypeOK, Final
    <3> QED
      BY <2>2, <2>3, <2>4, <2>5, <3>3, <3>6, <3>7 DEF DeferrerInv
  <2>7. CASE CallbackEnds
    <3>1. /\ pc = "run" /\ pc' = "executed"
          /\ callPc[Worker] \in {"idle", "assigned"} /\ callPc'[Worker] = "idle"
          /\ UNCHANGED <<alive, removing>>
      BY <2>7 DEF CallbackEnds, FinishTask, FinishExecution, GotoCall, lifeVars, callVars,
                  DeferrerInv, DeferrerTypeOK
    <3>2. Calling'
      BY <1>1, <3>1 DEF DeferrerInv, DeferrerTypeOK, Calling, InDefer, Setting
    <3>3. Killed' /\ Final'
      BY <1>1, <2>1, <3>1 DEF DeferrerInv, Killed, Final
    <3> QED
      BY <2>2, <2>3, <2>4, <2>5, <3>2, <3>3 DEF DeferrerInv
  <2> QED
    BY <1>3, <2>6, <2>7
<1> QED
  BY <1>2, <1>3

\* ... and is cancelled.
LEMMA CancelInv ==
  ASSUME IInv, IInv', DeferrerInv, NEW c \in Clients, LockCancel(c) \/ CancelStep(c)
  PROVE  DeferrerInv'
<1> USE ThreadsAssumption, TasksAssumption, DeferralsAssumption, LifeTokensAssumption,
        TestersAssumption, NoThreadAssumption
<1>1. /\ UNCHANGED <<added, adding, top, pc, making>>
      /\ callPc[c] \in {"idle"} \cup InCancel
      /\ callPc'[c] \in {"idle"} \cup InCancel
      /\ callPc' = [callPc EXCEPT ![c] = callPc'[c]]
      /\ c \in Threads /\ c # Worker
  BY DEF LockCancel, CancelStep, ResetLife, ResetToken, TaskIsRemoved, ReturnFromCancel,
         Erase, ReleaseCallback, ReleaseTester,
         GotoCall, vars, callVars, histVars, InCancel, DeferrerInv, DeferrerTypeOK
<1>2. /\ \A e \in Threads : e # c => callPc'[e] = callPc[e]
      /\ canceller \in {c, NoThread}
      /\ \A e \in Threads : e # c => callPc[e] \notin InCancel /\ callPc'[e] \notin InCancel
  <2>1. \A e \in Threads : e # c => callPc'[e] = callPc[e]
    BY <1>1 DEF DeferrerInv, DeferrerTypeOK
  <2>2. canceller \in {c, NoThread}
    BY <1>1 DEF LockCancel, CancelStep, ResetLife, ResetToken, TaskIsRemoved,
                ReturnFromCancel, InCancel, DeferrerInv, Cancelling
  <2> QED
    BY <2>1, <2>2 DEF DeferrerInv, Cancelling
<1>3. DeferrerTypeOK'
  <2>1. callPc' \in [Threads -> {"idle"} \cup InCancel \cup InDefer \cup Setting]
    BY <1>1 DEF DeferrerInv, DeferrerTypeOK
  <2>2. UNCHANGED final \/ final' = final \cup (added \cap Deferrals)
    BY DEF LockCancel, CancelStep, ResetLife, ResetToken, TaskIsRemoved, ReturnFromCancel
  <2>3. /\ life' \in LifeTokens /\ tester' \in LifeTokens
        /\ deferredToken' \in DeferredTasks \cup {NoTask}
        /\ canceller' \in Clients \cup {NoThread}
        /\ used' \in SUBSET LifeTokens
    BY DEF LockCancel, CancelStep, ResetLife, ResetToken, TaskIsRemoved, ReturnFromCancel,
           DeferrerInv, DeferrerTypeOK
  <2> QED
    BY <1>1, <2>1, <2>2, <2>3 DEF DeferrerInv, DeferrerTypeOK
<1>4. \A t : t \in added \ erased' => t \in added \ erased
  BY DEF LockCancel, CancelStep, ResetLife, ResetToken, TaskIsRemoved, ReturnFromCancel,
         Erase, ReleaseCallback, ReleaseTester, vars, callVars
<1>5. ASSUME NEW set \in {NoTask} \cup Removable,
             removing' = [removing EXCEPT ![c] = set],
             set # NoTask => callPc'[c] = "withdrawing"
      PROVE  Calling'
  <2>1. removing'[c] = set /\ \A e \in Threads : e # c => removing'[e] = removing[e]
    BY <1>1, <1>5 DEF IInv, TypeOK
  <2> QED
    BY <1>1, <1>2, <1>5, <2>1
       DEF DeferrerInv, DeferrerTypeOK, Calling, InCancel, InDefer, Setting
<1>6. CASE LockCancel(c)
  <2>1. /\ callPc[c] = "idle" /\ callPc'[c] = "killing" /\ canceller' = c
        /\ UNCHANGED <<alive, erased, released, removing, life, tester, deferredToken,
                       used, final>>
    BY <1>1, <1>6 DEF LockCancel, GotoCall, vars, lifeVars, callVars, histVars,
       DeferrerInv, DeferrerTypeOK
  <2>2. Cancelling'
    BY <1>1, <1>2, <2>1 DEF DeferrerInv, Cancelling, InCancel
  <2>3. Calling'
    <3>1. removing' = [removing EXCEPT ![c] = NoTask]
      BY <1>1, <2>1 DEF DeferrerInv, Calling, IInv, TypeOK
    <3> QED
      BY <1>5, <3>1
  <2>4. UnderTester' /\ Held' /\ Killed' /\ Final'
    BY <1>1, <1>2, <2>1 DEF DeferrerInv, UnderTester, Held, Killed, Final
  <2> QED
    BY <1>3, <2>2, <2>3, <2>4 DEF DeferrerInv
<1>7. CASE ResetLife(c)
  <2>1. /\ callPc[c] = "killing" /\ callPc'[c] = "resetting"
        /\ life' \in LifeTokens \ used /\ used' = used \cup {life'}
        /\ alive' = [alive EXCEPT ![life] = FALSE] /\ released' = released \cup {life}
        /\ UNCHANGED <<erased, removing, tester, deferredToken, canceller, final>>
    BY <1>7 DEF ResetLife, ReleaseTester, Kill, GotoCall, callVars, DeferrerInv, DeferrerTypeOK
  <2>2. tester = life /\ tester # life' /\ tester \in Tokens
    BY <1>1, <1>2, <2>1 DEF DeferrerInv, DeferrerTypeOK, Cancelling
  <2>3. Cancelling'
    BY <1>1, <1>2, <2>1, <2>2 DEF DeferrerInv, Cancelling, InCancel
  <2>4. Calling'
    <3>1. removing' = [removing EXCEPT ![c] = NoTask]
      BY <1>1, <2>1 DEF DeferrerInv, Calling, IInv, TypeOK
    <3> QED
      BY <1>5, <3>1
  <2>5. UnderTester' /\ Held'
    BY <1>1, <1>2, <2>1 DEF DeferrerInv, UnderTester, Held
  <2>6. alive \in [Tokens -> BOOLEAN]
    BY DEF IInv, TypeOK, LifeTypeOK
  <2>7. \A l \in Tokens : l # life => alive'[l] = alive[l]
    BY <2>1, <2>6
  <2>8. \A l \in Tokens : ~alive[l] => ~alive'[l]
    BY <2>1, <2>6
  <2>9. ~(pc = "run" /\ TesterOf[top] = life)
    BY <1>7, <2>2, KilledOutside DEF ResetLife, ReleaseTester
  <2>10. \A d \in Deferrals : TesterOf[TaskOf[d]] \in Tokens
    OBVIOUS
  <2>11. Killed'
    BY <1>1, <2>1, <2>7, <2>8, <2>9, <2>10 DEF DeferrerInv, Killed, DeferredTasks
  <2>12. Final'
    BY <1>1, <2>1, <2>8, <2>10 DEF DeferrerInv, DeferrerTypeOK, Final
  <2> QED
    BY <1>3, <2>3, <2>4, <2>5, <2>11, <2>12 DEF DeferrerInv
<1>8. CASE ResetToken(c)
  <2>1. /\ callPc[c] = "resetting" /\ deferredToken' = NoTask
        /\ UNCHANGED <<alive, released, life, tester, canceller, used, final>>
        /\ \/ /\ deferredToken = NoTask /\ callPc'[c] = "publishing"
              /\ UNCHANGED <<erased, removing>>
           \/ /\ deferredToken # NoTask /\ callPc'[c] = "withdrawing"
              /\ erased' = erased \cup {deferredToken}
              /\ removing' = [removing EXCEPT ![c] = deferredToken]
              /\ removing[c] = NoTask
    BY <1>8 DEF ResetToken, Erase, GotoCall, vars, lifeVars, callVars, histVars,
                DeferrerInv, DeferrerTypeOK
  <2>2. Cancelling'
    BY <1>1, <1>2, <2>1 DEF DeferrerInv, Cancelling, InCancel
  <2>3. Calling'
    <3>1. \/ removing' = [removing EXCEPT ![c] = NoTask]
          \/ /\ deferredToken \in Removable /\ callPc'[c] = "withdrawing"
             /\ removing' = [removing EXCEPT ![c] = deferredToken]
      <4>1. deferredToken \in Removable \cup {NoTask}
        BY DEF DeferrerInv, DeferrerTypeOK, DeferredTasks
      <4>2. removing \in [Threads -> Removable \cup {NoTask}] /\ removing[c] = NoTask
        BY <1>1, <2>1 DEF DeferrerInv, Calling, IInv, TypeOK
      <4> QED
        BY <1>1, <2>1, <4>1, <4>2
    <3> QED
      BY <1>5, <3>1
  <2>4. UnderTester'
    BY <1>1, <2>1 DEF DeferrerInv, UnderTester
  <2>5. Held'
    BY <1>1, <1>2, <2>1 DEF DeferrerInv, Held
  <2>6. Killed'
    <3>1. ASSUME NEW t \in DeferredTasks \cap erased'
          PROVE  ~alive'[TesterOf[t]] \/ \E e \in Threads : removing'[e] = t
      <4>1. CASE t \in erased /\ ~alive[TesterOf[t]]
        BY <2>1, <4>1
      <4>2. ASSUME t \in erased, NEW e \in Threads, removing[e] = t
            PROVE  removing'[e] = t
        <5>1. e # c \/ UNCHANGED removing
          BY <2>1, <4>2 DEF DeferredTasks
        <5> QED
          BY <2>1, <4>2, <5>1 DEF IInv, TypeOK
      <4>3. CASE t \notin erased
        <5>1. removing'[c] = t
          BY <1>1, <2>1, <3>1, <4>3 DEF IInv, TypeOK
        <5> QED
          BY <1>1, <5>1
      <4> QED
        BY <3>1, <4>1, <4>2, <4>3 DEF DeferrerInv, Killed
    <3> QED
      BY <1>1, <2>1, <3>1 DEF DeferrerInv, Killed
  <2>7. Final'
    BY <1>1, <2>1 DEF DeferrerInv, Final
  <2> QED
    BY <1>3, <2>2, <2>3, <2>4, <2>5, <2>6, <2>7 DEF DeferrerInv
<1>9. CASE TaskIsRemoved(c)
  <2> DEFINE r == removing[c]
  <2>1. /\ callPc[c] = "withdrawing" /\ callPc'[c] = "publishing"
        /\ r \in Removable /\ TesterOf[r] \in Tokens
        /\ Kill(TesterOf[r], c)
        /\ alive' = [alive EXCEPT ![TesterOf[r]] = FALSE]
        /\ removing' = [removing EXCEPT ![c] = NoTask]
        /\ released \subseteq released' /\ released' \subseteq released \cup {TesterOf[r]}
        /\ UNCHANGED <<erased, life, tester, deferredToken, canceller, used, final>>
    BY <1>9 DEF TaskIsRemoved, ReleaseCallback, Kill, GotoCall, DeferrerInv, DeferrerTypeOK,
                IInv, TypeOK
  <2>2. ~(pc = "run" /\ TesterOf[top] = TesterOf[r])
    BY <2>1, KilledOutside
  <2> HIDE DEF r
  <2>3. alive \in [Tokens -> BOOLEAN]
    BY DEF IInv, TypeOK, LifeTypeOK
  <2>4. /\ \A l \in Tokens : l # TesterOf[r] => alive'[l] = alive[l]
        /\ \A l \in Tokens : ~alive[l] => ~alive'[l]
        /\ ~alive'[TesterOf[r]]
    BY <2>1, <2>3
  <2>5. Cancelling'
    BY <1>1, <1>2, <2>1 DEF DeferrerInv, Cancelling, InCancel
  <2>6. removing \in [Threads -> Removable \cup {NoTask}]
    BY DEF IInv, TypeOK
  <2>7. removing'[c] = NoTask /\ \A e \in Threads : e # c => removing'[e] = removing[e]
    BY <1>1, <2>1, <2>6
  <2>8. Calling'
    BY <1>5, <2>1
  <2>9. UnderTester' /\ Held'
    BY <1>1, <1>2, <2>1 DEF DeferrerInv, UnderTester, Held
  <2>10. Killed'
    <3>1. ASSUME NEW t \in DeferredTasks \cap erased
          PROVE  ~alive'[TesterOf[t]] \/ \E e \in Threads : removing'[e] = t
      <4>1. TesterOf[t] \in Tokens
        BY DEF DeferredTasks
      <4>2. CASE t = r
        BY <2>4, <4>2
      <4>3. CASE ~alive[TesterOf[t]]
        BY <2>4, <4>1, <4>3
      <4>4. ASSUME t # r, NEW e \in Threads, removing[e] = t PROVE removing'[e] = t
        BY <2>7, <4>4 DEF r
      <4> QED
        BY <4>2, <4>3, <4>4 DEF DeferrerInv, Killed
    <3> QED
      BY <1>1, <2>1, <2>2, <2>4, <3>1 DEF DeferrerInv, Killed
  <2>11. \A d \in Deferrals : TesterOf[TaskOf[d]] \in Tokens
    OBVIOUS
  <2>12. Final'
    BY <1>1, <2>1, <2>4, <2>11 DEF DeferrerInv, DeferrerTypeOK, Final
  <2> QED
    BY <1>3, <2>5, <2>8, <2>9, <2>10, <2>12 DEF DeferrerInv
<1>10. CASE ReturnFromCancel(c)
  <2>1. /\ callPc[c] = "publishing" /\ callPc'[c] = "idle"
        /\ tester' = life /\ canceller' = NoThread
        /\ final' = final \cup (added \cap Deferrals)
        /\ UNCHANGED <<alive, erased, released, removing, life, deferredToken, used>>
    BY <1>10 DEF ReturnFromCancel, GotoCall, vars, lifeVars, callVars, histVars,
                 DeferrerInv, DeferrerTypeOK
  <2>2. /\ deferredToken = NoTask /\ tester # life /\ tester \in released
    BY <1>1, <2>1 DEF DeferrerInv, Cancelling, InCancel
  <2>3. Cancelling'
    BY <1>1, <1>2, <2>1 DEF DeferrerInv, Cancelling, InCancel
  <2>4. Calling'
    <3>1. removing' = [removing EXCEPT ![c] = NoTask]
      BY <1>1, <2>1 DEF DeferrerInv, Calling, IInv, TypeOK
    <3> QED
      BY <1>5, <3>1
  <2>5. UnderTester'
    BY <1>1, <2>1, <2>2 DEF DeferrerInv, UnderTester
  <2>6. Held' /\ Killed'
    BY <1>1, <1>2, <2>1 DEF DeferrerInv, Held, Killed
  <2>7. Final'
    <3>1. ~InDoDefer
      BY <2>2, DoDeferIsAlive
    <3>2. callPc[Worker] \notin Setting
      BY <3>1 DEF InDoDefer, DeferrerInv, Calling, Setting
    <3>3. \A e \in Threads : removing[e] = NoTask
      <4> SUFFICES ASSUME NEW e \in Threads PROVE removing[e] = NoTask
        OBVIOUS
      <4>1. callPc[e] \notin {"removing", "withdrawing"}
        BY <1>2, <2>1, <3>2 DEF InCancel, Setting, DeferrerInv, Calling
      <4> QED
        BY <4>1 DEF DeferrerInv, Calling
    <3>4. ASSUME NEW d \in Deferrals, TaskOf[d] \in added
          PROVE  TaskOf[d] \in erased /\ ~alive[TesterOf[TaskOf[d]]]
      <4>1. TaskOf[d] \in erased
        BY <2>2, <3>2, <3>4 DEF DeferrerInv, Held, Setting
      <4>2. TaskOf[d] # NoTask /\ TaskOf[d] \in DeferredTasks
        BY DEF DeferredTasks
      <4> QED
        BY <3>3, <4>1, <4>2 DEF DeferrerInv, Killed
    <3>5. ASSUME NEW d \in Deferrals, d \in added PROVE TesterOf[d] \in released
      BY <2>2, <3>5 DEF DeferrerInv, UnderTester
    <3> QED
      BY <1>1, <2>1, <3>4, <3>5 DEF DeferrerInv, Final
  <2> QED
    BY <1>3, <2>3, <2>4, <2>5, <2>6, <2>7 DEF DeferrerInv
<1> QED
  BY <1>6, <1>7, <1>8, <1>9, <1>10 DEF CancelStep

\* ... It keeps the timer's invariant and its own with every step.
LEMMA DeferrerNextInv ==
  IInv /\ DeferrerInv /\ [DeferrerNext]_allVars => IInv' /\ DeferrerInv' /\ [Next]_vars
<1> SUFFICES ASSUME IInv, DeferrerInv, [DeferrerNext]_allVars
             PROVE  IInv' /\ DeferrerInv' /\ [Next]_vars
  OBVIOUS
<1>1. CASE DeferrerNext
  <2>1. [Next]_vars
    BY <1>1, StepOfTimer
  <2>2. IInv'
    BY <2>1, NextInv
  <2>3. CASE (Tick \/ WakeSpuriously) /\ UNCHANGED deferrerVars
    BY <2>1, <2>2, <2>3, TimerStepInv
  <2>4. CASE TimerStep
    BY <2>1, <2>2, <2>4, TimerStepInv DEF TimerStep
  <2>5. ASSUME NEW c \in Threads, DeferStep(c) \/ \E d \in Deferrals : GetTester(c, d)
        PROVE  DeferrerInv'
    BY <2>2, <2>5, DeferInv
  <2>6. CASE DoDeferStep
    BY <2>1, <2>2, <2>6, DoDeferInv, ReplaceInv DEF DoDeferStep
  <2>7. ASSUME NEW c \in Clients, LockCancel(c) \/ CancelStep(c)
        PROVE  DeferrerInv'
    BY <2>2, <2>7, CancelInv
  <2> QED
    BY <1>1, <2>1, <2>2, <2>3, <2>4, <2>5, <2>6, <2>7 DEF DeferrerNext
<1>2. CASE UNCHANGED allVars
  <2>1. UNCHANGED vars /\ UNCHANGED deferrerVars
    BY <1>2 DEF allVars
  <2>2. IInv'
    BY <2>1, NextInv
  <2>3. DeferrerInv'
    BY <2>1 DEF vars, lifeVars, callVars, histVars, deferrerVars, DeferrerInv, DeferrerTypeOK,
       Cancelling, Calling, UnderTester, Held, Killed, Final
  <2> QED
    BY <2>1, <2>2, <2>3
<1> QED
  BY <1>1, <1>2

\* Both invariants hold always.
LEMMA DeferrerInvariance == DeferrerSpec => [](IInv /\ DeferrerInv)
<1> QED
  BY DeferrerInitInv, DeferrerNextInv, PTL DEF DeferrerSpec

-----------------------------------------------------------------------------
(***************************************************************************)
(* The deferrer uses the timer as any client may: whatever it does is a    *)
(* behaviour of the timer, for which all that is proved above holds.       *)
(***************************************************************************)
THEOREM DeferrerUsesTimer == DeferrerSpec => Spec
<1>1. DeferrerInit => Init
  BY DEF DeferrerInit
<1>2. IInv /\ DeferrerInv /\ [DeferrerNext]_allVars => [Next]_vars
  BY DeferrerNextInv
<1> QED
  BY <1>1, <1>2, DeferrerInvariance, PTL DEF DeferrerSpec, Spec

(***************************************************************************)
(* After a Cancel nothing of what had been deferred runs or is set, and a  *)
(* task that is set is always in the token that a Cancel resets, which no  *)
(* DoDefer assigns meanwhile, for any number of deferrals, of Cancels and  *)
(* of threads in them (ExecutionDeferrer.cpp:25-34, 57-63).                *)
(***************************************************************************)
THEOREM NothingEscapesCancelAlways == DeferrerSpec => []NothingEscapesCancel
<1>1. IInv /\ DeferrerInv => NothingEscapesCancel
  <2> SUFFICES ASSUME IInv, DeferrerInv PROVE CancelIsFinal /\ HeldByItsToken
    BY DEF NothingEscapesCancel
  <2> USE TasksAssumption, DeferralsAssumption
  <2>1. Queued \subseteq added \ erased
    BY DEF IInv, Places
  <2>2. ASSUME NEW d \in final
        PROVE  ~(pc = "run" /\ top \in {d, TaskOf[d]}) /\ TaskOf[d] \notin Queued
    <3>1. /\ d \in Deferrals /\ TesterOf[d] \in released
          /\ TaskOf[d] \in added => TaskOf[d] \in erased /\ ~alive[TesterOf[TaskOf[d]]]
      BY DEF DeferrerInv, DeferrerTypeOK, Final
    <3>2. ~(pc = "run" /\ top = d)
      BY <3>1 DEF IInv, NothingRunsAfterRemoval
    <3>3. ASSUME pc = "run", top = TaskOf[d] PROVE FALSE
      <4>1. top \in added /\ TesterOf[top] \in Tokens
        BY <3>1, <3>3, TestersAssumption DEF IInv, Places
      <4> QED
        BY <3>1, <3>3, <4>1 DEF DeferrerInv, Killed
    <3> QED
      BY <2>1, <3>1, <3>2, <3>3
  <2>3. ASSUME NEW d \in Deferrals, TaskOf[d] \in Queued
        PROVE  deferredToken = TaskOf[d] \/ (pc = "run" /\ top = d)
    BY <2>1, <2>3 DEF DeferrerInv, Held, Calling
  <2>4. ASSUME InDoDefer, NEW c \in Clients
        PROVE  callPc[c] \notin {"resetting", "withdrawing"}
    BY <2>4, DoDeferIsAlive, ThreadsAssumption DEF InCancel
  <2> QED
    BY <2>2, <2>3, <2>4 DEF CancelIsFinal, HeldByItsToken
<1> QED
  BY <1>1, DeferrerInvariance, PTL
==============================================================================
