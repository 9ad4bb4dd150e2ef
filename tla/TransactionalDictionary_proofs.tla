-------------------- MODULE TransactionalDictionary_proofs --------------------
(***************************************************************************)
(* Proofs about TransactionalDictionary, for any threads, keys and values, *)
(* any number of enumerators, observers and watched keys: no waiting       *)
(* constructor is forgotten, held enumerators do not change, what a        *)
(* transaction answers agrees with the map it stands for, observers have   *)
(* the content, and the dictionary implements DictionaryStore.             *)
(*                                                                         *)
(* That a commit appears at once rests on what the maps say of each other. *)
(* Halfway: while a commit is under way the items are the old ones, less   *)
(* what was removed and with some of what was added, and what has still to *)
(* be added is known; so the view is constant and is the items at the end. *)
(* Matched: a key that is added over one that is there is also removed,    *)
(* so removing it again leaves nothing, and what is removed is there.      *)
(* NotHeld: the items that a commit changes item by item are in no         *)
(* snapshot.                                                               *)
(*                                                                         *)
(* That an enumerator gives the entries in order rests on how far its      *)
(* three iterators are (WalkSound): what has not been given is what they   *)
(* still reach, and the removed entries are passed with their items. That  *)
(* observers have the content rests on what each should have heard of the  *)
(* diff so far (Heard), in which a removed entry comes before an added one *)
(* with the same key (DiffAgrees).                                         *)
(***************************************************************************)
EXTENDS TransactionalDictionary, FiniteSetTheorems, WellFoundedInduction, TLAPS

Committing == \E c \in Clients : pc[c] \in {"adding", "announcing"}
Announcing == \E c \in Clients : pc[c] = "announcing"

\* One transaction at a time, and Guard is held during its commit.
OneOwner ==
    /\ \A c, d \in Clients : InTransaction(c) /\ InTransaction(d) => c = d
    /\ \A c \in Clients : InTransaction(c) => hasTransaction
    /\ \A c \in Clients : pc[c] \in {"adding", "announcing"} => guard = c
    /\ ~hasTransaction => added = EmptyMap /\ removed = EmptyMap /\ ~torn

Stored == Committing \/ (store = items /\ todo = {})

Halfway ==
    Committing => \A k \in Keys :
        /\ k \in todo =>
               /\ added[k] # NoValue
               /\ items[k] = IF removed[k] = NoValue THEN store[k] ELSE NoValue
        /\ k \notin todo /\ added[k] # NoValue => items[k] = added[k]
        /\ added[k] = NoValue =>
               items[k] = IF removed[k] = NoValue THEN store[k] ELSE NoValue
        /\ items[k] \in {store[k], added[k], NoValue}

Matched ==
    \/ torn
    \/ \E c \in Clients : pc[c] = "announced"
    \/ \A k \in Keys :
          /\ added[k] # NoValue /\ store[k] # NoValue => removed[k] # NoValue
          /\ removed[k] # NoValue => removed[k] = store[k]

NotHeld ==
    Committing => \A e \in Enumerators :
        snaps[e] # NoSnapshot => snaps[e]["items"] # Live

\* An iterator has not left a key behind.
Reaches(p, k, asc) == p # PastEnd /\ ~Before(asc, k, p)

\* The iterators of a diff: of two entries with one key the removed one comes
\* first.
DiffAgrees(d, a, r) ==
    /\ d.added \in Entries(a) \cup {PastEnd}
    /\ d.removed \in Entries(r) \cup {PastEnd}
    /\ \A k \in Entries(a) \cap Entries(r) :
           Reaches(d.removed, k, TRUE) => Reaches(d.added, k, TRUE)

DiffSound == Announcing => todo = {} /\ DiffAgrees(diff, added, removed)

StoreInv == OneOwner /\ Stored /\ Halfway /\ Matched /\ DiffSound

\* The maps of a transaction agree: what is added over an item replaces it,
\* and what is removed is an item.
MapsAgree(i, a, r) ==
    \A k \in Keys : /\ a[k] # NoValue /\ i[k] # NoValue => r[k] # NoValue
                    /\ r[k] # NoValue => i[k] # NoValue

\* How far the iterators of an enumerator are, by what it has not given yet.
\* The removed entries are passed together with their items.
WalkSound(w, i, a, r) ==
    /\ w.items \in Entries(i) \cup {PastEnd}
    /\ w.added \in Entries(a) \cup {PastEnd}
    /\ w.removed \in Entries(r) \cup {PastEnd}
    /\ \A k \in Entries(r) :
           Reaches(w.removed, k, w.ascending) <=> Reaches(w.items, k, w.ascending)
    /\ \A k \in Entries(a) : k \in w.ahead <=> Reaches(w.added, k, w.ascending)
    /\ \A k \in Entries(i) \ Entries(r) :
           k \in w.ahead <=> Reaches(w.items, k, w.ascending)

-----------------------------------------------------------------------------
(* Iterators *)

\* A direction orders the keys.
LEMMA BeforeOrders ==
  ASSUME NEW asc \in BOOLEAN, NEW i \in Keys, NEW j \in Keys, NEW k \in Keys
  PROVE  /\ ~Before(asc, i, i)
         /\ Before(asc, i, j) /\ Before(asc, j, k) => Before(asc, i, k)
         /\ Before(asc, i, j) => ~Before(asc, j, i)
         /\ i = j \/ Before(asc, i, j) \/ Before(asc, j, i)
<1>1. i \in Int /\ j \in Int /\ k \in Int
  BY KeysAssumption
<1> QED
  BY <1>1 DEF Before

\* Some keys, if there are any, have a first one.
LEMMA FirstExists ==
  ASSUME NEW asc \in BOOLEAN, NEW S \in SUBSET Keys, S # {}
  PROVE  \E k \in S : \A j \in S : ~Before(asc, j, k)
<1> DEFINE Has(T) == \E k \in T : \A j \in T : ~Before(asc, j, k)
           Bad == {T \in SUBSET Keys : T # {} /\ ~Has(T)}
<1> SUFFICES ASSUME Bad # {} PROVE FALSE
  BY DEF Bad, Has
<1>1. Bad \subseteq FiniteSubsetsOf(Keys)
  BY KeysAssumption, FS_Subset DEF FiniteSubsetsOf
<1>2. IsWellFoundedOn(StrictSubsetOrdering(Keys), FiniteSubsetsOf(Keys))
  BY FS_StrictSubsetOrderingWellFounded
<1>3. PICK T \in Bad : \A U \in Bad : <<U, T>> \notin StrictSubsetOrdering(Keys)
  <2> HIDE DEF Bad
  <2> QED
    BY <1>1, <1>2, WFMin
<1>4. T \in SUBSET Keys /\ T # {} /\ ~Has(T)
  BY DEF Bad
<1>5. PICK x \in T : TRUE
  BY <1>4
<1>6. T \ {x} \notin Bad
  BY <1>3, <1>4, <1>5 DEF StrictSubsetOrdering
<1>7. CASE T \ {x} = {}
  <2>1. T = {x}
    BY <1>5, <1>7
  <2>2. Has(T)
    BY <2>1, <1>4, BeforeOrders DEF Has
  <2> QED
    BY <2>2, <1>4
<1>8. CASE T \ {x} # {}
  <2>1. PICK y \in T \ {x} : \A j \in T \ {x} : ~Before(asc, j, y)
    BY <1>4, <1>6, <1>8 DEF Bad, Has
  <2>2. CASE Before(asc, x, y)
    <3>1. \A j \in T : ~Before(asc, j, x)
      BY <1>4, <1>5, <2>1, <2>2, BeforeOrders
    <3> QED
      BY <3>1, <1>4, <1>5 DEF Has
  <2>3. CASE ~Before(asc, x, y)
    <3>1. \A j \in T : ~Before(asc, j, y)
      BY <2>1, <2>3
    <3> QED
      BY <3>1, <1>4, <2>1 DEF Has
  <2> QED
    BY <2>2, <2>3
<1> QED
  BY <1>7, <1>8

\* What First gives ...
LEMMA FirstIs ==
  ASSUME NEW asc \in BOOLEAN, NEW S \in SUBSET Keys
  PROVE  /\ S = {} => First(S, asc) = PastEnd
         /\ S # {} => /\ First(S, asc) \in S
                      /\ \A j \in S : ~Before(asc, j, First(S, asc))
<1>1. CASE S = {}
  BY <1>1 DEF First
<1>2. CASE S # {}
  <2>1. First(S, asc) = CHOOSE k \in S : \A j \in S : ~Before(asc, j, k)
    BY <1>2 DEF First
  <2> QED
    BY <1>2, <2>1, FirstExists
<1> QED
  BY <1>1, <1>2

\* Iterators have positions.
LEMMA FirstType ==
  ASSUME NEW asc \in BOOLEAN, NEW S \in SUBSET Keys
  PROVE  First(S, asc) \in Positions
  BY FirstIs DEF Positions

LEMMA FollowingType ==
  ASSUME NEW asc \in BOOLEAN, NEW m, NEW k
  PROVE  Following(m, k, asc) \in Positions
<1>1. {j \in Entries(m) : Before(asc, k, j)} \in SUBSET Keys
  BY DEF Entries
<1> QED
  BY <1>1, FirstType DEF Following

\* The first of some keys is the only one of them that none is before.
LEMMA FirstOnly ==
  ASSUME NEW asc \in BOOLEAN, NEW S \in SUBSET Keys, NEW k \in S,
         \A j \in S : ~Before(asc, j, k)
  PROVE  First(S, asc) = k
<1>1. First(S, asc) \in S /\ \A j \in S : ~Before(asc, j, First(S, asc))
  BY FirstIs
<1> QED
  BY <1>1, BeforeOrders

\* An iterator over the keys from one on reaches just those of the map ...
LEMMA BeginReaches ==
  ASSUME NEW asc \in BOOLEAN, NEW m, NEW S \in SUBSET Keys,
         \A j \in S, k \in Keys : Before(asc, j, k) => k \in S
  PROVE  LET p == First(Entries(m) \cap S, asc)
         IN  /\ p \in Entries(m) \cup {PastEnd}
             /\ \A k \in Entries(m) : Reaches(p, k, asc) <=> k \in S
<1> DEFINE T == Entries(m) \cap S
           p == First(T, asc)
<1>1. T \in SUBSET Keys /\ Entries(m) \subseteq Keys
  BY DEF Entries
<1>2. CASE T = {}
  <2>1. p = PastEnd
    BY <1>1, <1>2, FirstIs
  <2> QED
    BY <1>2, <2>1 DEF Reaches
<1>3. CASE T # {}
  <2>1. p \in T /\ \A j \in T : ~Before(asc, j, p)
    BY <1>1, <1>3, FirstIs
  <2>2. p # PastEnd
    BY <1>1, <2>1, PastEndAssumption
  <2>3. ASSUME NEW k \in Entries(m) PROVE Reaches(p, k, asc) <=> k \in S
    <3>1. CASE k \in S
      BY <2>1, <2>2, <3>1 DEF Reaches
    <3>2. CASE k \notin S
      <4>1. ~Before(asc, p, k) /\ p # k
        BY <1>1, <2>1, <3>2
      <4>2. Before(asc, k, p)
        BY <1>1, <2>1, <4>1, BeforeOrders
      <4> QED
        BY <3>2, <4>2 DEF Reaches
    <3> QED
      BY <3>1, <3>2
  <2> QED
    BY <2>1, <2>3
<1> QED
  BY <1>2, <1>3

\* ... and when it goes on, those behind the key it has left.
LEMMA FollowingReaches ==
  ASSUME NEW asc \in BOOLEAN, NEW m, NEW k \in Keys
  PROVE  /\ Following(m, k, asc) \in Entries(m) \cup {PastEnd}
         /\ \A j \in Entries(m) : Reaches(Following(m, k, asc), j, asc) <=> Before(asc, k, j)
<1> DEFINE S == {j \in Keys : Before(asc, k, j)}
<1>1. \A i \in S, j \in Keys : Before(asc, i, j) => j \in S
  BY BeforeOrders
<1>2. Following(m, k, asc) = First(Entries(m) \cap S, asc)
  <2>1. {j \in Entries(m) : Before(asc, k, j)} = Entries(m) \cap S
    BY DEF Entries
  <2> QED
    BY <2>1 DEF Following
<1>3. S \in SUBSET Keys
  OBVIOUS
<1>4. \A j \in Entries(m) : j \in Keys
  BY DEF Entries
<1> HIDE DEF S
<1>5. /\ Following(m, k, asc) \in Entries(m) \cup {PastEnd}
      /\ \A j \in Entries(m) : Reaches(Following(m, k, asc), j, asc) <=> j \in S
  BY <1>1, <1>2, <1>3, BeginReaches
<1> QED
  BY <1>4, <1>5 DEF S

\* The keys of entries are keys.
LEMMA EntriesAreKeys ==
  ASSUME NEW m, NEW k \in Entries(m)
  PROVE  k \in Keys /\ k # PastEnd /\ m[k] # NoValue
  BY PastEndAssumption DEF Entries

\* An iterator is at the first of the keys that it reaches.
LEMMA ReachesSelf ==
  ASSUME NEW asc \in BOOLEAN, NEW k \in Keys
  PROVE  Reaches(k, k, asc)
  BY BeforeOrders, PastEndAssumption DEF Reaches

\* An enumerator at an item: it is not removed, and the added ones come later.
LEMMA AtItem ==
  ASSUME NEW i, NEW a, NEW r, MapsAgree(i, a, r),
         NEW w \in Walks, WalkSound(w, i, a, r), EntryType(w) = "Items"
  PROVE  /\ w.items \in Entries(i) \ Entries(r)
         /\ w.items \notin Entries(a)
         /\ w.items \in w.ahead
         /\ \A k \in Entries(a) : Reaches(w.added, k, w.ascending)
                                      => Before(w.ascending, w.items, k)
<1> DEFINE asc == w.ascending
<1>1. asc \in BOOLEAN /\ w.ahead \in SUBSET Keys
  BY DEF Walks
<1>2. /\ w.items # PastEnd
      /\ w.added = PastEnd \/ ~Before(asc, w.added, w.items)
      /\ w.removed = PastEnd \/ Before(asc, w.items, w.removed)
  BY DEF EntryType
<1>3. w.items \in Entries(i) /\ w.items \in Keys
  BY <1>2, EntriesAreKeys DEF WalkSound
<1>4. w.items \notin Entries(r)
  <2>1. Reaches(w.items, w.items, asc)
    BY <1>1, <1>3, ReachesSelf
  <2>2. ~Reaches(w.removed, w.items, asc)
    BY <1>2 DEF Reaches
  <2> QED
    BY <2>1, <2>2 DEF WalkSound
<1>5. w.items \notin Entries(a)
  BY <1>3, <1>4 DEF MapsAgree, Entries
<1>6. w.items \in w.ahead
  BY <1>1, <1>3, <1>4, ReachesSelf DEF WalkSound
<1>7. ASSUME NEW k \in Entries(a), Reaches(w.added, k, asc)
      PROVE  Before(asc, w.items, k)
  <2>1. w.added # PastEnd /\ ~Before(asc, k, w.added)
    BY <1>7 DEF Reaches
  <2>2. w.added \in Entries(a) /\ w.added \in Keys /\ k \in Keys
    BY <2>1, EntriesAreKeys DEF WalkSound
  <2>3. w.added # w.items
    BY <1>5, <2>2
  <2>4. Before(asc, w.items, w.added)
    BY <1>1, <1>2, <1>3, <2>1, <2>2, <2>3, BeforeOrders
  <2> QED
    BY <1>1, <1>3, <2>1, <2>2, <2>4, BeforeOrders
<1> QED
  BY <1>3, <1>4, <1>5, <1>6, <1>7

\* An enumerator at an added entry: the items come later.
LEMMA AtAdded ==
  ASSUME NEW i, NEW a, NEW r, MapsAgree(i, a, r),
         NEW w \in Walks, WalkSound(w, i, a, r), EntryType(w) = "Added"
  PROVE  /\ w.added \in Entries(a)
         /\ w.added \in w.ahead
         /\ \A k \in Entries(i) : Reaches(w.items, k, w.ascending)
                                      => Before(w.ascending, w.added, k)
<1> DEFINE asc == w.ascending
<1>1. asc \in BOOLEAN
  BY DEF Walks
<1>2. /\ w.added # PastEnd
      /\ w.items = PastEnd \/ Before(asc, w.added, w.items)
  BY DEF EntryType
<1>3. w.added \in Entries(a) /\ w.added \in Keys
  BY <1>2, EntriesAreKeys DEF WalkSound
<1>4. w.added \in w.ahead
  BY <1>1, <1>3, ReachesSelf DEF WalkSound
<1>5. ASSUME NEW k \in Entries(i), Reaches(w.items, k, asc)
      PROVE  Before(asc, w.added, k)
  <2>1. w.items # PastEnd /\ ~Before(asc, k, w.items)
    BY <1>5 DEF Reaches
  <2>2. w.items \in Keys /\ k \in Keys
    BY <2>1, EntriesAreKeys DEF WalkSound
  <2> QED
    BY <1>1, <1>2, <1>3, <2>1, <2>2, BeforeOrders
<1> QED
  BY <1>3, <1>4, <1>5

\* It never finds a removed entry without its item.
LEMMA NeverBroken ==
  ASSUME NEW i, NEW a, NEW r, NEW w \in Walks, WalkSound(w, i, a, r)
  PROVE  EntryType(w) # "Broken"
<1> DEFINE asc == w.ascending
<1> SUFFICES ASSUME EntryType(w) = "Broken" PROVE FALSE
  OBVIOUS
<1>1. asc \in BOOLEAN
  BY DEF Walks
<1>2. /\ w.items # PastEnd /\ w.removed # PastEnd
      /\ ~Before(asc, w.items, w.removed) /\ w.items # w.removed
  BY DEF EntryType
<1>3. w.items \in Keys /\ w.removed \in Entries(r) /\ w.removed \in Keys
  BY <1>2, EntriesAreKeys DEF WalkSound
<1>4. Reaches(w.items, w.removed, asc)
  BY <1>1, <1>3, ReachesSelf DEF WalkSound
<1> QED
  BY <1>1, <1>2, <1>3, <1>4, BeforeOrders DEF Reaches

\* A step of the loop from an item ...
LEMMA PassItem ==
  ASSUME NEW i, NEW a, NEW r, MapsAgree(i, a, r),
         NEW w \in Walks, WalkSound(w, i, a, r), EntryType(w) = "Items",
         NEW v \in Walks,
         v = [w EXCEPT !.items = Following(i, w.items, w.ascending),
                       !.ahead = {j \in w.ahead : Before(w.ascending, w.items, j)}]
  PROVE  WalkSound(v, i, a, r)
<1> DEFINE asc == w.ascending
           k0 == w.items
<1>1. asc \in BOOLEAN /\ w.ahead \in SUBSET Keys
  BY DEF Walks
<1>2. /\ v.ascending = asc /\ v.added = w.added /\ v.removed = w.removed
      /\ v.items = Following(i, k0, asc)
      /\ v.ahead = {j \in w.ahead : Before(asc, k0, j)}
  BY DEF Walks
<1>3. /\ k0 \in Entries(i) \ Entries(r) /\ k0 \notin Entries(a) /\ k0 \in Keys
      /\ \A k \in Entries(a) : Reaches(w.added, k, asc) => Before(asc, k0, k)
  BY AtItem, EntriesAreKeys
<1>4. /\ v.items \in Entries(i) \cup {PastEnd}
      /\ \A k \in Entries(i) : Reaches(v.items, k, asc) <=> Before(asc, k0, k)
  BY <1>1, <1>2, <1>3, FollowingReaches
<1>5. \A k \in Entries(i) : k # k0 => (Reaches(w.items, k, asc) <=> Before(asc, k0, k))
  BY <1>1, <1>3, BeforeOrders, EntriesAreKeys DEF Reaches
<1>6. Entries(r) \subseteq Entries(i)
  BY DEF MapsAgree, Entries
<1>7. \A k \in Entries(r) : Reaches(v.removed, k, asc) <=> Reaches(v.items, k, asc)
  BY <1>2, <1>3, <1>4, <1>5, <1>6 DEF WalkSound
<1>8. \A k \in Entries(a) : k \in v.ahead <=> Reaches(v.added, k, asc)
  BY <1>2, <1>3 DEF WalkSound
<1>9. ASSUME NEW k \in Entries(i) \ Entries(r)
      PROVE  k \in v.ahead <=> Reaches(v.items, k, asc)
  <2>1. k \in v.ahead <=> Reaches(w.items, k, asc) /\ Before(asc, k0, k)
    BY <1>2 DEF WalkSound
  <2>2. Before(asc, k0, k) => k # k0
    BY <1>1, <1>3, BeforeOrders
  <2> QED
    BY <1>4, <1>5, <2>1, <2>2
<1> QED
  BY <1>2, <1>4, <1>7, <1>8, <1>9 DEF WalkSound

\* ... from an added entry ...
LEMMA PassAdded ==
  ASSUME NEW i, NEW a, NEW r, MapsAgree(i, a, r),
         NEW w \in Walks, WalkSound(w, i, a, r), EntryType(w) = "Added",
         NEW v \in Walks,
         v = [w EXCEPT !.added = Following(a, w.added, w.ascending),
                       !.ahead = {j \in w.ahead : Before(w.ascending, w.added, j)}]
  PROVE  WalkSound(v, i, a, r)
<1> DEFINE asc == w.ascending
           k0 == w.added
<1>1. asc \in BOOLEAN /\ w.ahead \in SUBSET Keys
  BY DEF Walks
<1>2. /\ v.ascending = asc /\ v.items = w.items /\ v.removed = w.removed
      /\ v.added = Following(a, k0, asc)
      /\ v.ahead = {j \in w.ahead : Before(asc, k0, j)}
  BY DEF Walks
<1>3. /\ k0 \in Entries(a) /\ k0 \in Keys
      /\ \A k \in Entries(i) : Reaches(w.items, k, asc) => Before(asc, k0, k)
  BY AtAdded, EntriesAreKeys
<1>4. /\ v.added \in Entries(a) \cup {PastEnd}
      /\ \A k \in Entries(a) : Reaches(v.added, k, asc) <=> Before(asc, k0, k)
  BY <1>1, <1>2, <1>3, FollowingReaches
<1>5. \A k \in Entries(a) : k # k0 => (Reaches(w.added, k, asc) <=> Before(asc, k0, k))
  BY <1>1, <1>3, BeforeOrders, EntriesAreKeys DEF Reaches
<1>6. ASSUME NEW k \in Entries(a)
      PROVE  k \in v.ahead <=> Reaches(v.added, k, asc)
  <2>1. k \in v.ahead <=> Reaches(w.added, k, asc) /\ Before(asc, k0, k)
    BY <1>2 DEF WalkSound
  <2>2. Before(asc, k0, k) => k # k0
    BY <1>1, <1>3, BeforeOrders
  <2> QED
    BY <1>4, <1>5, <2>1, <2>2
<1>7. \A k \in Entries(i) \ Entries(r) : k \in v.ahead <=> Reaches(v.items, k, asc)
  BY <1>2, <1>3 DEF WalkSound
<1>8. \A k \in Entries(r) : Reaches(v.removed, k, asc) <=> Reaches(v.items, k, asc)
  BY <1>2 DEF WalkSound
<1> QED
  BY <1>2, <1>4, <1>6, <1>7, <1>8 DEF WalkSound

\* ... and from a removed one.
LEMMA PassRemoved ==
  ASSUME NEW i, NEW a, NEW r, MapsAgree(i, a, r),
         NEW w \in Walks, WalkSound(w, i, a, r), EntryType(w) = "Removed",
         NEW v \in Walks,
         v = [w EXCEPT !.items = Following(i, w.items, w.ascending),
                       !.removed = Following(r, w.removed, w.ascending)]
  PROVE  WalkSound(v, i, a, r)
<1> DEFINE asc == w.ascending
           k0 == w.items
<1>1. asc \in BOOLEAN
  BY DEF Walks
<1>2. k0 # PastEnd /\ w.removed = k0
  BY DEF EntryType
<1>3. k0 \in Entries(i) /\ k0 \in Entries(r) /\ k0 \in Keys
  BY <1>2, EntriesAreKeys DEF WalkSound
<1>4. /\ v.ascending = asc /\ v.added = w.added /\ v.ahead = w.ahead
      /\ v.items = Following(i, k0, asc) /\ v.removed = Following(r, k0, asc)
  BY <1>2 DEF Walks
<1>5. /\ v.items \in Entries(i) \cup {PastEnd}
      /\ \A k \in Entries(i) : Reaches(v.items, k, asc) <=> Before(asc, k0, k)
  BY <1>1, <1>3, <1>4, FollowingReaches
<1>6. /\ v.removed \in Entries(r) \cup {PastEnd}
      /\ \A k \in Entries(r) : Reaches(v.removed, k, asc) <=> Before(asc, k0, k)
  BY <1>1, <1>3, <1>4, FollowingReaches
<1>7. Entries(r) \subseteq Entries(i)
  BY DEF MapsAgree, Entries
<1>8. \A k \in Entries(i) : k # k0 => (Reaches(w.items, k, asc) <=> Before(asc, k0, k))
  BY <1>1, <1>3, BeforeOrders, EntriesAreKeys DEF Reaches
<1>9. \A k \in Entries(i) \ Entries(r) : k \in v.ahead <=> Reaches(v.items, k, asc)
  BY <1>3, <1>4, <1>5, <1>8 DEF WalkSound
<1>10. \A k \in Entries(a) : k \in v.ahead <=> Reaches(v.added, k, asc)
  BY <1>4 DEF WalkSound
<1> QED
  BY <1>4, <1>5, <1>6, <1>7, <1>9, <1>10 DEF WalkSound

\* What such an enumerator gives is the first entry that is ahead.
LEMMA GivesFirst ==
  ASSUME NEW i, NEW a, NEW r, MapsAgree(i, a, r),
         NEW w \in Walks, WalkSound(w, i, a, r), EntryType(w) # "Removed"
  PROVE  LET shown == Overlay(i, a, r)
             m == IF EntryType(w) = "Items" THEN i ELSE a
         IN  /\ Position(w) = First(Entries(shown) \cap w.ahead, w.ascending)
             /\ Position(w) # PastEnd => m[Position(w)] = shown[Position(w)]
<1> DEFINE asc == w.ascending
           shown == Overlay(i, a, r)
           S == Entries(shown) \cap w.ahead
<1>1. asc \in BOOLEAN /\ w.ahead \in SUBSET Keys /\ S \in SUBSET Keys
  BY DEF Walks
<1>2. Entries(shown) = Entries(a) \cup (Entries(i) \ Entries(r))
  BY DEF Overlay, Entries
<1>3. CASE EntryType(w) = "Items"
  <2> DEFINE k0 == w.items
  <2>1. /\ k0 \in Entries(i) \ Entries(r) /\ k0 \notin Entries(a) /\ k0 \in w.ahead
        /\ k0 \in Keys
        /\ \A k \in Entries(a) : Reaches(w.added, k, asc) => Before(asc, k0, k)
    BY <1>3, AtItem, EntriesAreKeys
  <2>2. \A j \in S : ~Before(asc, j, k0)
    <3>1. SUFFICES ASSUME NEW j \in S PROVE ~Before(asc, j, k0)
      OBVIOUS
    <3>2. CASE j \in Entries(a)
      <4>1. Reaches(w.added, j, asc)
        BY <3>1, <3>2 DEF WalkSound
      <4> QED
        BY <1>1, <2>1, <3>2, <4>1, BeforeOrders
    <3>3. CASE j \in Entries(i) \ Entries(r)
      BY <3>1, <3>3 DEF WalkSound, Reaches
    <3> QED
      BY <1>2, <3>2, <3>3
  <2>3. k0 \in S
    BY <1>2, <2>1
  <2>4. First(S, asc) = k0
    BY <1>1, <2>2, <2>3, FirstOnly
  <2>5. i[k0] = shown[k0]
    BY <2>1 DEF Overlay, Entries
  <2> QED
    BY <1>3, <2>4, <2>5 DEF Position
<1>4. CASE EntryType(w) = "Added"
  <2> DEFINE k0 == w.added
  <2>1. /\ k0 \in Entries(a) /\ k0 \in w.ahead /\ k0 \in Keys
        /\ \A k \in Entries(i) : Reaches(w.items, k, asc) => Before(asc, k0, k)
    BY <1>4, AtAdded, EntriesAreKeys
  <2>2. \A j \in S : ~Before(asc, j, k0)
    <3>1. SUFFICES ASSUME NEW j \in S PROVE ~Before(asc, j, k0)
      OBVIOUS
    <3>2. CASE j \in Entries(a)
      BY <3>1, <3>2 DEF WalkSound, Reaches
    <3>3. CASE j \in Entries(i) \ Entries(r)
      <4>1. Reaches(w.items, j, asc)
        BY <3>1, <3>3 DEF WalkSound
      <4> QED
        BY <1>1, <2>1, <3>3, <4>1, BeforeOrders
    <3> QED
      BY <1>2, <3>2, <3>3
  <2>3. k0 \in S
    BY <1>2, <2>1
  <2>4. First(S, asc) = k0
    BY <1>1, <2>2, <2>3, FirstOnly
  <2>5. a[k0] = shown[k0]
    BY <2>1 DEF Overlay, Entries
  <2> QED
    BY <1>4, <2>4, <2>5 DEF Position
<1>5. CASE EntryType(w) = "None"
  <2>1. w.items = PastEnd /\ w.added = PastEnd
    BY <1>5 DEF EntryType
  <2>2. S = {}
    BY <1>2, <2>1 DEF WalkSound, Reaches
  <2> QED
    BY <1>1, <1>5, <2>2, FirstIs DEF Position
<1>6. EntryType(w) \in {"Items", "Added", "None"}
  BY NeverBroken DEF EntryType
<1> QED
  BY <1>3, <1>4, <1>5, <1>6

\* The diff goes on from an added entry, whose key is not to be removed any
\* more, ...
LEMMA PassDiffAdded ==
  ASSUME NEW a, NEW r, NEW d \in [added : Positions, removed : Positions],
         DiffAgrees(d, a, r), DiffEntryType(d) = "Added",
         NEW n, n.added = Following(a, d.added, TRUE), n.removed = d.removed
  PROVE  /\ d.added \in Entries(a)
         /\ d.added \in Entries(r) => ~Reaches(d.removed, d.added, TRUE)
         /\ \A k \in Entries(a) : Reaches(n.added, k, TRUE)
                                      <=> Reaches(d.added, k, TRUE) /\ k # d.added
         /\ DiffAgrees(n, a, r)
<1> DEFINE k0 == d.added
<1>1. k0 # PastEnd /\ (d.removed = PastEnd \/ k0 < d.removed)
  BY DEF DiffEntryType
<1>2. k0 \in Entries(a) /\ k0 \in Keys
  BY <1>1, EntriesAreKeys DEF DiffAgrees
<1>3. ~Reaches(d.removed, k0, TRUE)
  BY <1>1 DEF Reaches, Before
<1>4. n.removed = d.removed /\ n.added = Following(a, k0, TRUE)
  OBVIOUS
<1>5. /\ n.added \in Entries(a) \cup {PastEnd}
      /\ \A k \in Entries(a) : Reaches(n.added, k, TRUE) <=> Before(TRUE, k0, k)
  BY <1>2, <1>4, FollowingReaches
<1>6. \A k \in Entries(a) : Before(TRUE, k0, k) <=> Reaches(k0, k, TRUE) /\ k # k0
  BY <1>1, <1>2, BeforeOrders, EntriesAreKeys DEF Reaches
<1>7. DiffAgrees(n, a, r)
  BY <1>3, <1>4, <1>5, <1>6 DEF DiffAgrees
<1> QED
  BY <1>2, <1>3, <1>4, <1>5, <1>6, <1>7

\* ... and from a removed one, whose key may have still to be added.
LEMMA PassDiffRemoved ==
  ASSUME NEW a, NEW r, NEW d \in [added : Positions, removed : Positions],
         DiffAgrees(d, a, r), DiffEntryType(d) = "Removed",
         NEW n, n.removed = Following(r, d.removed, TRUE), n.added = d.added
  PROVE  /\ d.removed \in Entries(r)
         /\ d.removed \in Entries(a) => Reaches(d.added, d.removed, TRUE)
         /\ \A k \in Entries(r) : Reaches(n.removed, k, TRUE)
                                      <=> Reaches(d.removed, k, TRUE) /\ k # d.removed
         /\ DiffAgrees(n, a, r)
<1> DEFINE k0 == d.removed
<1>1. k0 # PastEnd
  BY DEF DiffEntryType
<1>2. k0 \in Entries(r) /\ k0 \in Keys
  BY <1>1, EntriesAreKeys DEF DiffAgrees
<1>3. k0 \in Entries(a) => Reaches(d.added, k0, TRUE)
  BY <1>2, ReachesSelf DEF DiffAgrees
<1>4. n.added = d.added /\ n.removed = Following(r, k0, TRUE)
  OBVIOUS
<1>5. /\ n.removed \in Entries(r) \cup {PastEnd}
      /\ \A k \in Entries(r) : Reaches(n.removed, k, TRUE) <=> Before(TRUE, k0, k)
  BY <1>2, <1>4, FollowingReaches
<1>6. \A k \in Entries(r) : Before(TRUE, k0, k) <=> Reaches(k0, k, TRUE) /\ k # k0
  BY <1>1, <1>2, BeforeOrders, EntriesAreKeys DEF Reaches
<1>7. DiffAgrees(n, a, r)
  BY <1>4, <1>5, <1>6 DEF DiffAgrees
<1> QED
  BY <1>2, <1>3, <1>4, <1>5, <1>6, <1>7

-----------------------------------------------------------------------------
(* The steps by what they do. *)

\* Nothing but pc, snapshots and observers changes, and pc only among those
\* that have no transaction.
Idles(c) == Wait(c) \/ GiveUp(c)
Holds ==
    \E e \in Enumerators :
        \/ Enumerate(e) \/ Advance(e) \/ Drop(e)
        \/ \E c \in Clients :
            EnumerateTransaction(c, e) \/ Diff(c, e) \/ AnnounceAndKeep(c, e)
Connects == (\E o \in Observers : Connect(o)) \/ (\E k \in WatchedKeys : ConnectKey(k))

\* What all operations of a transaction have in common.
Edits(c) ==
    /\ pc[c] = "open"
    /\ added' \in Maps /\ removed' \in Maps
    /\ snaps' = Detached({m \in {"added", "removed"} :
                             Current[m] # IF m = "added" THEN added' ELSE removed'})
    /\ UNCHANGED <<sharedVars, pc, todo, walks, observerVars, store, missed>>

\* Every operation that edits a transaction gives its maps other contents.
LEMMA EditsMaps ==
  ASSUME TypeOK, NEW c \in Clients, Edit(c) \/ Revert(c)
  PROVE  Edits(c) /\ (UNCHANGED torn \/ torn' = FALSE)
<1> USE OffersAssumption DEF Maps, EmptyMap, TypeOK, With
<1>1. ASSUME NEW p \in Offers, Add(c, p[1], p[2]) PROVE Edits(c) /\ UNCHANGED torn
  <2>1. PICK a \in Maps, r \in Maps : Change(c, a, r)
    <3>1. CASE items[p[1]] = p[2]
      BY <1>1, <3>1 DEF Add
    <3>2. CASE items[p[1]] # p[2]
      BY <1>1, <3>2 DEF Add
    <3> QED
      BY <3>1, <3>2
  <2> QED
    BY <1>1, <2>1 DEF Add, Change, Edits
<1>2. ASSUME NEW p \in Offers, Set(c, p[1], p[2]) PROVE Edits(c) /\ UNCHANGED torn
  <2>1. PICK a \in Maps, r \in Maps : Change(c, a, r)
    <3>1. CASE items[p[1]] = p[2]
      BY <1>2, <3>1 DEF Set
    <3>2. CASE items[p[1]] # p[2] /\ removed[p[1]] = NoValue
      BY <1>2, <3>2 DEF Set
    <3>3. CASE items[p[1]] # p[2] /\ removed[p[1]] # NoValue
      BY <1>2, <3>3 DEF Set
    <3> QED
      BY <3>1, <3>2, <3>3
  <2> QED
    BY <1>2, <2>1 DEF Set, Change, Edits
<1>3. ASSUME NEW k \in Keys, Remove(c, k) PROVE Edits(c) /\ UNCHANGED torn
  <2>1. PICK a \in Maps, r \in Maps : Change(c, a, r)
    <3>1. CASE added[k] # NoValue
      BY <1>3, <3>1 DEF Remove
    <3>2. CASE added[k] = NoValue
      BY <1>3, <3>2 DEF Remove
    <3> QED
      BY <3>1, <3>2
  <2> QED
    BY <1>3, <2>1 DEF Remove, Change, Edits
<1>4. ASSUME NEW pairs \in SUBSET Offers, RemoveWhere(c, pairs)
      PROVE  Edits(c) /\ UNCHANGED torn
  BY <1>4 DEF RemoveWhere, Change, Edits
<1>5. ASSUME Clear(c) PROVE Edits(c) /\ UNCHANGED torn
  BY <1>5 DEF Clear, Change, Edits
<1>6. ASSUME Revert(c) PROVE Edits(c) /\ torn' = FALSE
  BY <1>6 DEF Revert, Change, Edits
<1> QED
  BY <1>1, <1>2, <1>3, <1>4, <1>5, <1>6 DEF Edit

\* The steps of every kind; each lemma below goes through them.
Starts(c) == Begin(c) \/ Resume(c)
Steps(c) == Starts(c) \/ Idles(c) \/ End(c) \/ Edit(c) \/ Revert(c) \/ Commit(c)

\* Every step is of one of the kinds.
LEMMA NextSteps ==
  ASSUME [Next]_vars
  PROVE  (\E c \in Clients : Steps(c)) \/ Holds \/ Connects \/ UNCHANGED vars
  BY DEF Next, Steps, Starts, Idles, Holds, Connects

-----------------------------------------------------------------------------
(* Types, and what becomes of snapshots *)

\* The map of a name, and that it is a map.
LEMMA CurrentMaps ==
  /\ Current["items"] = items /\ Current["added"] = added /\ Current["removed"] = removed
  /\ TypeOK => \A m \in MapNames : Current[m] \in Maps
  BY DEF Current, MapNames, TypeOK

\* What a snapshot is when maps are about to change.
LEMMA DetachedAt ==
  ASSUME TypeOK, NEW changed, NEW e \in Enumerators
  PROVE  /\ snaps[e] = NoSnapshot => Detached(changed)[e] = NoSnapshot
         /\ snaps[e] # NoSnapshot =>
                /\ snaps[e] \in Snapshots
                /\ Detached(changed)[e] \in Snapshots
                /\ Detached(changed)[e] # NoSnapshot
                /\ \A m \in MapNames :
                       Detached(changed)[e][m] = IF m \in changed /\ snaps[e][m] = Live
                                                 THEN Current[m] ELSE snaps[e][m]
<1>1. CASE snaps[e] = NoSnapshot
  BY <1>1 DEF Detached
<1>2. CASE snaps[e] # NoSnapshot
  <2>1. snaps[e] \in Snapshots
    BY <1>2 DEF TypeOK
  <2>2. Detached(changed)[e] = [m \in MapNames |->
            IF m \in changed /\ snaps[e][m] = Live THEN Current[m] ELSE snaps[e][m]]
    BY <1>2 DEF Detached
  <2>3. Detached(changed)[e] \in Snapshots
    BY <2>1, <2>2, CurrentMaps DEF Snapshots
  <2>4. NoSnapshot \notin Snapshots
    BY SnapshotAssumption DEF Snapshots
  <2> QED
    BY <1>2, <2>1, <2>2, <2>3, <2>4
<1> QED
  BY <1>1, <1>2

\* Detached snapshots are snapshots.
LEMMA DetachedType ==
  ASSUME TypeOK, NEW changed
  PROVE  Detached(changed) \in [Enumerators -> Snapshots \cup {NoSnapshot}]
<1>1. \A e \in Enumerators : Detached(changed)[e] \in Snapshots \cup {NoSnapshot}
  BY DetachedAt
<1> QED
  BY <1>1 DEF Detached

\* A new enumerator, and one that goes on, have positions.
LEMMA WalksStep ==
  ASSUME TypeOK, Holds
  PROVE  walks' \in [Enumerators -> Walks]
<1>0. NoWalk \in Walks
  BY DEF NoWalk, Walks, Positions
<1>1. ASSUME NEW e \in Enumerators, Enumerate(e) \/ Drop(e) PROVE walks' \in [Enumerators -> Walks]
  BY <1>0, <1>1 DEF Enumerate, Hold, Drop, TypeOK
<1>2. ASSUME NEW e \in Enumerators, NEW c \in Clients,
             Diff(c, e) \/ AnnounceAndKeep(c, e)
      PROVE  walks' \in [Enumerators -> Walks]
  BY <1>0, <1>2 DEF Diff, AnnounceAndKeep, Hold, TypeOK
<1>3. ASSUME NEW e \in Enumerators, NEW c \in Clients, EnumerateTransaction(c, e)
      PROVE  walks' \in [Enumerators -> Walks]
  <2>0. PICK ascending \in BOOLEAN : \E keys \in Ranges(ascending) :
           walks' = [walks EXCEPT ![e] = WalkOver(keys, ascending)]
    BY <1>3 DEF EnumerateTransaction, Hold
  <2>1. PICK keys \in Ranges(ascending) :
           walks' = [walks EXCEPT ![e] = WalkOver(keys, ascending)]
    BY <2>0
  <2>2. keys \in SUBSET Keys
    BY DEF Ranges
  <2>3. WalkOver(keys, ascending) \in Walks
    <3>1. \A m : Entries(m) \cap keys \in SUBSET Keys
      BY <2>2
    <3>2. \A m : First(Entries(m) \cap keys, ascending) \in Positions
      BY <3>1, FirstType
    <3>3. (~torn) \in BOOLEAN
      OBVIOUS
    <3> QED
      BY <2>2, <3>2, <3>3 DEF WalkOver, Walks
  <2> QED
    BY <2>1, <2>3 DEF TypeOK
<1>4. ASSUME NEW e \in Enumerators, Advance(e) PROVE walks' \in [Enumerators -> Walks]
  <2>1. walks[e] \in Walks /\ walks[e].ascending \in BOOLEAN
    BY DEF TypeOK, Walks
  <2>2. \A m : NextOf(e, m) \in Positions
    BY <2>1, FollowingType DEF NextOf
  <2>3. \A k : AheadOf(e, k) \in SUBSET Keys
    BY <2>1 DEF AheadOf, Walks
  <2>4. PICK w \in Walks : walks' = [walks EXCEPT ![e] = w]
    <3>1. CASE EntryType(walks[e]) = "Items"
      BY <1>4, <2>1, <2>2, <2>3, <3>1 DEF Advance, Walks, TypeOK
    <3>2. CASE EntryType(walks[e]) = "Added"
      BY <1>4, <2>1, <2>2, <2>3, <3>2 DEF Advance, Walks, TypeOK
    <3>3. CASE EntryType(walks[e]) = "Removed"
      BY <1>4, <2>1, <2>2, <2>3, <3>3 DEF Advance, Walks, TypeOK
    <3> QED
      BY <1>4, <3>1, <3>2, <3>3 DEF Advance
  <2> QED
    BY <2>4 DEF TypeOK
<1> QED
  BY <1>1, <1>2, <1>3, <1>4 DEF Holds

\* Every step keeps the types.
LEMMA TypesStep ==
  ASSUME TypeOK, [Next]_vars
  PROVE  TypeOK'
<1> USE DEF sharedVars, ownVars, heldVars, observerVars, histVars, Goto
<1>1. ASSUME NEW c \in Clients, Starts(c) \/ Idles(c) PROVE TypeOK'
  BY <1>1 DEF TypeOK, Starts, Begin, Resume, Acquire, Idles, Wait, GiveUp
<1>2. ASSUME NEW c \in Clients, End(c) PROVE TypeOK'
  BY <1>2, DetachedType DEF TypeOK, End, EmptyMap, Maps
<1>3. ASSUME NEW c \in Clients, Edit(c) \/ Revert(c) PROVE TypeOK'
  BY <1>3, EditsMaps, DetachedType DEF Edits, TypeOK
<1>4. ASSUME NEW c \in Clients, Commit(c) PROVE TypeOK'
  <2>1. CASE CommitRemove(c)
    BY <2>1, DetachedType DEF CommitRemove, TypeOK, Maps
  <2>2. CASE CommitAdd(c)
    BY <2>2 DEF CommitAdd, TypeOK, With, Maps
  <2>3. CASE CommitFails(c)
    BY <2>3 DEF CommitFails, TypeOK
  <2>4. CASE Announce(c) \/ AnnounceEntry(c)
    <3>1. diff' \in [added : Positions, removed : Positions]
      <4>1. \A m : Entries(m) \in SUBSET Keys
        BY DEF Entries
      <4>2. \A m : First(Entries(m), TRUE) \in Positions
        BY <4>1, FirstType
      <4>3. \A m, k : Following(m, k, TRUE) \in Positions
        BY FollowingType
      <4>4. CASE Announce(c)
        BY <4>2, <4>4 DEF Announce
      <4>5. CASE AnnounceEntry(c)
        <5>1. PICK p \in Positions : \/ diff' = [diff EXCEPT !.added = p]
                                     \/ diff' = [diff EXCEPT !.removed = p]
          BY <4>3, <4>5 DEF AnnounceEntry
        <5>2. diff \in [added : Positions, removed : Positions]
          BY DEF TypeOK
        <5> QED
          BY <5>1, <5>2
      <4> QED
        BY <2>4, <4>4, <4>5
    <3>2. CASE Announce(c)
      BY <3>1, <3>2 DEF Announce, TypeOK
    <3>3. CASE AnnounceEntry(c)
      <4>1. PICK k \in Keys, v \in Values \cup {NoValue} : Tell(k, v)
        <5>1. CASE DiffEntryType(diff) = "Added"
          <6>1. Tell(diff.added, added[diff.added]) /\ diff.added \in Keys
            BY <3>3, <5>1 DEF AnnounceEntry, DiffEntryType, TypeOK, Positions
          <6> QED
            BY <6>1 DEF TypeOK, Maps
        <5>2. CASE DiffEntryType(diff) = "Removed"
          <6>1. Tell(diff.removed, NoValue) /\ diff.removed \in Keys
            BY <3>3, <5>2 DEF AnnounceEntry, DiffEntryType, TypeOK, Positions
          <6> QED
            BY <6>1
        <5> QED
          BY <3>3, <5>1, <5>2 DEF AnnounceEntry
      <4>2. told' \in [Observers -> Maps \cup {Absent}]
        BY <4>1 DEF Tell, TypeOK, With, Maps
      <4>3. keyTold' \in [WatchedKeys -> Values \cup {NoValue, Absent}]
        BY <4>1 DEF Tell, TypeOK
      <4> QED
        BY <3>1, <3>3, <4>2, <4>3 DEF AnnounceEntry, TypeOK
    <3> QED
      BY <2>4, <3>2, <3>3
  <2>5. CASE AnnounceEnd(c)
    BY <2>5 DEF AnnounceEnd, TypeOK
  <2>6. CASE CommitReverts(c)
    BY <2>6, DetachedType DEF CommitReverts, TypeOK, EmptyMap, Maps
  <2> QED
    BY <1>4, <2>1, <2>2, <2>3, <2>4, <2>5, <2>6 DEF Commit
<1>5. CASE Holds
  <2>1. \A m \in MapNames : EmptyMap \in Maps
    BY DEF EmptyMap, Maps
  <2>2. UNCHANGED <<sharedVars, ownVars, pc, todo, observerVars, histVars>>
    BY <1>5 DEF Holds, Hold, Drop, Enumerate, EnumerateTransaction, Diff,
                AnnounceAndKeep, Advance
  <2>3. snaps' \in [Enumerators -> Snapshots \cup {NoSnapshot}]
    BY <1>5, <2>1 DEF Holds, Hold, Drop, Enumerate, EnumerateTransaction, Diff,
                      AnnounceAndKeep, Advance, Snapshots, MapNames, TypeOK
  <2>4. walks' \in [Enumerators -> Walks]
    BY <1>5, WalksStep
  <2> QED
    BY <2>2, <2>3, <2>4 DEF TypeOK
<1>6. CASE Connects
  <2>1. ASSUME NEW o \in Observers, Connect(o) PROVE TypeOK'
    BY <2>1 DEF Connect, TypeOK
  <2>2. ASSUME NEW k \in WatchedKeys, ConnectKey(k) PROVE TypeOK'
    <3>1. items[k] \in Values \cup {NoValue}
      BY WatchedAssumption DEF TypeOK, Maps
    <3> QED
      BY <2>2, <3>1 DEF ConnectKey, TypeOK
  <2> QED
    BY <1>6, <2>1, <2>2 DEF Connects
<1>7. CASE UNCHANGED vars
  BY <1>7 DEF vars, TypeOK
<1> QED
  BY <1>1, <1>2, <1>3, <1>4, <1>5, <1>6, <1>7, NextSteps DEF Steps

-----------------------------------------------------------------------------
(* The invariants *)

\* Holding a snapshot and connecting a slot leave the dictionary as it is.
LEMMA HoldsChange ==
  ASSUME Holds \/ Connects
  PROVE  UNCHANGED <<sharedVars, ownVars, pc, todo, diff, histVars>>
<1> USE DEF Holds, Hold, Drop, Enumerate, EnumerateTransaction, Diff, AnnounceAndKeep, Advance,
            Connects, Connect, ConnectKey, sharedVars, ownVars, observerVars, histVars
<1> QED
  OBVIOUS

\* Every step keeps OneOwner.
LEMMA OwnerStep ==
  ASSUME TypeOK, OneOwner, [Next]_vars
  PROVE  OneOwner'
<1> USE NoClientAssumption
    DEF TypeOK, OneOwner, InTransaction, Goto, sharedVars, ownVars, heldVars, observerVars, histVars
<1>1. ASSUME NEW c \in Clients, Starts(c) \/ Idles(c) PROVE OneOwner'
  BY <1>1 DEF Starts, Begin, Resume, Acquire, Idles, Wait, GiveUp
<1>2. ASSUME NEW c \in Clients, End(c) PROVE OneOwner'
  BY <1>2 DEF End
<1>3. ASSUME NEW c \in Clients, Edit(c) \/ Revert(c) PROVE OneOwner'
  BY <1>3, EditsMaps DEF Edits
<1>4. ASSUME NEW c \in Clients, Commit(c) PROVE OneOwner'
  <2>1. CASE CommitRemove(c)
    BY <2>1 DEF CommitRemove
  <2>2. CASE CommitAdd(c)
    BY <2>2 DEF CommitAdd
  <2>3. CASE CommitFails(c)
    BY <2>3 DEF CommitFails
  <2>4. CASE Announce(c) \/ AnnounceEntry(c)
    BY <2>4 DEF Announce, AnnounceEntry
  <2>5. CASE AnnounceEnd(c)
    BY <2>5 DEF AnnounceEnd
  <2>6. CASE CommitReverts(c)
    BY <2>6 DEF CommitReverts
  <2> QED
    BY <1>4, <2>1, <2>2, <2>3, <2>4, <2>5, <2>6 DEF Commit
<1>5. CASE Holds \/ Connects
  BY <1>5, HoldsChange
<1>6. CASE UNCHANGED vars
  BY <1>6 DEF vars
<1> QED
  BY <1>1, <1>2, <1>3, <1>4, <1>5, <1>6, NextSteps DEF Steps

\* Who edits, ends or begins a commit does not do it within a commit.
LEMMA OpenNotCommitting ==
  ASSUME OneOwner, NEW c \in Clients, pc[c] \in {"open", "announced"}
  PROVE  ~Committing
  BY DEF OneOwner, InTransaction, Committing

\* Every step keeps Stored: only a commit changes the items.
LEMMA StoredStep ==
  ASSUME TypeOK, OneOwner, Stored, DiffSound, [Next]_vars
  PROVE  Stored'
<1> USE DEF Stored, Committing, TypeOK, Goto, sharedVars, ownVars, heldVars, observerVars, histVars
<1>1. ASSUME NEW c \in Clients, Starts(c) \/ Idles(c) PROVE Stored'
  BY <1>1 DEF Starts, Begin, Resume, Acquire, Idles, Wait, GiveUp
<1>2. ASSUME NEW c \in Clients, End(c) PROVE Stored'
  BY <1>2, OpenNotCommitting DEF End
<1>3. ASSUME NEW c \in Clients, Edit(c) \/ Revert(c) PROVE Stored'
  BY <1>3, EditsMaps DEF Edits
<1>4. ASSUME NEW c \in Clients, Commit(c) PROVE Stored'
  <2>1. CASE CommitRemove(c)
    BY <2>1 DEF CommitRemove
  <2>2. CASE CommitAdd(c)
    BY <2>2 DEF CommitAdd
  <2>3. CASE CommitFails(c)
    BY <2>3 DEF CommitFails
  <2>4. CASE Announce(c) \/ AnnounceEntry(c)
    BY <2>4 DEF Announce, AnnounceEntry
  <2>5. CASE AnnounceEnd(c)
    BY <2>5 DEF AnnounceEnd, DiffSound, Announcing
  <2>6. CASE CommitReverts(c)
    BY <2>6, OpenNotCommitting DEF CommitReverts
  <2> QED
    BY <1>4, <2>1, <2>2, <2>3, <2>4, <2>5, <2>6 DEF Commit
<1>5. CASE Holds \/ Connects
  BY <1>5, HoldsChange
<1>6. CASE UNCHANGED vars
  BY <1>6 DEF vars
<1> QED
  BY <1>1, <1>2, <1>3, <1>4, <1>5, <1>6, NextSteps DEF Steps

\* Every step keeps Halfway.
LEMMA HalfwayStep ==
  ASSUME TypeOK, OneOwner, Stored, Halfway, [Next]_vars
  PROVE  Halfway'
<1> USE DEF Stored, Halfway, Committing, TypeOK, Goto, Maps,
            sharedVars, ownVars, heldVars, observerVars, histVars
<1>1. ASSUME NEW c \in Clients, Starts(c) \/ Idles(c) PROVE Halfway'
  BY <1>1 DEF Starts, Begin, Resume, Acquire, Idles, Wait, GiveUp
<1>2. ASSUME NEW c \in Clients, End(c) PROVE Halfway'
  <2>1. ~Committing'
    BY <1>2, OpenNotCommitting DEF End
  <2> QED
    BY <2>1
<1>3. ASSUME NEW c \in Clients, Edit(c) \/ Revert(c) PROVE Halfway'
  <2>1. ~Committing'
    BY <1>3, EditsMaps, OpenNotCommitting DEF Edits
  <2> QED
    BY <2>1
<1>4. ASSUME NEW c \in Clients, Commit(c) PROVE Halfway'
  <2>1. CASE CommitRemove(c)
    <3>1. store = items
      BY <2>1, OpenNotCommitting DEF CommitRemove
    <3> QED
      BY <2>1, <3>1 DEF CommitRemove
  <2>2. CASE CommitAdd(c)
    BY <2>2 DEF CommitAdd, With
  <2>3. CASE CommitFails(c)
    <3>1. ~Committing'
      BY <2>3 DEF CommitFails, OneOwner, InTransaction
    <3> QED
      BY <3>1
  <2>4. CASE Announce(c) \/ AnnounceEntry(c)
    BY <2>4 DEF Announce, AnnounceEntry
  <2>5. CASE AnnounceEnd(c)
    <3>1. ~Committing'
      BY <2>5 DEF AnnounceEnd, OneOwner, InTransaction
    <3> QED
      BY <3>1
  <2>6. CASE CommitReverts(c)
    <3>1. ~Committing'
      BY <2>6, OpenNotCommitting DEF CommitReverts
    <3> QED
      BY <3>1
  <2> QED
    BY <1>4, <2>1, <2>2, <2>3, <2>4, <2>5, <2>6 DEF Commit
<1>5. CASE Holds \/ Connects
  BY <1>5, HoldsChange
<1>6. CASE UNCHANGED vars
  BY <1>6 DEF vars
<1> QED
  BY <1>1, <1>2, <1>3, <1>4, <1>5, <1>6, NextSteps DEF Steps

\* Every step keeps DiffSound.
LEMMA DiffStep ==
  ASSUME TypeOK, OneOwner, DiffSound, [Next]_vars
  PROVE  DiffSound'
<1> USE DEF DiffSound, Announcing, TypeOK, Goto,
            sharedVars, ownVars, heldVars, observerVars, histVars
<1>1. ASSUME NEW c \in Clients, Starts(c) \/ Idles(c) PROVE DiffSound'
  <2>1. Announcing' => Announcing
    BY <1>1 DEF Starts, Begin, Resume, Acquire, Idles, Wait, GiveUp
  <2> QED
    BY <1>1, <2>1 DEF Starts, Begin, Resume, Acquire, Idles, Wait, GiveUp
<1>2. ASSUME NEW c \in Clients, End(c) PROVE DiffSound'
  <2>1. ~Announcing'
    BY <1>2 DEF End, OneOwner, InTransaction
  <2> QED
    BY <2>1
<1>3. ASSUME NEW c \in Clients, Edit(c) \/ Revert(c) PROVE DiffSound'
  <2>1. ~Announcing'
    BY <1>3, EditsMaps DEF Edits, OneOwner, InTransaction
  <2> QED
    BY <2>1
<1>4. ASSUME NEW c \in Clients, Commit(c) PROVE DiffSound'
  <2>1. CASE CommitRemove(c) \/ CommitAdd(c) \/ CommitFails(c)
    <3>1. ~Announcing'
      BY <2>1 DEF CommitRemove, CommitAdd, CommitFails, OneOwner, InTransaction
    <3> QED
      BY <3>1
  <2>2. CASE AnnounceEnd(c) \/ CommitReverts(c)
    <3>1. ~Announcing'
      BY <2>2 DEF AnnounceEnd, CommitReverts, OneOwner, InTransaction
    <3> QED
      BY <3>1
  <2>3. CASE Announce(c)
    <3>1. Entries(added) \cap Keys = Entries(added) /\ Entries(removed) \cap Keys = Entries(removed)
      BY DEF Entries
    <3>2. /\ First(Entries(added), TRUE) \in Entries(added) \cup {PastEnd}
          /\ \A k \in Entries(added) : Reaches(First(Entries(added), TRUE), k, TRUE)
                                           <=> k \in Keys
      BY <3>1, BeginReaches
    <3>3. First(Entries(removed), TRUE) \in Entries(removed) \cup {PastEnd}
      BY <3>1, BeginReaches
    <3>4. DiffAgrees([added |-> First(Entries(added), TRUE),
                      removed |-> First(Entries(removed), TRUE)], added, removed)
      BY <3>2, <3>3, EntriesAreKeys DEF DiffAgrees
    <3> QED
      BY <2>3, <3>4 DEF Announce
  <2>4. CASE AnnounceEntry(c)
    <3>1. todo = {} /\ DiffAgrees(diff, added, removed)
      BY <2>4 DEF AnnounceEntry
    <3>2. UNCHANGED <<todo, added, removed>>
      BY <2>4 DEF AnnounceEntry
    <3>3. DiffAgrees(diff', added, removed)
      <4>0. diff \in [added : Positions, removed : Positions]
        OBVIOUS
      <4>1. CASE DiffEntryType(diff) = "Added"
        <5>1. diff'.added = Following(added, diff.added, TRUE) /\ diff'.removed = diff.removed
          BY <2>4, <4>1 DEF AnnounceEntry
        <5> QED
          BY ONLY <3>1, <4>0, <4>1, <5>1, PassDiffAdded
      <4>2. CASE DiffEntryType(diff) = "Removed"
        <5>1. diff'.removed = Following(removed, diff.removed, TRUE) /\ diff'.added = diff.added
          BY <2>4, <4>2 DEF AnnounceEntry
        <5> QED
          BY ONLY <3>1, <4>0, <4>2, <5>1, PassDiffRemoved
      <4> QED
        BY <2>4, <4>1, <4>2 DEF AnnounceEntry
    <3> QED
      BY <3>1, <3>2, <3>3
  <2> QED
    BY <1>4, <2>1, <2>2, <2>3, <2>4 DEF Commit
<1>5. CASE Holds \/ Connects
  <2>1. UNCHANGED <<pc, todo, added, removed, diff>>
    BY <1>5, HoldsChange
  <2> QED
    BY <2>1
<1>6. CASE UNCHANGED vars
  BY <1>6 DEF vars
<1> QED
  BY <1>1, <1>2, <1>3, <1>4, <1>5, <1>6, NextSteps DEF Steps

\* What an edit does to a key that is both there and added.
LEMMA EditsMatch ==
  ASSUME TypeOK, NEW c \in Clients, Edit(c), NEW k \in Keys,
         added[k] # NoValue /\ items[k] # NoValue => removed[k] # NoValue,
         removed[k] # NoValue => removed[k] = items[k]
  PROVE  /\ added'[k] # NoValue /\ items[k] # NoValue => removed'[k] # NoValue
         /\ removed'[k] # NoValue => removed'[k] = items[k]
<1> DEFINE Matches ==
             /\ added'[k] # NoValue /\ items[k] # NoValue => removed'[k] # NoValue
             /\ removed'[k] # NoValue => removed'[k] = items[k]
<1> USE OffersAssumption DEF TypeOK, Maps, EmptyMap, With, Change
<1>1. ASSUME NEW p \in Offers, Add(c, p[1], p[2]) PROVE Matches
  BY <1>1 DEF Add, CanAdd
<1>2. ASSUME NEW p \in Offers, Set(c, p[1], p[2]) PROVE Matches
  <2>1. CASE items[p[1]] = p[2]
    BY <1>2, <2>1 DEF Set
  <2>2. CASE items[p[1]] # p[2]
    BY <1>2, <2>2 DEF Set
  <2> QED
    BY <2>1, <2>2
<1>3. ASSUME NEW j \in Keys, Remove(c, j) PROVE Matches
  BY <1>3 DEF Remove, CanRemove
<1>4. ASSUME NEW pairs \in SUBSET Offers, RemoveWhere(c, pairs)
      PROVE  Matches
  BY <1>4 DEF RemoveWhere
<1>5. ASSUME Clear(c) PROVE Matches
  BY <1>5 DEF Clear
<1> QED
  BY <1>1, <1>2, <1>3, <1>4, <1>5 DEF Edit

\* Every step keeps Matched, which a failed commit is free of.
LEMMA MatchedStep ==
  ASSUME TypeOK, OneOwner, Stored, Halfway, Matched, [Next]_vars
  PROVE  Matched'
<1> USE DEF TypeOK, Matched, Goto, sharedVars, ownVars, heldVars, observerVars, histVars
<1>1. ASSUME NEW c \in Clients, Starts(c) \/ Idles(c) PROVE Matched'
  <2>1. \A d \in Clients : pc'[d] = "announced" <=> pc[d] = "announced"
    BY <1>1 DEF Starts, Begin, Resume, Acquire, Idles, Wait, GiveUp
  <2> QED
    BY <1>1, <2>1 DEF Starts, Begin, Resume, Acquire, Idles, Wait, GiveUp
<1>2. ASSUME NEW c \in Clients, End(c) PROVE Matched'
  BY <1>2 DEF End, EmptyMap
<1>3. ASSUME NEW c \in Clients, Edit(c) \/ Revert(c) PROVE Matched'
  <2>1. CASE Revert(c)
    BY <2>1 DEF Revert, Change, EmptyMap
  <2>2. CASE Edit(c)
    <3>1. /\ \A d \in Clients : pc[d] # "announced"
          /\ store = items
          /\ UNCHANGED <<store, pc>>
      BY <2>2, EditsMaps, OpenNotCommitting DEF Edits, OneOwner, InTransaction, Stored
    <3>2. UNCHANGED torn
      BY <2>2, OffersAssumption DEF Edit, Add, Set, Remove, RemoveWhere, Clear
    <3> QED
      BY <2>2, <3>1, <3>2, EditsMatch
  <2> QED
    BY <1>3, <2>1, <2>2
<1>4. ASSUME NEW c \in Clients, Commit(c) PROVE Matched'
  <2>1. CASE CommitRemove(c)
    BY <2>1 DEF CommitRemove, OneOwner, InTransaction
  <2>2. CASE CommitAdd(c)
    BY <2>2 DEF CommitAdd
  <2>3. CASE CommitFails(c)
    BY <2>3 DEF CommitFails, OneOwner, InTransaction
  <2>4. CASE Announce(c) \/ AnnounceEntry(c)
    BY <2>4 DEF Announce, AnnounceEntry
  <2>5. CASE AnnounceEnd(c)
    BY <2>5 DEF AnnounceEnd
  <2>6. CASE CommitReverts(c)
    BY <2>6 DEF CommitReverts, EmptyMap
  <2> QED
    BY <1>4, <2>1, <2>2, <2>3, <2>4, <2>5, <2>6 DEF Commit
<1>5. CASE Holds \/ Connects
  BY <1>5, HoldsChange
<1>6. CASE UNCHANGED vars
  BY <1>6 DEF vars
<1> QED
  BY <1>1, <1>2, <1>3, <1>4, <1>5, <1>6, NextSteps DEF Steps

\* Every step keeps NotHeld: during a commit nobody takes a snapshot of the items.
LEMMA NotHeldStep ==
  ASSUME TypeOK, OneOwner, NotHeld, [Next]_vars
  PROVE  NotHeld'
<1> USE DEF NotHeld, Committing, TypeOK, Goto, sharedVars, ownVars, heldVars, observerVars, histVars
<1>1. ASSUME NEW c \in Clients, Starts(c) \/ Idles(c) PROVE NotHeld'
  BY <1>1 DEF Starts, Begin, Resume, Acquire, Idles, Wait, GiveUp
<1>2. ASSUME NEW c \in Clients, End(c) PROVE NotHeld'
  <2>1. ~Committing'
    BY <1>2, OpenNotCommitting DEF End
  <2> QED
    BY <2>1
<1>3. ASSUME NEW c \in Clients, Edit(c) \/ Revert(c) PROVE NotHeld'
  <2>1. ~Committing'
    BY <1>3, EditsMaps, OpenNotCommitting DEF Edits
  <2> QED
    BY <2>1
<1>4. ASSUME NEW c \in Clients, Commit(c) PROVE NotHeld'
  <2>1. CASE CommitRemove(c)
    <3>1. \A e \in Enumerators :
             snaps'[e] # NoSnapshot => snaps'[e]["items"] # Live
      <4>1. SUFFICES ASSUME NEW e \in Enumerators, snaps'[e] # NoSnapshot
                     PROVE  snaps'[e]["items"] # Live
        OBVIOUS
      <4>2. snaps' = Detached({"items"})
        BY <2>1 DEF CommitRemove
      <4>3. snaps'[e]["items"] = IF snaps[e]["items"] = Live THEN Current["items"]
                                 ELSE snaps[e]["items"]
        BY <4>1, <4>2, DetachedAt DEF MapNames
      <4>4. Current["items"] # Live
        BY CurrentMaps, LiveAssumption
      <4> QED
        BY <4>3, <4>4
    <3> QED
      BY <3>1
  <2>2. CASE CommitAdd(c)
    BY <2>2 DEF CommitAdd
  <2>3. CASE CommitFails(c)
    BY <2>3 DEF CommitFails
  <2>4. CASE Announce(c) \/ AnnounceEntry(c)
    BY <2>4 DEF Announce, AnnounceEntry
  <2>5. CASE AnnounceEnd(c)
    BY <2>5 DEF AnnounceEnd
  <2>6. CASE CommitReverts(c)
    <3>1. ~Committing'
      BY <2>6, OpenNotCommitting DEF CommitReverts
    <3> QED
      BY <3>1
  <2> QED
    BY <1>4, <2>1, <2>2, <2>3, <2>4, <2>5, <2>6 DEF Commit
<1>5. CASE Holds
  <2>1. PICK e \in Enumerators :
           \/ Enumerate(e)
           \/ Advance(e)
           \/ Drop(e)
           \/ \E c \in Clients : \/ EnumerateTransaction(c, e)
                                 \/ Diff(c, e) \/ AnnounceAndKeep(c, e)
    BY <1>5 DEF Holds
  <2>2. UNCHANGED pc
    BY <1>5, HoldsChange
  <2>3. CASE Drop(e)
    BY <2>2, <2>3 DEF Drop
  <2>4. CASE guard = NoClient
    <3>1. ~Committing'
      BY <2>2, <2>4, NoClientAssumption DEF OneOwner
    <3> QED
      BY <3>1
  <2>5. CASE \E c \in Clients : Diff(c, e)
    <3>1. ~Committing'
      BY <2>2, <2>5, OpenNotCommitting DEF Diff
    <3> QED
      BY <3>1
  <2>6. CASE \E c \in Clients : AnnounceAndKeep(c, e)
    <3>1. EmptyMap # Live
      BY LiveAssumption DEF EmptyMap, Maps
    <3> QED
      BY <2>2, <2>6, <3>1 DEF AnnounceAndKeep, Hold
  <2>7. CASE Advance(e)
    BY <2>2, <2>7 DEF Advance
  <2> QED
    BY <2>1, <2>3, <2>4, <2>5, <2>6, <2>7 DEF Enumerate, EnumerateTransaction
<1>6. CASE Connects
  BY <1>6 DEF Connects, Connect, ConnectKey
<1>7. CASE UNCHANGED vars
  BY <1>7 DEF vars
<1> QED
  BY <1>1, <1>2, <1>3, <1>4, <1>5, <1>6, <1>7, NextSteps DEF Steps

\* The waiters are woken by whoever ends a transaction.
LEMMA WaitersStep ==
  ASSUME TypeOK, OneOwner, WaitersAreWoken, [Next]_vars
  PROVE  WaitersAreWoken'
<1> USE DEF WaitersAreWoken, TypeOK, Goto, sharedVars, ownVars, heldVars, observerVars, histVars
<1>1. ASSUME NEW c \in Clients, Starts(c) \/ Idles(c) PROVE WaitersAreWoken'
  BY <1>1 DEF Starts, Begin, Resume, Acquire, Idles, Wait, GiveUp
<1>2. ASSUME NEW c \in Clients, End(c) PROVE WaitersAreWoken'
  BY <1>2 DEF End
<1>3. ASSUME NEW c \in Clients, Edit(c) \/ Revert(c) PROVE WaitersAreWoken'
  BY <1>3, EditsMaps DEF Edits
<1>4. ASSUME NEW c \in Clients, Commit(c) PROVE WaitersAreWoken'
  BY <1>4 DEF Commit, CommitRemove, CommitAdd, CommitFails, Announce, AnnounceEntry,
              AnnounceEnd, CommitReverts
<1>5. CASE Holds \/ Connects
  BY <1>5, HoldsChange
<1>6. CASE UNCHANGED vars
  BY <1>6 DEF vars
<1> QED
  BY <1>1, <1>2, <1>3, <1>4, <1>5, <1>6, NextSteps DEF Steps

\* The invariants hold at the start ...
LEMMA InitInv == Init => TypeOK /\ StoreInv /\ NotHeld /\ WaitersAreWoken
<1> SUFFICES ASSUME Init PROVE TypeOK /\ StoreInv /\ NotHeld /\ WaitersAreWoken
  OBVIOUS
<1> USE DEF Init, EmptyMap, Maps
<1>1. TypeOK
  BY DEF TypeOK, NoWalk, Walks, Positions
<1>2. OneOwner /\ Stored
  BY DEF OneOwner, InTransaction, Stored
<1>3. Halfway /\ NotHeld /\ WaitersAreWoken
  BY DEF Halfway, NotHeld, Committing, WaitersAreWoken
<1>4. Matched /\ DiffSound
  BY DEF Matched, DiffSound, Announcing
<1> QED
  BY <1>1, <1>2, <1>3, <1>4 DEF StoreInv

\* ... are kept by every step ...
LEMMA InvStep ==
  ASSUME TypeOK, StoreInv, NotHeld, WaitersAreWoken, [Next]_vars
  PROVE  TypeOK' /\ StoreInv' /\ NotHeld' /\ WaitersAreWoken'
<1>1. TypeOK'
  BY TypesStep
<1>2. OneOwner' /\ Stored' /\ Halfway' /\ Matched' /\ DiffSound'
  BY OwnerStep, StoredStep, HalfwayStep, MatchedStep, DiffStep DEF StoreInv
<1>3. NotHeld' /\ WaitersAreWoken'
  BY NotHeldStep, WaitersStep DEF StoreInv
<1> QED
  BY <1>1, <1>2, <1>3 DEF StoreInv

\* ... and so always hold.
LEMMA Invariants == Spec => [](TypeOK /\ StoreInv /\ NotHeld /\ WaitersAreWoken)
<1> DEFINE Inv == TypeOK /\ StoreInv /\ NotHeld /\ WaitersAreWoken
<1>1. Init => Inv
  BY InitInv
<1>2. Inv /\ [Next]_vars => Inv'
  BY InvStep
<1> QED
  BY <1>1, <1>2, PTL DEF Spec

\* No constructor of a transaction waits while there is no transaction: the
\* wait and its test are under Guard, and the destructor wakes every waiter
\* (the constructor and destructor of collection/TransactionalDictionary.h).
THEOREM NobodyIsForgotten == Spec => []WaitersAreWoken
<1>1. (TypeOK /\ StoreInv /\ NotHeld /\ WaitersAreWoken) => WaitersAreWoken
  OBVIOUS
<1> QED
  BY <1>1, Invariants, PTL

-----------------------------------------------------------------------------
(* Snapshots *)

\* Who detaches the snapshots from the maps it changes leaves what they show.
LEMMA DetachKeeps ==
  ASSUME TypeOK, NEW changed, snaps' = Detached(changed),
         \A m \in MapNames \ changed : Current'[m] = Current[m],
         NEW e \in Enumerators, NEW m \in MapNames,
         snaps[e] # NoSnapshot
  PROVE  Found(e, m)' = Found(e, m)
<1>1. Detached(changed)[e][m] = IF m \in changed /\ snaps[e][m] = Live
                                THEN Current[m] ELSE snaps[e][m]
  BY DetachedAt
<1>2. Current[m] # Live
  BY CurrentMaps, LiveAssumption
<1>3. CASE m \in changed /\ snaps[e][m] = Live
  BY <1>1, <1>2, <1>3 DEF Found
<1>4. CASE ~(m \in changed /\ snaps[e][m] = Live)
  BY <1>1, <1>4 DEF Found
<1> QED
  BY <1>3, <1>4

\* A step that keeps the maps and the snapshots keeps what they show.
LEMMA SameFound ==
  ASSUME UNCHANGED <<items, added, removed, snaps>>, NEW e, NEW m
  PROVE  Found(e, m)' = Found(e, m)
  BY DEF Found, Current

\* No step changes what a snapshot shows.
LEMMA SnapshotStep ==
  ASSUME TypeOK, OneOwner, NotHeld, [Next]_vars,
         NEW e \in Enumerators, NEW m \in MapNames,
         snaps[e] # NoSnapshot, snaps'[e] # NoSnapshot
  PROVE  Found(e, m)' = Found(e, m)
<1> USE DEF Goto, sharedVars, ownVars, heldVars, observerVars, histVars
<1>1. ASSUME NEW c \in Clients, Starts(c) \/ Idles(c) PROVE Found(e, m)' = Found(e, m)
  BY <1>1, SameFound DEF Starts, Begin, Resume, Acquire, Idles, Wait, GiveUp
<1>2. ASSUME NEW c \in Clients, End(c) PROVE Found(e, m)' = Found(e, m)
  <2>1. snaps' = Detached({"added", "removed"}) /\ UNCHANGED items
    BY <1>2 DEF End
  <2>2. \A n \in MapNames \ {"added", "removed"} : Current'[n] = Current[n]
    BY <2>1 DEF Current, MapNames
  <2> QED
    BY <2>1, <2>2, DetachKeeps
<1>3. ASSUME NEW c \in Clients, Edit(c) \/ Revert(c) PROVE Found(e, m)' = Found(e, m)
  <2> DEFINE changed == {n \in {"added", "removed"} :
                            Current[n] # IF n = "added" THEN added' ELSE removed'}
  <2>1. snaps' = Detached(changed) /\ UNCHANGED items
    BY <1>3, EditsMaps DEF Edits
  <2>2. \A n \in MapNames \ changed : Current'[n] = Current[n]
    BY <2>1 DEF Current, MapNames
  <2> HIDE DEF changed
  <2> QED
    BY <2>1, <2>2, DetachKeeps
<1>4. ASSUME NEW c \in Clients, Commit(c) PROVE Found(e, m)' = Found(e, m)
  <2>1. CASE CommitRemove(c)
    <3>1. snaps' = Detached({"items"}) /\ UNCHANGED <<added, removed>>
      BY <2>1 DEF CommitRemove
    <3>2. \A n \in MapNames \ {"items"} : Current'[n] = Current[n]
      BY <3>1 DEF Current, MapNames
    <3> QED
      BY <3>1, <3>2, DetachKeeps
  <2>2. CASE CommitAdd(c)
    <3>1. UNCHANGED <<added, removed, snaps>> /\ snaps[e]["items"] # Live
      BY <2>2 DEF CommitAdd, NotHeld, Committing
    <3> QED
      BY <3>1 DEF Found, Current, MapNames
  <2>3. CASE CommitFails(c)
    BY <2>3, SameFound DEF CommitFails
  <2>4. CASE Announce(c) \/ AnnounceEntry(c)
    BY <2>4, SameFound DEF Announce, AnnounceEntry
  <2>5. CASE AnnounceEnd(c)
    BY <2>5, SameFound DEF AnnounceEnd
  <2>6. CASE CommitReverts(c)
    <3>1. snaps' = Detached({"added", "removed"}) /\ UNCHANGED items
      BY <2>6 DEF CommitReverts
    <3>2. \A n \in MapNames \ {"added", "removed"} : Current'[n] = Current[n]
      BY <3>1 DEF Current, MapNames
    <3> QED
      BY <3>1, <3>2, DetachKeeps
  <2> QED
    BY <1>4, <2>1, <2>2, <2>3, <2>4, <2>5, <2>6 DEF Commit
<1>5. CASE Holds
  <2>1. snaps'[e] = snaps[e]
    BY <1>5 DEF Holds, Hold, Drop, Enumerate, EnumerateTransaction, Diff,
                AnnounceAndKeep, Advance, TypeOK
  <2> QED
    BY <1>5, <2>1, HoldsChange DEF Found, Current
<1>6. CASE Connects
  BY <1>6, SameFound DEF Connects, Connect, ConnectKey
<1>7. CASE UNCHANGED vars
  BY <1>7, SameFound DEF vars
<1> QED
  BY <1>1, <1>2, <1>3, <1>4, <1>5, <1>6, <1>7, NextSteps DEF Steps

\* An enumerator or a diff that is held shows the same entries however the
\* transaction edits, commits, reverts and ends: every change of a held map
\* detaches it first (CopyOnWrite), and Commit, which detaches the items
\* once and then adds to them in many steps, holds Guard until it is done,
\* so that no new enumerator can hold the items in between
\* (Commit and GetEnumerator of collection/TransactionalDictionary.h).
THEOREM SnapshotsNeverChange == Spec => SnapshotsStay
<1>1. TypeOK /\ StoreInv /\ NotHeld /\ WaitersAreWoken /\ [Next]_vars
        => [\A e \in Enumerators, m \in MapNames :
               snaps[e] # NoSnapshot /\ snaps'[e] # NoSnapshot
                   => Found(e, m)' = Found(e, m)]_vars
  BY SnapshotStep DEF StoreInv
<1> QED
  BY <1>1, Invariants, PTL DEF Spec, SnapshotsStay

-----------------------------------------------------------------------------
(* What a transaction answers *)

\* The enumerators of sound transactions are where they should be in maps
\* that agree.
WalksSound ==
    \A e \in Enumerators : snaps[e] # NoSnapshot /\ walks[e].sound =>
        /\ MapsAgree(Found(e, "items"), Found(e, "added"), Found(e, "removed"))
        /\ WalkSound(walks[e], Found(e, "items"), Found(e, "added"), Found(e, "removed"))

\* The maps of a sound transaction agree, unless it has just been committed.
LEMMA MapsAgreeNow ==
  ASSUME TypeOK, StoreInv, ~torn, ~Committing, \A c \in Clients : pc[c] # "announced"
  PROVE  MapsAgree(items, added, removed)
<1>1. store = items /\ Matched
  BY DEF StoreInv, Stored
<1> QED
  BY <1>1 DEF Matched, MapsAgree

\* The keys of a range are followed by keys of the range.
LEMMA RangesGoOn ==
  ASSUME TypeOK, NEW asc \in BOOLEAN, NEW keys \in Ranges(asc)
  PROVE  /\ keys \in SUBSET Keys
         /\ \A j \in keys, k \in Keys : Before(asc, j, k) => k \in keys
<1>1. CASE keys = Keys
  BY <1>1
<1>2. CASE keys # Keys
  <2>1. PICK i \in Entries(View) : keys = {j \in Keys : ~Before(asc, j, i)}
    BY <1>2 DEF Ranges
  <2>2. i \in Keys
    BY <2>1, EntriesAreKeys
  <2> QED
    BY <2>1, <2>2, BeforeOrders
<1> QED
  BY <1>1, <1>2

\* A new enumerator of a sound transaction.
LEMMA WalkBegins ==
  ASSUME TypeOK, NEW asc \in BOOLEAN, NEW keys \in Ranges(asc),
         MapsAgree(items, added, removed)
  PROVE  WalkSound(WalkOver(keys, asc), items, added, removed)
<1> DEFINE w == WalkOver(keys, asc)
<1>1. /\ keys \in SUBSET Keys
      /\ \A j \in keys, k \in Keys : Before(asc, j, k) => k \in keys
  BY RangesGoOn
<1>2. \A m : LET p == First(Entries(m) \cap keys, asc)
             IN  /\ p \in Entries(m) \cup {PastEnd}
                 /\ \A k \in Entries(m) : Reaches(p, k, asc) <=> k \in keys
  BY <1>1, BeginReaches
<1>3. /\ w.ascending = asc /\ w.ahead = keys
      /\ w.items = First(Entries(items) \cap keys, asc)
      /\ w.added = First(Entries(added) \cap keys, asc)
      /\ w.removed = First(Entries(removed) \cap keys, asc)
  BY DEF WalkOver
<1>4. Entries(removed) \subseteq Entries(items)
  BY DEF MapsAgree, Entries
<1> HIDE DEF w
<1>5. /\ w.items \in Entries(items) \cup {PastEnd}
      /\ \A k \in Entries(items) : Reaches(w.items, k, asc) <=> k \in keys
  BY <1>2, <1>3
<1>6. /\ w.added \in Entries(added) \cup {PastEnd}
      /\ \A k \in Entries(added) : Reaches(w.added, k, asc) <=> k \in keys
  BY <1>2, <1>3
<1>7. /\ w.removed \in Entries(removed) \cup {PastEnd}
      /\ \A k \in Entries(removed) : Reaches(w.removed, k, asc) <=> k \in keys
  BY <1>2, <1>3
<1>8. WalkSound(w, items, added, removed)
  BY <1>3, <1>4, <1>5, <1>6, <1>7 DEF WalkSound
<1> QED
  BY <1>8 DEF w

\* What a step does to the snapshot and the iterators of an enumerator.
LEMMA WalkKept ==
  ASSUME TypeOK, [Next]_vars, NEW e \in Enumerators
  PROVE  \/ walks'[e] = walks[e] /\ (snaps'[e] # NoSnapshot => snaps[e] # NoSnapshot)
         \/ walks'[e] = NoWalk
         \/ Advance(e)
         \/ \E c \in Clients : EnumerateTransaction(c, e)
<1> USE DEF TypeOK, Goto, sharedVars, ownVars, heldVars, observerVars, histVars
<1> DEFINE Kept == walks'[e] = walks[e] /\ (snaps'[e] # NoSnapshot => snaps[e] # NoSnapshot)
<1>0. \A changed : Detached(changed)[e] # NoSnapshot => snaps[e] # NoSnapshot
  BY DEF Detached
<1>1. ASSUME NEW c \in Clients, Starts(c) \/ Idles(c) PROVE Kept
  BY <1>1 DEF Starts, Begin, Resume, Acquire, Idles, Wait, GiveUp
<1>2. ASSUME NEW c \in Clients, End(c) PROVE Kept
  BY <1>0, <1>2 DEF End
<1>3. ASSUME NEW c \in Clients, Edit(c) \/ Revert(c) PROVE Kept
  BY <1>0, <1>3, EditsMaps DEF Edits
<1>4. ASSUME NEW c \in Clients, Commit(c) PROVE Kept
  BY <1>0, <1>4 DEF Commit, CommitRemove, CommitAdd, CommitFails, Announce, AnnounceEntry,
                    AnnounceEnd, CommitReverts
<1>5. ASSUME NEW f \in Enumerators, f # e,
             \/ Enumerate(f) \/ Advance(f) \/ Drop(f)
             \/ \E c \in Clients :
                   EnumerateTransaction(c, f) \/ Diff(c, f) \/ AnnounceAndKeep(c, f)
      PROVE  Kept
  BY <1>5 DEF Enumerate, Advance, Drop, EnumerateTransaction, Diff, AnnounceAndKeep, Hold
<1>6. ASSUME \/ Enumerate(e) \/ Drop(e)
             \/ \E c \in Clients : Diff(c, e) \/ AnnounceAndKeep(c, e)
      PROVE  walks'[e] = NoWalk
  BY <1>6 DEF Enumerate, Drop, Diff, AnnounceAndKeep, Hold
<1>7. CASE Connects
  BY <1>7 DEF Connects, Connect, ConnectKey
<1>8. CASE UNCHANGED vars
  BY <1>8 DEF vars
<1> HIDE DEF Kept
<1>9. ASSUME Holds
      PROVE  \/ Kept \/ walks'[e] = NoWalk \/ Advance(e)
             \/ \E c \in Clients : EnumerateTransaction(c, e)
  <2>1. PICK f \in Enumerators :
           \/ Enumerate(f) \/ Advance(f) \/ Drop(f)
           \/ \E c \in Clients :
                 EnumerateTransaction(c, f) \/ Diff(c, f) \/ AnnounceAndKeep(c, f)
    BY <1>9 DEF Holds
  <2>2. CASE f = e
    BY <1>6, <2>1, <2>2
  <2>3. CASE f # e
    BY <1>5, <2>1, <2>3
  <2> QED
    BY <2>2, <2>3
<1>10. Kept \/ walks'[e] = NoWalk \/ Advance(e) \/ \E c \in Clients : EnumerateTransaction(c, e)
  BY <1>1, <1>2, <1>3, <1>4, <1>7, <1>8, <1>9, NextSteps DEF Steps, Kept
<1> QED
  BY <1>10 DEF Kept

\* Going on is no reason to be sound or not.
LEMMA AdvanceKeeps ==
  ASSUME NEW w \in Walks, NEW x, NEW y
  PROVE  /\ [w EXCEPT !.items = x, !.ahead = y].sound = w.sound
         /\ [w EXCEPT !.added = x, !.ahead = y].sound = w.sound
         /\ [w EXCEPT !.items = x, !.removed = y].sound = w.sound
  BY DEF Walks

\* Every step keeps the enumerators sound: the maps they go through are
\* constant, whoever changes them.
LEMMA WalkSoundStep ==
  ASSUME TypeOK, TypeOK', StoreInv, NotHeld, WalksSound, [Next]_vars
  PROVE  WalksSound'
<1> SUFFICES ASSUME NEW e \in Enumerators, snaps'[e] # NoSnapshot, walks'[e].sound
             PROVE  /\ MapsAgree(Found(e, "items")', Found(e, "added")', Found(e, "removed")')
                    /\ WalkSound(walks'[e], Found(e, "items")', Found(e, "added")',
                                 Found(e, "removed")')
  BY DEF WalksSound
<1> DEFINE i == Found(e, "items")
           a == Found(e, "added")
           r == Found(e, "removed")
<1>1. walks[e] \in Walks /\ walks'[e] \in Walks
  BY DEF TypeOK
<1>2. ASSUME snaps[e] # NoSnapshot
      PROVE  i' = i /\ a' = a /\ r' = r
  BY <1>2, SnapshotStep DEF StoreInv, MapNames
<1>3. CASE walks'[e] = walks[e] /\ snaps[e] # NoSnapshot
  BY <1>2, <1>3 DEF WalksSound
<1>4. CASE walks'[e] = NoWalk
  BY <1>4 DEF NoWalk
<1>5. CASE Advance(e)
  <2> DEFINE w == walks[e]
             v == walks'[e]
  <2>1. snaps[e] # NoSnapshot
    BY <1>5 DEF Advance
  <2>2. v.sound = w.sound
    <3>1. PICK x, y : \/ v = [w EXCEPT !.items = x, !.ahead = y]
                      \/ v = [w EXCEPT !.added = x, !.ahead = y]
                      \/ v = [w EXCEPT !.items = x, !.removed = y]
      <4>1. \A z : walks' = [walks EXCEPT ![e] = z] => v = z
        BY DEF TypeOK
      <4>2. CASE EntryType(walks[e]) = "Items"
        BY <1>5, <4>1, <4>2 DEF Advance
      <4>3. CASE EntryType(walks[e]) = "Added"
        BY <1>5, <4>1, <4>3 DEF Advance
      <4>4. CASE EntryType(walks[e]) = "Removed"
        BY <1>5, <4>1, <4>4 DEF Advance
      <4> QED
        BY <1>5, <4>2, <4>3, <4>4 DEF Advance
    <3>2. w \in Walks
      BY <1>1
    <3> HIDE DEF w, v
    <3>3. /\ [w EXCEPT !.items = x, !.ahead = y].sound = w.sound
          /\ [w EXCEPT !.added = x, !.ahead = y].sound = w.sound
          /\ [w EXCEPT !.items = x, !.removed = y].sound = w.sound
      BY <3>2, AdvanceKeeps
    <3> QED
      BY <3>1, <3>3
  <2>3. MapsAgree(i, a, r) /\ WalkSound(w, i, a, r)
    BY <2>1, <2>2 DEF WalksSound
  <2>4. CASE EntryType(w) = "Items"
    <3>1. v = [w EXCEPT !.items = Following(i, w.items, w.ascending),
                        !.ahead = {j \in w.ahead : Before(w.ascending, w.items, j)}]
      BY <1>5, <2>4 DEF Advance, NextOf, AheadOf, TypeOK
    <3> HIDE DEF i, a, r, w, v
    <3>2. w \in Walks /\ v \in Walks
      BY <1>1 DEF w, v
    <3> QED
      BY <1>2, <2>1, <2>3, <2>4, <3>1, <3>2, PassItem DEF i, a, r, v
  <2>5. CASE EntryType(w) = "Added"
    <3>1. v = [w EXCEPT !.added = Following(a, w.added, w.ascending),
                        !.ahead = {j \in w.ahead : Before(w.ascending, w.added, j)}]
      BY <1>5, <2>5 DEF Advance, NextOf, AheadOf, TypeOK
    <3> HIDE DEF i, a, r, w, v
    <3>2. w \in Walks /\ v \in Walks
      BY <1>1 DEF w, v
    <3> QED
      BY <1>2, <2>1, <2>3, <2>5, <3>1, <3>2, PassAdded DEF i, a, r, v
  <2>6. CASE EntryType(w) = "Removed"
    <3>1. v = [w EXCEPT !.items = Following(i, w.items, w.ascending),
                        !.removed = Following(r, w.removed, w.ascending)]
      BY <1>5, <2>6 DEF Advance, NextOf, TypeOK
    <3> HIDE DEF i, a, r, w, v
    <3>2. w \in Walks /\ v \in Walks
      BY <1>1 DEF w, v
    <3> QED
      BY <1>2, <2>1, <2>3, <2>6, <3>1, <3>2, PassRemoved DEF i, a, r, v
  <2> QED
    BY <1>5, <2>4, <2>5, <2>6 DEF Advance
<1>6. CASE \E c \in Clients : EnumerateTransaction(c, e)
  <2>1. PICK c \in Clients : EnumerateTransaction(c, e)
    BY <1>6
  <2>2. PICK asc \in BOOLEAN : \E keys \in Ranges(asc) :
           Hold(e, [m \in MapNames |-> Live], WalkOver(keys, asc))
    BY <2>1 DEF EnumerateTransaction
  <2>3. PICK keys \in Ranges(asc) :
           Hold(e, [m \in MapNames |-> Live], WalkOver(keys, asc))
    BY <2>2
  <2>4. /\ walks'[e] = WalkOver(keys, asc)
        /\ snaps'[e] = [m \in MapNames |-> Live]
        /\ UNCHANGED <<items, added, removed>>
    BY <2>3 DEF Hold, TypeOK, sharedVars, ownVars
  <2>5. ~torn
    <3>1. WalkOver(keys, asc).sound
      BY <2>4
    <3>2. WalkOver(keys, asc).sound = (~torn)
      BY DEF WalkOver
    <3> QED
      BY <3>1, <3>2
  <2>6. ~Committing /\ \A d \in Clients : pc[d] # "announced"
    BY <2>1, OpenNotCommitting DEF EnumerateTransaction, StoreInv, OneOwner, InTransaction
  <2>7. MapsAgree(items, added, removed)
    BY <2>5, <2>6, MapsAgreeNow
  <2>8. WalkSound(WalkOver(keys, asc), items, added, removed)
    BY <2>7, WalkBegins
  <2>9. i' = items /\ a' = added /\ r' = removed
    BY <2>4 DEF Found, Current, MapNames
  <2> QED
    BY <2>4, <2>7, <2>8, <2>9
<1> QED
  BY <1>3, <1>4, <1>5, <1>6, WalkKept

\* A sound enumerator gives what it should.
LEMMA WalksAgree ==
  ASSUME TypeOK, WalksSound, NEW e \in Enumerators,
         snaps[e] # NoSnapshot, walks[e].sound
  PROVE  WalkAgrees(e)
<1> DEFINE i == Found(e, "items")
           a == Found(e, "added")
           r == Found(e, "removed")
           w == walks[e]
<1>1. w \in Walks
  BY DEF TypeOK
<1>2. MapsAgree(i, a, r) /\ WalkSound(w, i, a, r)
  BY DEF WalksSound
<1>3. Found(e, Source(w)) = IF EntryType(w) = "Items" THEN i ELSE a
  BY DEF Source
<1> HIDE DEF i, a, r, w
<1>4. EntryType(w) # "Broken"
  BY <1>1, <1>2, NeverBroken
<1>5. EntryType(w) # "Removed" =>
        LET shown == Overlay(i, a, r)
            m == IF EntryType(w) = "Items" THEN i ELSE a
        IN  /\ Position(w) = First(Entries(shown) \cap w.ahead, w.ascending)
            /\ Position(w) # PastEnd => m[Position(w)] = shown[Position(w)]
  BY <1>1, <1>2, GivesFirst
<1> QED
  BY <1>3, <1>4, <1>5 DEF WalkAgrees, i, a, r, w

\* What a transaction shows is a map.
LEMMA OverlayMaps ==
  ASSUME NEW i \in Maps, NEW a \in Maps, NEW r \in Maps
  PROVE  Overlay(i, a, r) \in Maps
  BY DEF Overlay, Maps

\* What the sizes of maps that agree say of the overlaid one.
LEMMA Sizes ==
  ASSUME NEW i \in Maps, NEW a \in Maps, NEW r \in Maps, MapsAgree(i, a, r)
  PROVE  LET shown == Overlay(i, a, r)
         IN  /\ Size(i) - Size(r) + Size(a) = Size(shown)
             /\ a = EmptyMap /\ Size(i) = Size(r) <=> shown = EmptyMap
<1> DEFINE shown == Overlay(i, a, r)
           I == Entries(i)
           A == Entries(a)
           R == Entries(r)
<1>1. /\ Entries(shown) = A \cup (I \ R)
      /\ A \cap (I \ R) = {}
      /\ R \subseteq I
  BY DEF Overlay, Entries, MapsAgree
<1>2. IsFiniteSet(I) /\ IsFiniteSet(A) /\ IsFiniteSet(R)
  <2>1. I \in SUBSET Keys /\ A \in SUBSET Keys /\ R \in SUBSET Keys
    BY DEF Entries
  <2> QED
    BY <2>1, KeysAssumption, FS_Subset
<1>3. /\ Cardinality(I) \in Nat /\ Cardinality(A) \in Nat /\ Cardinality(R) \in Nat
  BY <1>2, FS_CardinalityType
<1>4. \A m \in Maps : m = EmptyMap <=> Entries(m) = {}
  BY NoValueAssumption DEF Maps, EmptyMap, Entries
<1>5. shown \in Maps
  BY OverlayMaps
<1> HIDE DEF I, A, R, shown
<1>6. IsFiniteSet(I \ R) /\ Cardinality(I \ R) = Cardinality(I) - Cardinality(R)
  <2>1. I \cap R = R
    BY <1>1
  <2> QED
    BY <1>2, <2>1, FS_Difference
<1>7. Cardinality(A \cup (I \ R)) = Cardinality(A) + Cardinality(I \ R)
  <2>1. Cardinality(A \cup (I \ R)) =
          Cardinality(A) + Cardinality(I \ R) - Cardinality(A \cap (I \ R))
    BY <1>2, <1>6, FS_Union
  <2>2. Cardinality(A \cap (I \ R)) = 0
    BY <1>1, FS_EmptySet
  <2> QED
    BY <1>3, <1>6, <2>1, <2>2
<1>8. Cardinality(I) - Cardinality(R) + Cardinality(A) = Cardinality(Entries(shown))
  BY <1>1, <1>3, <1>6, <1>7
<1>9. A = {} /\ Cardinality(I) = Cardinality(R) <=> Entries(shown) = {}
  <2>1. Cardinality(I) = Cardinality(R) <=> I \ R = {}
    BY <1>3, <1>6, FS_EmptySet
  <2> QED
    BY <1>1, <2>1
<1>10. a = EmptyMap <=> A = {}
  BY <1>4 DEF A
<1>11. shown = EmptyMap <=> Entries(shown) = {}
  BY <1>4, <1>5
<1> QED
  BY <1>8, <1>9, <1>10, <1>11 DEF Size, I, A, R, shown

\* What the invariants say of the answers of a transaction.
LEMMA QueriesNow ==
  ASSUME TypeOK, StoreInv, WalksSound
  PROVE  QueriesAgree
<1>1. ASSUME ~torn, \A c \in Clients : pc[c] \notin {"adding", "announcing", "announced"}
      PROVE  CountsAgree
  <2>1. MapsAgree(items, added, removed)
    BY <1>1, MapsAgreeNow DEF Committing
  <2>2. /\ Size(items) - Size(removed) + Size(added) = Size(View)
        /\ added = EmptyMap /\ Size(items) = Size(removed) <=> View = EmptyMap
    BY <2>1, Sizes DEF View, TypeOK
  <2>3. ASSUME NEW k \in Keys
        PROVE  /\ CanAdd(k) <=> View[k] = NoValue
               /\ CanRemove(k) <=> View[k] # NoValue
    BY DEF CanAdd, CanRemove, View, Overlay
  <2> QED
    BY <2>2, <2>3 DEF CountsAgree
<1>2. ASSUME ~torn, NEW k \in todo PROVE items[k] = NoValue
  <2>1. Committing /\ k \in Keys
    BY DEF StoreInv, Stored, TypeOK
  <2>2. \A c \in Clients : pc[c] # "announced"
    BY <2>1 DEF Committing, StoreInv, OneOwner, InTransaction
  <2>3. added[k] # NoValue /\ store[k] # NoValue => removed[k] # NoValue
    BY <1>2, <2>1, <2>2 DEF StoreInv, Matched
  <2> QED
    BY <2>1, <2>3 DEF StoreInv, Halfway
<1>3. \A e \in Enumerators : snaps[e] # NoSnapshot /\ walks[e].sound => WalkAgrees(e)
  BY WalksAgree
<1> HIDE DEF CountsAgree, WalkAgrees
<1> QED
  BY <1>1, <1>2, <1>3 DEF QueriesAgree

\* What a transaction answers agrees with the map it stands for: an
\* enumerator, in either direction and from any key, gives the entries that
\* the transaction had when it was made, in order and with their values, and
\* its check of the removed entries never fails, while the transaction goes
\* on; GetCount, IsEmpty, Add and Remove tell what is there; and Commit finds
\* no key to add among the items. Except of a transaction whose Commit has
\* failed (SortedCollectionTransactionEnumerator of
\* collection/TransactionHelpers.h, TransactionImpl of
\* collection/TransactionalDictionary.h).
THEOREM AnswersAgree == Spec => []QueriesAgree
<1>1. Init => WalksSound
  BY DEF Init, WalksSound
<1>2. (/\ TypeOK /\ StoreInv /\ NotHeld /\ WaitersAreWoken
       /\ (TypeOK /\ StoreInv /\ NotHeld /\ WaitersAreWoken)'
       /\ WalksSound /\ [Next]_vars)
         => WalksSound'
  BY WalkSoundStep
<1>3. TypeOK /\ StoreInv /\ NotHeld /\ WaitersAreWoken /\ WalksSound => QueriesAgree
  BY QueriesNow
<1> QED
  BY <1>1, <1>2, <1>3, Invariants, PTL DEF Spec

-----------------------------------------------------------------------------
(* What the observers are told *)

\* What an observer should have at a key: while it goes through the diff, the
\* new value of the keys whose entries it has been given.
Heard(k) ==
    IF Announcing /\ k \in Entries(added) /\ ~Reaches(diff.added, k, TRUE)
    THEN added[k]
    ELSE IF Announcing /\ k \in Entries(removed) /\ ~Reaches(diff.removed, k, TRUE)
    THEN NoValue
    ELSE store[k]

ToldSound ==
    \/ missed
    \/ /\ \A o \in Observers : told[o] # Absent => \A k \in Keys : told[o][k] = Heard(k)
       /\ \A k \in WatchedKeys : keyTold[k] # Absent => keyTold[k] = Heard(k)

\* A step that tells nobody anything and changes nothing of what there is to
\* tell.
LEMMA SameHeard ==
  ASSUME ToldSound, \A k \in Keys : Heard(k)' = Heard(k),
         UNCHANGED <<told, keyTold>>, missed => missed'
  PROVE  ToldSound'
<1>1. CASE missed
  BY <1>1 DEF ToldSound
<1>2. CASE ~missed
  BY <1>2, WatchedAssumption DEF ToldSound
<1> QED
  BY <1>1, <1>2

\* An entry of the diff changes what there is to hear at its key.
LEMMA EntryHeard ==
  ASSUME TypeOK, StoreInv, NEW c \in Clients, AnnounceEntry(c)
  PROVE  \E k \in Keys, v \in Values \cup {NoValue} :
            /\ Tell(k, v)
            /\ \A j \in Keys : Heard(j)' = IF j = k THEN v ELSE Heard(j)
<1>1. /\ Announcing /\ Announcing'
      /\ UNCHANGED <<added, removed, store>>
      /\ DiffAgrees(diff, added, removed)
      /\ diff \in [added : Positions, removed : Positions]
  BY DEF AnnounceEntry, Announcing, ownVars, histVars, StoreInv, DiffSound, TypeOK
<1>2. Entries(added)' = Entries(added) /\ Entries(removed)' = Entries(removed)
  BY <1>1 DEF Entries
<1>3. CASE DiffEntryType(diff) = "Added"
  <2> DEFINE k0 == diff.added
  <2>1. /\ Tell(k0, added[k0])
        /\ diff'.added = Following(added, k0, TRUE) /\ diff'.removed = diff.removed
    BY <1>1, <1>3 DEF AnnounceEntry
  <2>2. /\ k0 \in Entries(added)
        /\ \A k \in Entries(added) : Reaches(diff'.added, k, TRUE)
                                       <=> Reaches(k0, k, TRUE) /\ k # k0
    BY ONLY <1>1, <1>3, <2>1, PassDiffAdded
  <2>3. k0 \in Keys /\ added[k0] \in Values \cup {NoValue}
    BY <2>2, EntriesAreKeys DEF TypeOK, Maps
  <2>4. ASSUME NEW j \in Keys
        PROVE  Heard(j)' = IF j = k0 THEN added[k0] ELSE Heard(j)
    BY <1>1, <1>2, <2>1, <2>2 DEF Heard
  <2> QED
    BY <2>1, <2>3, <2>4
<1>4. CASE DiffEntryType(diff) = "Removed"
  <2> DEFINE k0 == diff.removed
  <2>1. /\ Tell(k0, NoValue)
        /\ diff'.removed = Following(removed, k0, TRUE) /\ diff'.added = diff.added
    BY <1>1, <1>4 DEF AnnounceEntry
  <2>2. /\ k0 \in Entries(removed)
        /\ k0 \in Entries(added) => Reaches(diff.added, k0, TRUE)
        /\ \A k \in Entries(removed) : Reaches(diff'.removed, k, TRUE)
                                         <=> Reaches(k0, k, TRUE) /\ k # k0
    BY ONLY <1>1, <1>4, <2>1, PassDiffRemoved
  <2>3. k0 \in Keys
    BY <2>2, EntriesAreKeys
  <2>4. ASSUME NEW j \in Keys
        PROVE  Heard(j)' = IF j = k0 THEN NoValue ELSE Heard(j)
    BY <1>1, <1>2, <2>1, <2>2 DEF Heard
  <2> QED
    BY <2>1, <2>3, <2>4
<1> QED
  BY <1>3, <1>4 DEF AnnounceEntry

\* When the diff is at its end, what there is to hear are the items.
LEMMA AllHeard ==
  ASSUME TypeOK, StoreInv, NEW c \in Clients, AnnounceEnd(c), NEW k \in Keys
  PROVE  Heard(k) = items[k]
<1>1. Announcing /\ Committing /\ todo = {}
  BY DEF AnnounceEnd, Announcing, Committing, StoreInv, DiffSound
<1>2. diff.added = PastEnd /\ diff.removed = PastEnd
  BY DEF AnnounceEnd, DiffEntryType
<1>3. /\ added[k] # NoValue => items[k] = added[k]
      /\ added[k] = NoValue => items[k] = IF removed[k] = NoValue THEN store[k] ELSE NoValue
  BY <1>1 DEF StoreInv, Halfway
<1> QED
  BY <1>1, <1>2, <1>3 DEF Heard, Reaches, Entries

\* Every step keeps the observers sound.
LEMMA ToldStep ==
  ASSUME TypeOK, TypeOK', StoreInv, StoreInv', ToldSound, [Next]_vars
  PROVE  ToldSound'
<1> USE DEF Goto, sharedVars, ownVars, heldVars, observerVars, histVars
<1>0. /\ OneOwner /\ Stored /\ Halfway /\ DiffSound /\ Stored'
      /\ pc \in [Clients -> {"idle", "waiting", "woken",
                             "open", "adding", "announcing", "announced"}]
  BY DEF StoreInv, TypeOK
\* Nobody announces before the step nor after it, and the store stays.
<1> DEFINE Silent == /\ ~Announcing /\ ~Announcing'
                     /\ UNCHANGED <<store, told, keyTold, missed>>
<1>1. Silent => ToldSound'
  <2>1. ASSUME Silent, NEW k \in Keys PROVE Heard(k)' = Heard(k)
    BY <2>1 DEF Heard
  <2> QED
    BY <2>1, SameHeard
<1>2. ASSUME UNCHANGED <<added, removed, diff, store, told, keyTold, missed>>,
             Announcing' <=> Announcing
      PROVE  ToldSound'
  <2>1. ASSUME NEW k \in Keys PROVE Heard(k)' = Heard(k)
    BY <1>2 DEF Heard, Entries
  <2> QED
    BY <1>2, <2>1, SameHeard
<1>3. ASSUME NEW c \in Clients, Starts(c) \/ Idles(c) PROVE ToldSound'
  <2>1. UNCHANGED <<added, removed, diff, store, told, keyTold, missed>>
    BY <1>3 DEF Starts, Begin, Resume, Acquire, Idles, Wait, GiveUp
  <2>2. Announcing' <=> Announcing
    BY <1>0, <1>3 DEF Starts, Begin, Resume, Acquire, Idles, Wait, GiveUp, Announcing
  <2> QED
    BY <1>2, <2>1, <2>2
<1>4. ASSUME NEW c \in Clients, End(c) PROVE ToldSound'
  <2>1. Silent
    BY <1>0, <1>4 DEF End, OneOwner, InTransaction, Announcing
  <2> QED
    BY <1>1, <2>1
<1>5. ASSUME NEW c \in Clients, Edit(c) \/ Revert(c) PROVE ToldSound'
  <2>1. Silent
    BY <1>0, <1>5, EditsMaps DEF Edits, OneOwner, InTransaction, Announcing
  <2> QED
    BY <1>1, <2>1
<1>6. ASSUME NEW c \in Clients, CommitRemove(c) \/ CommitAdd(c) \/ CommitReverts(c)
      PROVE  ToldSound'
  <2>1. Silent
    BY <1>0, <1>6 DEF CommitRemove, CommitAdd, CommitReverts, OneOwner, InTransaction,
                      Announcing
  <2> QED
    BY <1>1, <2>1
<1>7. ASSUME NEW c \in Clients, CommitFails(c) PROVE ToldSound'
  <2>1. ~Announcing /\ ~Announcing' /\ UNCHANGED <<told, keyTold>>
        /\ store' = items /\ missed' = (missed \/ items # store)
    BY <1>0, <1>7 DEF CommitFails, OneOwner, InTransaction, Announcing
  <2>2. CASE items = store
    <3>1. \A k \in Keys : Heard(k)' = Heard(k)
      BY <2>1, <2>2 DEF Heard
    <3> QED
      BY <2>1, <3>1, SameHeard
  <2>3. CASE items # store
    BY <2>1, <2>3 DEF ToldSound
  <2> QED
    BY <2>2, <2>3
<1>8. ASSUME NEW c \in Clients, Announce(c) PROVE ToldSound'
  <2>1. /\ ~Announcing /\ UNCHANGED <<added, removed, store, told, keyTold, missed>>
        /\ diff' = [added |-> First(Entries(added), TRUE),
                    removed |-> First(Entries(removed), TRUE)]
    BY <1>0, <1>8 DEF Announce, OneOwner, InTransaction, Announcing
  <2>2. \A m : Entries(m) \cap Keys = Entries(m)
    BY DEF Entries
  <2>3. \A m : \A k \in Entries(m) : Reaches(First(Entries(m), TRUE), k, TRUE)
    <3>1. SUFFICES ASSUME NEW m, NEW k \in Entries(m)
                   PROVE  Reaches(First(Entries(m), TRUE), k, TRUE)
      OBVIOUS
    <3>2. k \in Keys /\ Entries(m) \cap Keys = Entries(m)
      BY <2>2, EntriesAreKeys
    <3> QED
      BY <3>2, BeginReaches
  <2>4. /\ \A k \in Entries(added) : Reaches(diff'.added, k, TRUE)
        /\ \A k \in Entries(removed) : Reaches(diff'.removed, k, TRUE)
    BY <2>1, <2>3
  <2>5. Entries(added)' = Entries(added) /\ Entries(removed)' = Entries(removed)
    BY <2>1 DEF Entries
  <2>6. ASSUME NEW k \in Keys PROVE Heard(k)' = Heard(k)
    BY <2>1, <2>4, <2>5 DEF Heard
  <2> QED
    BY <2>1, <2>6, SameHeard
<1>9. ASSUME NEW c \in Clients, AnnounceEntry(c) PROVE ToldSound'
  <2>1. PICK k \in Keys, v \in Values \cup {NoValue} :
           /\ Tell(k, v)
           /\ \A j \in Keys : Heard(j)' = IF j = k THEN v ELSE Heard(j)
    BY <1>9, EntryHeard
  <2>2. UNCHANGED missed
    BY <1>9 DEF AnnounceEntry
  <2>3. ASSUME ~missed, NEW o \in Observers, told'[o] # Absent, NEW j \in Keys
        PROVE  told'[o][j] = Heard(j)'
    <3>1. told[o] # Absent /\ told'[o] = With(told[o], k, v)
      BY <2>1, <2>3 DEF Tell
    <3>2. told[o] \in Maps /\ told[o][j] = Heard(j)
      BY <2>3, <3>1 DEF ToldSound, TypeOK
    <3> QED
      BY <2>1, <3>1, <3>2 DEF With, Maps
  <2>4. ASSUME ~missed, NEW j \in WatchedKeys, keyTold'[j] # Absent
        PROVE  keyTold'[j] = Heard(j)'
    <3>1. j \in Keys /\ keyTold[j] # Absent => keyTold[j] = Heard(j)
      BY <2>4, WatchedAssumption DEF ToldSound
    <3>2. j \in Keys /\ keyTold[j] # Absent
      BY <2>1, <2>4, WatchedAssumption DEF Tell
    <3> QED
      BY <2>1, <2>4, <3>1, <3>2 DEF Tell
  <2> QED
    BY <2>2, <2>3, <2>4 DEF ToldSound
<1>10. ASSUME NEW c \in Clients, AnnounceEnd(c) PROVE ToldSound'
  <2>1. /\ ~Announcing' /\ store' = items /\ UNCHANGED <<told, keyTold, missed>>
    BY <1>0, <1>10 DEF AnnounceEnd, OneOwner, InTransaction, Announcing
  <2>2. ASSUME NEW k \in Keys PROVE Heard(k)' = Heard(k)
    <3>1. Heard(k)' = store'[k]
      BY <2>1 DEF Heard
    <3> QED
      BY <1>10, <2>1, <3>1, AllHeard
  <2> QED
    BY <2>1, <2>2, SameHeard
<1>11. CASE Holds
  <2>1. UNCHANGED <<pc, added, removed, diff, store, missed>>
    BY <1>11, HoldsChange
  <2>2. UNCHANGED <<told, keyTold>>
    BY <1>11 DEF Holds, Hold, Drop, Enumerate, EnumerateTransaction, Diff, AnnounceAndKeep,
                 Advance
  <2>3. Announcing' <=> Announcing
    BY <2>1 DEF Announcing
  <2> QED
    BY <1>2, <2>1, <2>2, <2>3
<1>12. CASE Connects
  <2>1. UNCHANGED <<pc, items, guard, added, removed, diff, store, missed>>
    BY <1>12, HoldsChange
  <2>2. guard = NoClient
    BY <1>12 DEF Connects, Connect, ConnectKey
  <2>3. ~Committing
    BY <1>0, <2>2, NoClientAssumption DEF OneOwner, Committing
  <2>4. ~Announcing /\ ~Announcing' /\ store = items
    BY <1>0, <2>1, <2>3 DEF Stored, Committing, Announcing
  <2>5. \A k \in Keys : Heard(k) = items[k] /\ Heard(k)' = items[k]
    BY <2>1, <2>4 DEF Heard
  <2>6. ASSUME ~missed, NEW o \in Observers, told'[o] # Absent, NEW k \in Keys
        PROVE  told'[o][k] = items[k]
    <3>1. told'[o] = told[o] \/ told'[o] = items
      BY <1>12 DEF Connects, Connect, ConnectKey, TypeOK
    <3> QED
      BY <2>5, <2>6, <3>1 DEF ToldSound
  <2>7. ASSUME ~missed, NEW k \in WatchedKeys, keyTold'[k] # Absent
        PROVE  keyTold'[k] = items[k]
    <3>1. keyTold'[k] = keyTold[k] \/ keyTold'[k] = items[k]
      BY <1>12 DEF Connects, Connect, ConnectKey, TypeOK
    <3> QED
      BY <2>5, <2>7, <3>1, WatchedAssumption DEF ToldSound
  <2> QED
    BY <2>1, <2>5, <2>6, <2>7, WatchedAssumption DEF ToldSound
<1>13. CASE UNCHANGED vars
  <2>1. UNCHANGED <<pc, added, removed, diff, store, told, keyTold, missed>>
    BY <1>13 DEF vars
  <2>2. Announcing' <=> Announcing
    BY <2>1 DEF Announcing
  <2> QED
    BY <1>2, <2>1, <2>2
<1> QED
  BY <1>3, <1>4, <1>5, <1>6, <1>7, <1>8, <1>9, <1>10, <1>11, <1>12, <1>13, NextSteps
     DEF Steps, Commit

\* What the invariants say of the observers.
LEMMA ToldNow ==
  ASSUME TypeOK, StoreInv, ToldSound
  PROVE  ObserversFollow
<1> SUFFICES ASSUME ~missed, guard = NoClient
             PROVE  /\ \A o \in Observers : told[o] \in {Absent, items}
                    /\ \A k \in WatchedKeys : keyTold[k] \in {Absent, items[k]}
  BY DEF ObserversFollow
<1>1. ~Committing
  BY NoClientAssumption DEF StoreInv, OneOwner, Committing
<1>2. \A k \in Keys : Heard(k) = items[k]
  BY <1>1 DEF StoreInv, Stored, Heard, Committing, Announcing
<1>3. ASSUME NEW o \in Observers, told[o] # Absent PROVE told[o] = items
  <2>1. told[o] \in Maps /\ items \in Maps
    BY <1>3 DEF TypeOK
  <2>2. \A k \in Keys : told[o][k] = items[k]
    BY <1>2, <1>3 DEF ToldSound
  <2> QED
    BY <2>1, <2>2 DEF Maps
<1>4. ASSUME NEW k \in WatchedKeys, keyTold[k] # Absent PROVE keyTold[k] = items[k]
  BY <1>2, <1>4, WatchedAssumption DEF ToldSound
<1> QED
  BY <1>3, <1>4

\* Whoever applies the diffs of OnChanged, which come under Guard after the
\* items have changed entry by entry, has the content of the dictionary
\* whenever Guard is free, and the last thing that the slot of a watched key
\* was told is the value of its key; for of two entries with one key the
\* removed one comes first. Unless a Commit has failed half way, which is not
\* announced (Commit of collection/TransactionalDictionary.h,
\* SortedCollectionTransactionDiffEnumerator of collection/TransactionHelpers.h,
\* InvokeOnChanged of collection/TransactionalDictionaryKeyValue.h).
THEOREM ObserversHaveTheItems == Spec => []ObserversFollow
<1>1. Init => ToldSound
  BY DEF Init, ToldSound
<1>2. (/\ TypeOK /\ StoreInv /\ NotHeld /\ WaitersAreWoken
       /\ (TypeOK /\ StoreInv /\ NotHeld /\ WaitersAreWoken)'
       /\ ToldSound /\ [Next]_vars)
         => ToldSound'
  BY ToldStep
<1>3. TypeOK /\ StoreInv /\ NotHeld /\ WaitersAreWoken /\ ToldSound => ObserversFollow
  BY ToldNow
<1> QED
  BY <1>1, <1>2, <1>3, Invariants, PTL DEF Spec

-----------------------------------------------------------------------------
(* The refinement *)

Transacting == {"open", "adding", "announcing", "announced"}

\* Whoever is alone in a transaction is the owner.
LEMMA OwnerIs ==
  ASSUME NEW p, NEW c \in Clients, p[c] \in Transacting,
         \A d \in Clients : p[d] \in Transacting => d = c
  PROVE  (IF \E d \in Clients : p[d] \in Transacting
          THEN CHOOSE d \in Clients : p[d] \in Transacting ELSE NoClient) = c
  OBVIOUS

\* The owner is who is in a transaction.
LEMMA OwnerNow ==
  ASSUME OneOwner
  PROVE  /\ \A c \in Clients : InTransaction(c) => Owner = c
         /\ (\A c \in Clients : ~InTransaction(c)) => Owner = NoClient
  BY OwnerIs DEF OneOwner, Owner, InTransaction, Transacting

\* The same of the next state.
LEMMA OwnerNext ==
  ASSUME OneOwner'
  PROVE  /\ \A c \in Clients : InTransaction(c)' => Owner' = c
         /\ (\A c \in Clients : ~InTransaction(c)') => Owner' = NoClient
  BY OwnerIs DEF OneOwner, Owner, InTransaction, Transacting

\* The owner stays while the same clients are in a transaction.
LEMMA OwnerStays ==
  ASSUME OneOwner, OneOwner',
         \A c \in Clients : InTransaction(c)' <=> InTransaction(c)
  PROVE  Owner' = Owner
  BY OwnerNow, OwnerNext

\* A transaction that has changed nothing shows the items.
LEMMA OverlayEmpty ==
  ASSUME NEW i \in Maps
  PROVE  Overlay(i, EmptyMap, EmptyMap) = i
  BY DEF Overlay, EmptyMap, Maps

\* An edit of a sound transaction puts a value at a key of its view or
\* erases some pairs from it.
LEMMA EditView ==
  ASSUME TypeOK, NEW c \in Clients, Edit(c), Owner = c,
         \A k \in Keys : added[k] # NoValue /\ items[k] # NoValue => removed[k] # NoValue
  PROVE  \/ \E k \in Keys, v \in Values : Store!Put(c, k, v)
         \/ \E pairs \in SUBSET Store!Pairs : Store!Erase(c, pairs)
<1> USE OffersAssumption, NoValueAssumption
        DEF TypeOK, Maps, EmptyMap, With, Change, View, Overlay, Store!Put, Store!Erase,
            Store!Pairs, sharedVars
<1>1. ASSUME NEW p \in Offers, Add(c, p[1], p[2]) PROVE Store!Put(c, p[1], p[2])
  BY <1>1, ZenonT(40) DEF Add, CanAdd
<1>2. ASSUME NEW p \in Offers, Set(c, p[1], p[2]) PROVE Store!Put(c, p[1], p[2])
  <2>1. CASE items[p[1]] = p[2]
    BY <1>2, <2>1, ZenonT(40) DEF Set
  <2>2. CASE items[p[1]] # p[2]
    BY <1>2, <2>2, ZenonT(40) DEF Set
  <2> QED
    BY <2>1, <2>2
<1>3. ASSUME NEW k \in Keys, Remove(c, k) PROVE Store!Erase(c, {<<k, View[k]>>})
  <2>1. items' = items /\ View[k] # NoValue
    BY <1>3 DEF Remove, CanRemove
  <2>2. \A j \in Keys : View'[j] = IF j = k THEN NoValue ELSE View[j]
    <3>1. CASE added[k] # NoValue
      BY <1>3, <3>1 DEF Remove
    <3>2. CASE added[k] = NoValue
      BY <1>3, <3>2 DEF Remove, CanRemove
    <3> QED
      BY <3>1, <3>2
  <2> QED
    BY <2>2
<1>4. ASSUME NEW pairs \in SUBSET Offers, RemoveWhere(c, pairs)
      PROVE  Store!Erase(c, pairs)
  <2>1. \A k \in Keys : View'[k] = IF <<k, View[k]>> \in pairs THEN NoValue ELSE View[k]
    <3>1. SUFFICES ASSUME NEW k \in Keys
                   PROVE  View'[k] = IF <<k, View[k]>> \in pairs THEN NoValue ELSE View[k]
      OBVIOUS
    <3>2. items' = items
      BY <1>4 DEF RemoveWhere
    <3>3. added'[k] = IF <<k, added[k]>> \in pairs THEN NoValue ELSE added[k]
      BY <1>4 DEF RemoveWhere
    <3>4. removed'[k] = IF removed[k] = NoValue /\ <<k, items[k]>> \in pairs
                        THEN items[k] ELSE removed[k]
      BY <1>4 DEF RemoveWhere
    <3>5. <<k, NoValue>> \notin pairs
      OBVIOUS
    <3> QED
      BY <3>2, <3>3, <3>4, <3>5
  <2> QED
    BY <2>1
<1>5. ASSUME Clear(c) PROVE Store!Erase(c, Store!Pairs)
  <2>1. \A k \in Keys : View'[k] = NoValue
    BY <1>5 DEF Clear
  <2>2. \A k \in Keys : View[k] \in Values \cup {NoValue}
    OBVIOUS
  <2> QED
    BY <2>1, <2>2
<1>6. \A k \in Keys : View[k] # NoValue => {<<k, View[k]>>} \in SUBSET Store!Pairs
  OBVIOUS
<1>7. ASSUME NEW k \in Keys, Remove(c, k) PROVE View[k] # NoValue
  BY <1>7 DEF Remove, CanRemove
<1>8. SUBSET Offers \subseteq SUBSET Store!Pairs
  OBVIOUS
<1> HIDE DEF View, Store!Put, Store!Erase, Store!Pairs
<1> QED
  BY <1>1, <1>2, <1>3, <1>4, <1>5, <1>6, <1>7, <1>8 DEF Edit

\* The dictionary starts as an empty store.
LEMMA InitRefines == Init => Store!Init
<1> SUFFICES ASSUME Init PROVE Store!Init
  OBVIOUS
<1>1. Owner = NoClient
  BY DEF Init, Owner, InTransaction
<1>2. EmptyMap \in Maps
  BY DEF EmptyMap, Maps
<1>3. View = EmptyMap
  BY <1>2, OverlayEmpty DEF Init, View
<1> QED
  BY <1>1, <1>3 DEF Init, Store!Init, EmptyMap

\* Every step of the dictionary is a step of the store or none.
LEMMA StepRefines ==
  ASSUME TypeOK, TypeOK', StoreInv, OneOwner', [Next]_vars
  PROVE  [Store!Next]_Store!vars
<1> USE DEF Goto, sharedVars, ownVars, heldVars, observerVars, histVars
<1> DEFINE Same == Owner' = Owner /\ View' = View /\ store' = store /\ torn' = torn
<1>0. /\ OneOwner /\ Stored /\ Halfway /\ Matched /\ DiffSound
      /\ items \in Maps /\ added \in Maps /\ removed \in Maps
      /\ pc \in [Clients -> {"idle", "waiting", "woken",
                           "open", "adding", "announcing", "announced"}]
  BY DEF StoreInv, TypeOK
<1>1. ASSUME NEW c \in Clients, Starts(c) PROVE Store!Start(c)
  <2>1. \A d \in Clients : ~InTransaction(d)
    BY <1>0, <1>1 DEF Starts, Begin, Resume, Acquire, OneOwner
  <2>2. Owner = NoClient
    BY <1>0, <2>1, OwnerNow
  <2>3. InTransaction(c)'
    BY <1>0, <1>1 DEF Starts, Begin, Resume, Acquire, InTransaction
  <2>4. Owner' = c
    BY <2>3, OwnerNext
  <2>5. store = items
    BY <1>0, <2>1 DEF Stored, Committing, InTransaction
  <2>6. View' = items /\ torn' = FALSE /\ store' = store
    <3>1. /\ added' = EmptyMap /\ removed' = EmptyMap /\ ~torn
          /\ UNCHANGED <<items, store, torn>>
      BY <1>0, <1>1 DEF Starts, Begin, Resume, Acquire, OneOwner
    <3>2. torn \in BOOLEAN
      BY DEF TypeOK
    <3> QED
      BY <1>0, <3>1, <3>2, OverlayEmpty DEF View
  <2> QED
    BY <2>2, <2>4, <2>5, <2>6 DEF Store!Start
<1>2. ASSUME NEW c \in Clients, Idles(c) PROVE Same
  <2>1. \A d \in Clients : InTransaction(d)' <=> InTransaction(d)
    BY <1>0, <1>2 DEF Idles, Wait, GiveUp, InTransaction
  <2>2. Owner' = Owner
    BY <1>0, <2>1, OwnerStays
  <2> QED
    BY <1>2, <2>2 DEF Idles, Wait, GiveUp, View
<1>3. ASSUME NEW c \in Clients, End(c) PROVE Store!End(c)
  <2>1. \A d \in Clients : InTransaction(d) <=> d = c
    BY <1>0, <1>3 DEF End, OneOwner, InTransaction
  <2>2. Owner = c
    BY <1>0, <2>1, OwnerNow
  <2>3. \A d \in Clients : ~InTransaction(d)'
    BY <1>0, <1>3, <2>1 DEF End, InTransaction
  <2>4. Owner' = NoClient
    BY <2>3, OwnerNext
  <2>5. store = items
    BY <1>0, <1>3, OpenNotCommitting DEF End, Stored
  <2>6. View' = items /\ torn' = FALSE /\ store' = store
    BY <1>0, <1>3, OverlayEmpty DEF End, View
  <2> QED
    BY <2>2, <2>4, <2>5, <2>6 DEF Store!End
<1>4. ASSUME NEW c \in Clients, Edit(c) PROVE Store!Edit(c)
  <2>1. Edits(c) /\ UNCHANGED torn
    <3>1. UNCHANGED torn
      BY <1>4 DEF Edit, Add, Set, Remove, RemoveWhere, Clear
    <3> QED
      BY <1>4, <3>1, EditsMaps
  <2>2. Owner = c /\ Owner' = Owner /\ store' = store
    BY <1>0, <2>1, OwnerNow DEF Edits, InTransaction, Owner
  <2>3. CASE torn
    <3>1. View' \in Maps
      BY <2>1, <1>0, OverlayMaps DEF Edits, View
    <3> QED
      BY <2>1, <2>2, <2>3, <3>1 DEF Store!Edit, Store!Maps, Maps
  <2>4. CASE ~torn
    <3>1. \A k \in Keys : added[k] # NoValue /\ items[k] # NoValue => removed[k] # NoValue
      BY <1>0, <2>1, <2>4, OpenNotCommitting
         DEF Edits, Matched, Stored, OneOwner, InTransaction
    <3> QED
      BY <1>4, <2>1, <2>2, <3>1, EditView DEF Store!Edit
  <2> QED
    BY <2>3, <2>4
<1>5. ASSUME NEW c \in Clients, Revert(c) PROVE Store!Revert(c)
  <2>1. pc[c] = "open" /\ UNCHANGED <<items, store, pc>> /\ torn' = FALSE
        /\ added' = EmptyMap /\ removed' = EmptyMap
    BY <1>5 DEF Revert, Change
  <2>2. Owner = c /\ Owner' = Owner
    BY <1>0, <2>1, OwnerNow DEF InTransaction, Owner
  <2>3. View' = store
    BY <1>0, <2>1, OverlayEmpty, OpenNotCommitting DEF View, Stored
  <2> QED
    BY <2>1, <2>2, <2>3 DEF Store!Revert
<1>6. ASSUME NEW c \in Clients, CommitReverts(c) PROVE Store!Revert(c)
  <2>1. pc[c] = "announced" /\ UNCHANGED <<items, store>> /\ torn' = FALSE
        /\ added' = EmptyMap /\ removed' = EmptyMap
        /\ pc' = [pc EXCEPT ![c] = "open"]
    BY <1>6 DEF CommitReverts
  <2>2. \A d \in Clients : InTransaction(d)' <=> InTransaction(d)
    BY <1>0, <2>1 DEF InTransaction
  <2>3. Owner = c /\ Owner' = Owner
    BY <1>0, <2>1, <2>2, OwnerNow, OwnerStays DEF InTransaction
  <2>4. View' = store
    BY <1>0, <2>1, OverlayEmpty, OpenNotCommitting DEF View, Stored
  <2> QED
    BY <2>1, <2>3, <2>4 DEF Store!Revert
<1>7. ASSUME NEW c \in Clients,
             \/ CommitRemove(c) \/ CommitAdd(c) \/ CommitFails(c)
             \/ Announce(c) \/ AnnounceEntry(c) \/ AnnounceEnd(c)
      PROVE  Owner = c /\ Owner' = Owner /\ UNCHANGED <<added, removed>>
  <2>1. InTransaction(c)
    BY <1>7 DEF CommitRemove, CommitAdd, CommitFails, Announce, AnnounceEntry,
                AnnounceEnd, InTransaction
  <2>2. \A d \in Clients : InTransaction(d)' <=> InTransaction(d)
    BY <1>0, <1>7 DEF CommitRemove, CommitAdd, CommitFails, Announce, AnnounceEntry,
                      AnnounceEnd, InTransaction
  <2> QED
    BY <1>0, <1>7, <2>1, <2>2, OwnerNow, OwnerStays
       DEF CommitRemove, CommitAdd, CommitFails, Announce, AnnounceEntry, AnnounceEnd
<1>8. ASSUME NEW c \in Clients, Announce(c) \/ AnnounceEntry(c) PROVE Same
  BY <1>7, <1>8 DEF Announce, AnnounceEntry, View
<1>9. ASSUME NEW c \in Clients, CommitRemove(c) PROVE Same
  BY <1>0, <1>7, <1>9 DEF CommitRemove, View, Overlay
<1>10. ASSUME NEW c \in Clients, CommitAdd(c) PROVE Same
  <2>1. PICK k \in todo : items' = With(items, k, added[k])
    BY <1>10 DEF CommitAdd
  <2>2. k \in Keys /\ added[k] # NoValue
    BY <1>0, <1>10, <2>1 DEF CommitAdd, Halfway, Committing, TypeOK
  <2>3. View' = View
    BY <1>0, <1>7, <1>10, <2>1, <2>2 DEF View, Overlay, With, Maps
  <2> QED
    BY <1>7, <1>10, <2>3 DEF CommitAdd
<1>11. ASSUME NEW c \in Clients, CommitFails(c) PROVE Same \/ Store!Tear(c)
  <2>1. View' = View /\ store' = items /\ Owner = c /\ Owner' = Owner
    BY <1>7, <1>11 DEF CommitFails, View
  <2>2. torn \in BOOLEAN /\ torn' = (torn \/ items # store)
    BY <1>11 DEF CommitFails, TypeOK
  <2>3. CASE items = store
    BY <2>1, <2>2, <2>3
  <2>4. CASE items # store
    <3>1. \A k \in Keys : items[k] \in {store[k], added[k], NoValue}
      BY <1>0, <1>11 DEF CommitFails, Halfway, Committing
    <3>2. \A k \in Keys : added[k] \in {View[k], NoValue}
      BY DEF View, Overlay
    <3>3. \A k \in Keys : items[k] \in {store[k], View[k], NoValue}
      BY <3>1, <3>2
    <3> QED
      BY <1>0, <2>1, <2>2, <2>4, <3>3 DEF Store!Tear, Store!Maps, Maps
  <2> QED
    BY <2>3, <2>4
<1>12. ASSUME NEW c \in Clients, AnnounceEnd(c) PROVE Store!Publish(c)
  <2>1. \A k \in Keys : items[k] = View[k]
    BY <1>0, <1>12 DEF AnnounceEnd, Halfway, Committing, DiffSound, Announcing, View, Overlay
  <2>2. items = View
    BY <1>0, <2>1 DEF View, Overlay, Maps
  <2>3. View' = View /\ store' = items /\ torn' = torn
    BY <1>7, <1>12 DEF AnnounceEnd, View
  <2> QED
    BY <1>7, <1>12, <2>2, <2>3 DEF Store!Publish
<1>13. CASE Holds \/ Connects
  <2>1. UNCHANGED <<items, added, removed, pc, store, torn>>
    BY <1>13, HoldsChange
  <2> QED
    BY <2>1 DEF Owner, InTransaction, View, Store!vars
<1>14. CASE UNCHANGED vars
  BY <1>14 DEF vars, Owner, InTransaction, View, Store!vars
<1>15. Same => UNCHANGED Store!vars
  BY DEF Store!vars
<1> HIDE DEF Same
<1>16. ASSUME NEW c \in Clients, Steps(c) PROVE Store!Next \/ Same
  BY <1>1, <1>2, <1>3, <1>4, <1>5, <1>6, <1>8, <1>9, <1>10, <1>11,
     <1>12, <1>16
     DEF Steps, Commit, Store!Next
<1> QED
  BY <1>13, <1>14, <1>15, <1>16, NextSteps

\* The dictionary is a store in which one transaction at a time works on a
\* view of its own and appears at once when it is committed, although Commit
\* erases and adds the entries one by one (TransactionImpl of
\* collection/TransactionalDictionary.h).
THEOREM DictionaryIsAStore == Spec => ImplementsStore
<1>1. Init => Store!Init
  BY InitRefines
<1>2. (/\ TypeOK /\ StoreInv /\ NotHeld /\ WaitersAreWoken
       /\ (TypeOK /\ StoreInv /\ NotHeld /\ WaitersAreWoken)'
       /\ [Next]_vars)
         => [Store!Next]_Store!vars
  BY StepRefines DEF StoreInv
<1> QED
  BY <1>1, <1>2, Invariants, PTL DEF Spec, ImplementsStore, Store!Spec

=============================================================================
