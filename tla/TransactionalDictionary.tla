----------------------- MODULE TransactionalDictionary ------------------------
(***************************************************************************)
(* collection/TransactionalDictionary.h: a map that changes by             *)
(* transactions, one at a time; with a single value it is the set of       *)
(* collection/TransactionalSet.h, whose transactions do the same.          *)
(*                                                                         *)
(* A transaction collects what it adds and removes and applies both to the *)
(* shared items in Commit. Enumerators and diffs do not copy the maps: a   *)
(* holder keeps a map as it is, and who changes a held map works on a copy *)
(* and leaves the old one to the holder (CopyOnWrite). A snapshot is Live  *)
(* in a map while it holds the current one, and otherwise has the content  *)
(* of the map that was left to it.                                         *)
(*                                                                         *)
(* Everything but a transaction's own maps is read and written under       *)
(* Guard, which Commit holds for many steps; the slots of OnChanged are    *)
(* called under it. Outside the model: slots that start a transaction.     *)
(***************************************************************************)
EXTENDS Integers, FiniteSets

CONSTANTS
    Clients,        \* the threads
    Keys, Values,
    Enumerators,    \* how many enumerators and diffs are held at a time
    Observers,      \* slots connected to OnChanged
    WatchedKeys,    \* keys with a TransactionalDictionaryKeyValue
    Offers,         \* bound: the pairs that clients add
    NoClient, NoValue, NoSnapshot,
    Live, Absent,
    PastEnd         \* an iterator behind the last entry

Maps == [Keys -> Values \cup {NoValue}]
EmptyMap == [k \in Keys |-> NoValue]
MapNames == {"items", "added", "removed"}

ASSUME KeysAssumption == Keys \subseteq Int /\ IsFiniteSet(Keys)
ASSUME PastEndAssumption == PastEnd \notin Keys
ASSUME WatchedAssumption == WatchedKeys \subseteq Keys
ASSUME OffersAssumption == Offers \subseteq Keys \X Values
ASSUME NoValueAssumption == NoValue \notin Values
ASSUME NoClientAssumption == NoClient \notin Clients
ASSUME LiveAssumption == Live \notin Maps
ASSUME SnapshotAssumption ==
    NoSnapshot \notin [MapNames -> Maps \cup {Live}]

VARIABLES
    items,          \* Items, the shared map
    hasTransaction, \* HasTransaction
    guard,          \* who holds Guard between steps
    added, removed, \* the maps of the transaction
    pc,             \* where each client is
    todo,           \* the keys that Commit has still to add
    snaps,          \* the snapshots that are held
    walks,          \* how far an enumerator of a transaction is with its one
    diff,           \* how far the slots of OnChanged are with the diff
    told,           \* what each observer has made of the diffs it was given
    keyTold,        \* what the slot of each watched key was told last
    store,          \* history: the items when no Commit is under way
    torn,           \* history: a Commit of this transaction has failed
    missed          \* history: a Commit has failed and nobody was told

sharedVars == <<items, hasTransaction, guard>>
ownVars == <<added, removed>>
heldVars == <<snaps, walks>>
observerVars == <<diff, told, keyTold>>
histVars == <<store, torn, missed>>
vars == <<sharedVars, ownVars, pc, todo, heldVars, observerVars, histVars>>

Current == [items |-> items, added |-> added, removed |-> removed]

\* What a reader of the transaction finds for a key.
Overlay(i, a, r) ==
    [k \in Keys |-> IF a[k] # NoValue THEN a[k]
                    ELSE IF r[k] # NoValue THEN NoValue
                    ELSE i[k]]

View == Overlay(items, added, removed)

InTransaction(c) == pc[c] \in {"open", "adding", "announcing", "announced"}

-----------------------------------------------------------------------------
(* Iterators: the key of an entry, or PastEnd.                              *)

Positions == Keys \cup {PastEnd}

Entries(m) == {k \in Keys : m[k] # NoValue}

Before(ascending, j, k) == IF ascending THEN j < k ELSE k < j

\* Where an iterator over some of a map's keys begins.
First(keys, ascending) ==
    IF keys = {} THEN PastEnd
    ELSE CHOOSE k \in keys : \A j \in keys : ~Before(ascending, j, k)

\* Where it is when it has left a key.
Following(m, k, ascending) ==
    First({j \in Entries(m) : Before(ascending, k, j)}, ascending)

\* How far an enumerator of a transaction is: its iterators into the three
\* maps. Of the history, ahead are the keys whose entries it has not given
\* yet, and sound is an enumerator that was not made after a failed Commit.
Walks == [ascending : BOOLEAN, items : Positions, added : Positions,
          removed : Positions, ahead : SUBSET Keys, sound : BOOLEAN]

NoWalk == [ascending |-> TRUE, items |-> PastEnd, added |-> PastEnd,
           removed |-> PastEnd, ahead |-> {}, sound |-> FALSE]

-----------------------------------------------------------------------------

Init ==
    /\ items = EmptyMap
    /\ hasTransaction = FALSE
    /\ guard = NoClient
    /\ added = EmptyMap /\ removed = EmptyMap
    /\ pc = [c \in Clients |-> "idle"]
    /\ todo = {}
    /\ snaps = [e \in Enumerators |-> NoSnapshot]
    /\ walks = [e \in Enumerators |-> NoWalk]
    /\ diff = [added |-> PastEnd, removed |-> PastEnd]
    /\ told = [o \in Observers |-> Absent]
    /\ keyTold = [k \in WatchedKeys |-> Absent]
    /\ store = EmptyMap
    /\ torn = FALSE
    /\ missed = FALSE

Goto(c, l) == pc' = [pc EXCEPT ![c] = l]

-----------------------------------------------------------------------------
(* Enumerators. Those of a transaction walk the three maps side by side.   *)

\* Mutated form of EntryType: the removed keys are not looked at.
EntryTypeIgnoringRemoved(w) ==
    IF w.items = PastEnd THEN IF w.added = PastEnd THEN "None" ELSE "Added"
    ELSE IF w.added # PastEnd /\ Before(w.ascending, w.added, w.items) THEN "Added"
    ELSE "Items"

\* UpdateEntryType: where the next entry comes from. At a broken invariant it
\* throws, and the enumerator is not used any more.
EntryType(w) ==
    IF w.items = PastEnd THEN IF w.added = PastEnd THEN "None" ELSE "Added"
    ELSE IF w.added # PastEnd /\ Before(w.ascending, w.added, w.items) THEN "Added"
    ELSE IF w.removed = PastEnd \/ Before(w.ascending, w.items, w.removed) THEN "Items"
    ELSE IF w.items = w.removed THEN "Removed" ELSE "Broken"

\* The snapshots when a map of a name in changed is about to change.
Detached(changed) ==
    [e \in Enumerators |->
        IF snaps[e] = NoSnapshot THEN NoSnapshot
        ELSE [m \in MapNames |->
                 IF m \in changed /\ snaps[e][m] = Live
                 THEN Current[m] ELSE snaps[e][m]]]

Hold(e, snapshot, walk) ==
    /\ snaps[e] = NoSnapshot
    /\ snaps' = [snaps EXCEPT ![e] = snapshot]
    /\ walks' = [walks EXCEPT ![e] = walk]
    /\ UNCHANGED <<sharedVars, ownVars, pc, todo, observerVars, histVars>>

\* GetEnumerator, Reverse, Find and ReverseFind of the dictionary ...
Enumerate(e) ==
    /\ guard = NoClient
    /\ Hold(e, [items |-> Live, added |-> EmptyMap, removed |-> EmptyMap], NoWalk)

\* The keys from one on (lower_bound), or all.
Ranges(ascending) ==
    {Keys} \cup {{j \in Keys : ~Before(ascending, j, k)} : k \in Entries(View)}

\* The iterators of a new enumerator.
WalkOver(keys, ascending) ==
    [ascending |-> ascending,
     items |-> First(Entries(items) \cap keys, ascending),
     added |-> First(Entries(added) \cap keys, ascending),
     removed |-> First(Entries(removed) \cap keys, ascending),
     ahead |-> keys, sound |-> ~torn]

\* ... and of a transaction; Find and ReverseFind begin at a key that is there.
EnumerateTransaction(c, e) ==
    /\ pc[c] = "open" /\ guard = NoClient
    /\ \E ascending \in BOOLEAN : \E keys \in Ranges(ascending) :
          Hold(e, [m \in MapNames |-> Live], WalkOver(keys, ascending))

\* What the holder of a snapshot finds in a map.
Found(e, m) == IF snaps[e][m] = Live THEN Current[m] ELSE snaps[e][m]

\* Where the iterator of an enumerator into a map goes next.
NextOf(e, m) == Following(Found(e, m), walks[e][m], walks[e].ascending)

\* The keys that are ahead when the entry with a key has been given.
AheadOf(e, k) == {j \in walks[e].ahead : Before(walks[e].ascending, k, j)}

\* A turn of the loop in Next of SortedCollectionTransactionEnumerator: it
\* goes on while it is at a removed entry.
Advance(e) ==
    /\ snaps[e] # NoSnapshot
    /\ \/ /\ EntryType(walks[e]) = "Items"
          /\ walks' = [walks EXCEPT ![e] =
                [@ EXCEPT !.items = NextOf(e, "items"),
                          !.ahead = AheadOf(e, walks[e].items)]]
       \/ /\ EntryType(walks[e]) = "Added"
          /\ walks' = [walks EXCEPT ![e] =
                [@ EXCEPT !.added = NextOf(e, "added"),
                          !.ahead = AheadOf(e, walks[e].added)]]
       \/ /\ EntryType(walks[e]) = "Removed"
          /\ walks' = [walks EXCEPT ![e] =
                [@ EXCEPT !.items = NextOf(e, "items"),
                          !.removed = NextOf(e, "removed")]]
    /\ UNCHANGED <<sharedVars, ownVars, pc, todo, snaps, observerVars, histVars>>

Diff(c, e) ==
    /\ pc[c] = "open"
    /\ Hold(e, [items |-> EmptyMap, added |-> Live, removed |-> Live], NoWalk)

Drop(e) ==
    /\ snaps[e] # NoSnapshot
    /\ snaps' = [snaps EXCEPT ![e] = NoSnapshot]
    /\ walks' = [walks EXCEPT ![e] = NoWalk]
    /\ UNCHANGED <<sharedVars, ownVars, pc, todo, observerVars, histVars>>

-----------------------------------------------------------------------------
(* The beginning and the end of a transaction *)

Acquire(c) ==
    /\ guard = NoClient
    /\ ~hasTransaction
    /\ hasTransaction' = TRUE
    /\ Goto(c, "open")
    /\ UNCHANGED <<items, guard, ownVars, todo, heldVars, observerVars, histVars>>

Begin(c) == pc[c] = "idle" /\ Acquire(c)

\* There is a transaction: the constructor waits for the end of it.
Wait(c) ==
    /\ pc[c] \in {"idle", "woken"} /\ guard = NoClient
    /\ hasTransaction
    /\ Goto(c, "waiting")
    /\ UNCHANGED <<sharedVars, ownVars, todo, heldVars, observerVars, histVars>>

\* Mutated form of Resume: who was woken does not look again.
ResumeUnchecked(c) ==
    /\ pc[c] = "woken" /\ guard = NoClient
    /\ hasTransaction' = TRUE
    /\ Goto(c, "open")
    /\ UNCHANGED <<items, guard, ownVars, todo, heldVars, observerVars, histVars>>

Resume(c) == pc[c] = "woken" /\ Acquire(c)

\* The token is cancelled or its time has passed: the constructor throws.
GiveUp(c) ==
    /\ pc[c] \in {"waiting", "woken"} /\ guard = NoClient
    /\ Goto(c, "idle")
    /\ UNCHANGED <<sharedVars, ownVars, todo, heldVars, observerVars, histVars>>

\* Mutated form of End: the broadcast is forgotten.
EndSilently(c) ==
    /\ pc[c] = "open" /\ guard = NoClient
    /\ hasTransaction' = FALSE
    /\ Goto(c, "idle")
    /\ snaps' = Detached({"added", "removed"})
    /\ added' = EmptyMap /\ removed' = EmptyMap
    /\ torn' = FALSE
    /\ UNCHANGED <<items, guard, todo, walks, observerVars, store, missed>>

\* The destructor; what the transaction has not committed goes with it.
End(c) ==
    /\ pc[c] = "open" /\ guard = NoClient
    /\ hasTransaction' = FALSE
    /\ pc' = [d \in Clients |->
                 CASE d = c -> "idle"
                   [] pc[d] = "waiting" -> "woken"
                   [] OTHER -> pc[d]]
    /\ snaps' = Detached({"added", "removed"})
    /\ added' = EmptyMap /\ removed' = EmptyMap
    /\ torn' = FALSE
    /\ UNCHANGED <<items, guard, todo, walks, observerVars, store, missed>>

-----------------------------------------------------------------------------
(* The operations of a transaction *)

\* An operation of the transaction of c gives its maps other contents.
Change(c, a, r) ==
    /\ pc[c] = "open"
    /\ added' = a /\ removed' = r
    /\ snaps' = Detached({m \in {"added", "removed"} :
                             Current[m] # IF m = "added" THEN a ELSE r})
    /\ UNCHANGED <<sharedVars, pc, todo, walks, observerVars, store, missed>>

With(m, k, v) == [m EXCEPT ![k] = v]

\* Whether Add returns true.
CanAdd(k) ==
    /\ added[k] = NoValue
    /\ items[k] # NoValue => removed[k] # NoValue

\* Adding what was removed takes the removal back.
Add(c, k, v) ==
    /\ CanAdd(k)
    /\ IF items[k] = v THEN Change(c, added, With(removed, k, NoValue))
       ELSE Change(c, With(added, k, v), removed)
    /\ UNCHANGED torn

\* Mutated form of Set: the value in the items is not noted as removed.
SetUnnoted(c, k, v) ==
    /\ IF items[k] = v
       THEN Change(c, With(added, k, NoValue), With(removed, k, NoValue))
       ELSE Change(c, With(added, k, v), removed)
    /\ UNCHANGED torn

Set(c, k, v) ==
    /\ IF items[k] = v
       THEN Change(c, With(added, k, NoValue), With(removed, k, NoValue))
       ELSE Change(c, With(added, k, v),
                   IF removed[k] = NoValue THEN With(removed, k, items[k])
                                           ELSE removed)
    /\ UNCHANGED torn

\* Whether Remove returns true.
CanRemove(k) ==
    added[k] # NoValue \/ (removed[k] = NoValue /\ items[k] # NoValue)

Remove(c, k) ==
    /\ CanRemove(k)
    /\ IF added[k] # NoValue THEN Change(c, With(added, k, NoValue), removed)
       ELSE Change(c, added, With(removed, k, items[k]))
    /\ UNCHANGED torn

\* RemoveWhere, for a predicate that holds of some pairs.
RemoveWhere(c, pairs) ==
    /\ Change(c,
              [k \in Keys |-> IF <<k, added[k]>> \in pairs
                              THEN NoValue ELSE added[k]],
              [k \in Keys |-> IF removed[k] = NoValue /\ <<k, items[k]>> \in pairs
                              THEN items[k] ELSE removed[k]])
    /\ UNCHANGED torn

Clear(c) == Change(c, EmptyMap, items) /\ UNCHANGED torn

Revert(c) == Change(c, EmptyMap, EmptyMap) /\ torn' = FALSE

-----------------------------------------------------------------------------
(* Commit *)

\* Mutated form of CommitRemove: a held map of items is changed in place.
CommitRemoveInPlace(c) ==
    /\ pc[c] = "open" /\ guard = NoClient
    /\ added # EmptyMap \/ removed # EmptyMap
    /\ guard' = c
    /\ items' = [k \in Keys |-> IF removed[k] # NoValue THEN NoValue ELSE items[k]]
    /\ todo' = {k \in Keys : added[k] # NoValue}
    /\ Goto(c, "adding")
    /\ UNCHANGED <<hasTransaction, ownVars, heldVars, observerVars, histVars>>

\* Guard is locked and what was removed is erased.
CommitRemove(c) ==
    /\ pc[c] = "open" /\ guard = NoClient
    /\ added # EmptyMap \/ removed # EmptyMap
    /\ guard' = c
    /\ snaps' = Detached({"items"})
    /\ items' = [k \in Keys |-> IF removed[k] # NoValue THEN NoValue ELSE items[k]]
    /\ todo' = {k \in Keys : added[k] # NoValue}
    /\ Goto(c, "adding")
    /\ UNCHANGED <<hasTransaction, ownVars, walks, observerVars, histVars>>

\* The next key in order is added.
CommitAdd(c) ==
    /\ pc[c] = "adding"
    /\ \E k \in todo :
        /\ \A j \in todo : k <= j
        /\ items[k] = NoValue
        /\ items' = With(items, k, added[k])
        /\ todo' = todo \ {k}
    /\ UNCHANGED <<hasTransaction, guard, ownVars, pc, heldVars, observerVars, histVars>>

\* Adding throws, as the key is there or as there is no memory: the guard is
\* unlocked and nothing is undone.
CommitFails(c) ==
    /\ pc[c] = "adding" /\ todo # {}
    /\ guard' = NoClient
    /\ todo' = {}
    /\ Goto(c, "open")
    /\ store' = items
    /\ torn' = (torn \/ items # store)
    /\ missed' = (missed \/ items # store)
    /\ UNCHANGED <<items, hasTransaction, ownVars, heldVars, observerVars>>

\* The slots are called with the diff: its iterators are at the beginning.
Announce(c) ==
    /\ pc[c] = "adding" /\ todo = {}
    /\ diff' = [added |-> First(Entries(added), TRUE),
                removed |-> First(Entries(removed), TRUE)]
    /\ Goto(c, "announcing")
    /\ UNCHANGED <<sharedVars, ownVars, todo, heldVars, told, keyTold, histVars>>

\* Mutated form of DiffEntryType: of two entries with one key the added one
\* comes first.
DiffEntryTypeAddedFirst(d) ==
    IF d.added = PastEnd THEN IF d.removed = PastEnd THEN "None" ELSE "Removed"
    ELSE IF d.removed = PastEnd \/ d.added <= d.removed THEN "Added" ELSE "Removed"

\* UpdateEntryType of a diff: of two entries with one key the removed one
\* comes first.
DiffEntryType(d) ==
    IF d.added = PastEnd THEN IF d.removed = PastEnd THEN "None" ELSE "Removed"
    ELSE IF d.removed = PastEnd \/ d.added < d.removed THEN "Added" ELSE "Removed"

\* The observers apply an entry to what they have, and the slot of a watched
\* key remembers the last entry with the key (InvokeOnChanged).
Tell(k, value) ==
    /\ told' = [o \in Observers |->
                   IF told[o] = Absent THEN Absent ELSE With(told[o], k, value)]
    /\ keyTold' = [j \in WatchedKeys |->
                      IF keyTold[j] = Absent \/ j # k THEN keyTold[j] ELSE value]

\* The slots go through the diff one after the other and nobody sees how far
\* they are, as Guard is locked: here they do it side by side.
AnnounceEntry(c) ==
    /\ pc[c] = "announcing"
    /\ \/ /\ DiffEntryType(diff) = "Added"
          /\ Tell(diff.added, added[diff.added])
          /\ diff' = [diff EXCEPT !.added = Following(added, diff.added, TRUE)]
       \/ /\ DiffEntryType(diff) = "Removed"
          /\ Tell(diff.removed, NoValue)
          /\ diff' = [diff EXCEPT !.removed = Following(removed, diff.removed, TRUE)]
    /\ UNCHANGED <<sharedVars, ownVars, pc, todo, heldVars, histVars>>

\* The diff of a Commit may be kept by a slot.
AnnounceAndKeep(c, e) ==
    /\ pc[c] = "announcing"
    /\ Hold(e, [items |-> EmptyMap, added |-> Live, removed |-> Live], NoWalk)

\* The slots are done and the guard is unlocked.
AnnounceEnd(c) ==
    /\ pc[c] = "announcing" /\ DiffEntryType(diff) = "None"
    /\ guard' = NoClient
    /\ Goto(c, "announced")
    /\ store' = items
    /\ UNCHANGED <<items, hasTransaction, ownVars, todo, heldVars, observerVars,
                   torn, missed>>

\* The Revert at the end of Commit, without the guard.
CommitReverts(c) ==
    /\ pc[c] = "announced"
    /\ added' = EmptyMap /\ removed' = EmptyMap
    /\ snaps' = Detached({"added", "removed"})
    /\ torn' = FALSE
    /\ Goto(c, "open")
    /\ UNCHANGED <<sharedVars, todo, walks, observerVars, store, missed>>

\* The populator gives a new slot each of the items as an added entry.
Connect(o) ==
    /\ guard = NoClient
    /\ told[o] = Absent
    /\ told' = [told EXCEPT ![o] = items]
    /\ UNCHANGED <<sharedVars, ownVars, pc, todo, heldVars, diff, keyTold, histVars>>

\* The populator of TransactionalDictionaryKeyValue sends what Get returns.
ConnectKey(k) ==
    /\ guard = NoClient
    /\ keyTold[k] = Absent
    /\ keyTold' = [keyTold EXCEPT ![k] = items[k]]
    /\ UNCHANGED <<sharedVars, ownVars, pc, todo, heldVars, diff, told, histVars>>

-----------------------------------------------------------------------------

Edit(c) ==
    \/ \E p \in Offers : Add(c, p[1], p[2]) \/ Set(c, p[1], p[2])
    \/ \E k \in Keys : Remove(c, k)
    \/ \E pairs \in SUBSET Offers : RemoveWhere(c, pairs)
    \/ Clear(c)

Commit(c) ==
    \/ CommitRemove(c) \/ CommitAdd(c) \/ CommitFails(c)
    \/ Announce(c) \/ AnnounceEntry(c) \/ AnnounceEnd(c) \/ CommitReverts(c)

Next ==
    \/ \E c \in Clients :
        \/ Begin(c) \/ Wait(c) \/ Resume(c) \/ GiveUp(c) \/ End(c)
        \/ Edit(c) \/ Revert(c) \/ Commit(c)
    \/ \E e \in Enumerators :
        \/ Enumerate(e) \/ Advance(e) \/ Drop(e)
        \/ \E c \in Clients :
            EnumerateTransaction(c, e) \/ Diff(c, e) \/ AnnounceAndKeep(c, e)
    \/ \E o \in Observers : Connect(o)
    \/ \E k \in WatchedKeys : ConnectKey(k)

Spec == Init /\ [][Next]_vars

-----------------------------------------------------------------------------
(* Properties *)

Snapshots == [MapNames -> Maps \cup {Live}]

TypeOK ==
    /\ items \in Maps /\ added \in Maps /\ removed \in Maps /\ store \in Maps
    /\ hasTransaction \in BOOLEAN /\ torn \in BOOLEAN /\ missed \in BOOLEAN
    /\ guard \in Clients \cup {NoClient}
    /\ pc \in [Clients -> {"idle", "waiting", "woken",
                           "open", "adding", "announcing", "announced"}]
    /\ todo \in SUBSET Keys
    /\ snaps \in [Enumerators -> Snapshots \cup {NoSnapshot}]
    /\ walks \in [Enumerators -> Walks]
    /\ diff \in [added : Positions, removed : Positions]
    /\ told \in [Observers -> Maps \cup {Absent}]
    /\ keyTold \in [WatchedKeys -> Values \cup {NoValue, Absent}]

\* Nobody waits for the end of a transaction when there is none: the
\* destructor wakes all that wait, and one that finds another transaction
\* waits for the end of that.
WaitersAreWoken == hasTransaction \/ \A c \in Clients : pc[c] # "waiting"

Size(m) == Cardinality(Entries(m))

\* The key of the entry that an enumerator gives, and the map it is from.
Position(w) ==
    IF EntryType(w) = "Items" THEN w.items
    ELSE IF EntryType(w) = "Added" THEN w.added ELSE PastEnd

Source(w) == IF EntryType(w) = "Items" THEN "items" ELSE "added"

\* An enumerator of a transaction gives the entries that the transaction had
\* when it was made, with their values and in order, and not one twice.
WalkAgrees(e) ==
    LET w == walks[e]
        shown == Overlay(Found(e, "items"), Found(e, "added"), Found(e, "removed"))
    IN /\ EntryType(w) # "Broken"
       /\ EntryType(w) # "Removed" =>
             /\ Position(w) = First(Entries(shown) \cap w.ahead, w.ascending)
             /\ Position(w) # PastEnd =>
                    Found(e, Source(w))[Position(w)] = shown[Position(w)]

\* What GetCount, IsEmpty, Add and Remove answer.
CountsAgree ==
    /\ Size(items) - Size(removed) + Size(added) = Size(View)
    /\ added = EmptyMap /\ Size(items) = Size(removed) <=> View = EmptyMap
    /\ \A k \in Keys : /\ CanAdd(k) <=> View[k] = NoValue
                       /\ CanRemove(k) <=> View[k] # NoValue

\* What a transaction answers agrees with the map it stands for, whatever
\* was added, replaced and removed: its enumerators, in both directions and
\* from any key that is there, give the entries in order, while the maps are
\* edited and committed, and never find a removed entry that is not among
\* the items; GetCount is their number; Add and Remove succeed just when the
\* key is absent or there; and Commit finds no key to add among the items.
\* (Not after a failed Commit.)
QueriesAgree ==
    /\ torn \/ /\ (\A c \in Clients : pc[c] \notin {"adding", "announcing", "announced"})
                     => CountsAgree
               /\ \A k \in todo : items[k] = NoValue
    /\ \A e \in Enumerators : snaps[e] # NoSnapshot /\ walks[e].sound => WalkAgrees(e)

\* What an observer has made of the diffs, the populator's and those of the
\* commits, is the content of the dictionary, and a watched key's slot was
\* told its value, unless a Commit has failed half way.
ObserversFollow ==
    missed \/ guard # NoClient \/
    /\ \A o \in Observers : told[o] \in {Absent, items}
    /\ \A k \in WatchedKeys : keyTold[k] \in {Absent, items[k]}

\* An enumerator or a diff gives what was there when it was made, however
\* the transaction goes on, commits and ends while it is held.
SnapshotsStay ==
    [][\A e \in Enumerators, m \in MapNames :
          snaps[e] # NoSnapshot /\ snaps'[e] # NoSnapshot
              => Found(e, m)' = Found(e, m)]_vars

Owner == IF \E c \in Clients : InTransaction(c)
         THEN CHOOSE c \in Clients : InTransaction(c) ELSE NoClient

Store == INSTANCE DictionaryStore WITH owner <- Owner, view <- View

\* The dictionary is a store with one transaction at a time, that appears
\* at once to the others when it is committed.
ImplementsStore == Store!Spec
=============================================================================
