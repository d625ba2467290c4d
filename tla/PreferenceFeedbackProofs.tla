----------------------- MODULE PreferenceFeedbackProofs -----------------------
(***************************************************************************)
(* Proofs about PreferenceFeedback, for any owners, keys, generations,     *)
(* policies, acceptances and bounds.  The invariant says that tokens never *)
(* run ahead of their store's epoch, that a crossed one is behind it, and  *)
(* that the number of a current receipt is that of its own event only.     *)
(***************************************************************************)
EXTENDS PreferenceFeedback, TLAPS, WellFoundedInduction

(***************************************************************************)
(* Tokens belong to owners that were created, so that a new store finds    *)
(* none of its own.                                                        *)
(***************************************************************************)
OwnersBorn ==
    /\ \A o \in Owners : store[o] # NoStore => o \in born
    /\ \A t \in captures \cup receipts : t.owner \in born

TokenFollows(st, t) == t.epoch <= st.epoch /\ (t.crossed => t.epoch < st.epoch)

TokensFollow ==
    \A t \in captures \cup receipts :
       store[t.owner] # NoStore => TokenFollows(store[t.owner], t)

(***************************************************************************)
(* Every event with the number of a current receipt is the receipt's, and  *)
(* later events get larger numbers.                                        *)
(***************************************************************************)
Names(st, r) ==
    /\ r.id <= st.last
    /\ \A i \in 1..Len(st.events) : st.events[i].id = r.id => st.events[i].fact = r.fact

ReceiptsName ==
    \A r \in receipts :
       store[r.owner] # NoStore /\ r.epoch = store[r.owner].epoch => Names(store[r.owner], r)

SnapshotsOrdered == \A snap \in snapshots : Ordered(snap.events)

Inv == TypeOK /\ EventsOrdered /\ SnapshotsOrdered /\ OwnersBorn /\ TokensFollow /\ ReceiptsName

USE CounterAssumption, EventIdAssumption

-----------------------------------------------------------------------------
LEMMA EventFacts ==
  ASSUME NEW events \in Seq(Event), Ordered(events)
  PROVE  /\ LastId(events) \in EventIds \cup {0}
         /\ \A i \in 1..Len(events) : events[i] \in Event /\ events[i].id <= LastId(events)
  <1>1. \A i \in 1..Len(events) : events[i] \in Event
    OBVIOUS
  <1>2. CASE events = <<>>
    BY <1>2 DEF LastId
  <1>3. CASE events # <<>>
    <2>1. Len(events) \in Nat \ {0} /\ Len(events) \in 1..Len(events)
      BY <1>3
    <2>2. LastId(events) = events[Len(events)].id /\ LastId(events) \in EventIds
      BY <1>1, <1>3, <2>1 DEF LastId, Event
    <2>3. \A i \in 1..Len(events) : events[i].id <= LastId(events)
      <3>1. TAKE i \in 1..Len(events)
      <3>2. CASE i = Len(events)
        <4>1. events[i].id \in Nat
          BY <1>1 DEF Event
        <4>2. QED BY <4>1, <3>2, <2>2
      <3>3. CASE i # Len(events)
        <4>1. i < Len(events)
          BY <2>1, <3>3
        <4>2. events[i].id < events[Len(events)].id
          BY <4>1, <2>1 DEF Ordered
        <4>3. events[i].id \in Nat /\ events[Len(events)].id \in Nat
          BY <1>1, <2>1 DEF Event
        <4>4. QED BY <4>2, <4>3, <2>2
      <3>4. QED BY <3>2, <3>3
    <2>4. QED BY <1>1, <2>2, <2>3
  <1>4. QED BY <1>2, <1>3

LEMMA NewStoreFacts ==
  ASSUME NEW g \in Generations, NEW k \in Keys
  PROVE  /\ NewStore(g, k) \in Store
         /\ Ordered(NewStore(g, k).events)
         /\ LastId(NewStore(g, k).events) = NewStore(g, k).last
  <1>1. <<>> \in Seq(Event) /\ Len(<<>>) = 0
    OBVIOUS
  <1>2. QED BY <1>1 DEF NewStore, Store, Epochs, Checkpoints, Ordered, LastId

LEMMA RestoredFacts ==
  ASSUME NEW snap \in Snapshot, Ordered(snap.events)
  PROVE  /\ Restored(snap) \in Store
         /\ Ordered(Restored(snap).events)
         /\ LastId(Restored(snap).events) = Restored(snap).last
  <1>1. snap.events \in Seq(Event) /\ snap.checkpoint \in Checkpoints
        /\ snap.generation \in Generations /\ snap.key \in Keys
    BY DEF Snapshot
  <1>2. LastId(snap.events) \in EventIds \cup {0}
    BY <1>1, EventFacts
  <1> DEFINE new == NewStore(snap.generation, snap.key)
  <1>3. new = [generation |-> snap.generation, key |-> snap.key, policy |-> Disabled,
               epoch |-> 0, last |-> 0, events |-> <<>>, checkpoint |-> 0]
    BY DEF NewStore
  <1>4. Restored(snap) = [new EXCEPT !.last = LastId(snap.events), !.events = snap.events,
                                     !.checkpoint = snap.checkpoint]
    BY DEF Restored
  <1> HIDE DEF new
  <1>5. Restored(snap) = [generation |-> snap.generation, key |-> snap.key,
                          policy |-> Disabled, epoch |-> 0, last |-> LastId(snap.events),
                          events |-> snap.events, checkpoint |-> snap.checkpoint]
    BY <1>3, <1>4
  <1>6. QED BY <1>1, <1>2, <1>5 DEF Store, Epochs

LEMMA AcceptedFacts ==
  ASSUME NEW st \in Store, Ordered(st.events), LastId(st.events) = st.last,
         NEW f \in Feedback, NEW id \in EventIds, NEW k \in Candidates, id > st.last
  PROVE  LET new == Accepted(st, f, id, k)
         IN /\ new \in Store
            /\ new.epoch = st.epoch
            /\ new.last = id
            /\ Ordered(new.events)
            /\ LastId(new.events) = new.last
            /\ Len(new.events) = Len(st.events) + 1
            /\ \A i \in 1..Len(st.events) : new.events[i] = st.events[i] /\ st.events[i].id < id
            /\ new.events[Len(new.events)].id = id
            /\ new.events[Len(new.events)].fact = f
  <1> DEFINE e == [id |-> id, candidate |-> k, undone |-> FALSE, fact |-> f]
             old == st.events
             new == Accepted(st, f, id, k)
  <1>1. old \in Seq(Event) /\ st.last \in Nat /\ id \in Nat
    <2>1. st.last \in EventIds \cup {0} /\ old \in Seq(Event)
      BY DEF Store
    <2>2. CASE st.last = 0
      BY <2>1, <2>2
    <2>3. CASE st.last \in EventIds
      BY <2>1, <2>3
    <2>4. QED BY <2>1, <2>2, <2>3
  <1>2. e \in Event
    BY DEF Event
  <1>3. new = [st EXCEPT !.last = id, !.events = Append(old, e)]
    BY DEF Accepted
  <1>4. new.events = Append(old, e) /\ new.last = id /\ new.epoch = st.epoch
    BY <1>3 DEF Store
  <1>5. /\ Append(old, e) \in Seq(Event)
        /\ Len(Append(old, e)) = Len(old) + 1
        /\ Len(old) \in Nat
        /\ \A i \in 1..Len(old) : Append(old, e)[i] = old[i]
        /\ Append(old, e)[Len(old) + 1] = e
    BY <1>1, <1>2
  <1>6. new \in Store
    BY <1>3, <1>5 DEF Store
  <1>7. \A i \in 1..Len(old) : old[i].id \in Nat /\ old[i].id < id
    <2>1. \A i \in 1..Len(old) : old[i] \in Event /\ old[i].id <= st.last
      BY <1>1, EventFacts
    <2>2. \A i \in 1..Len(old) : old[i].id \in Nat
      BY <2>1 DEF Event
    <2>3. QED BY <2>1, <2>2, <1>1
  <1>8. Ordered(new.events)
    <2>1. SUFFICES ASSUME NEW i \in 1..Len(new.events), NEW j \in 1..Len(new.events), i < j
                   PROVE  new.events[i].id < new.events[j].id
      BY DEF Ordered
    <2>2. i \in 1..Len(old) /\ new.events[i] = old[i]
      BY <1>4, <1>5, <2>1
    <2>3. CASE j \in 1..Len(old)
      BY <1>4, <1>5, <2>1, <2>2, <2>3 DEF Ordered
    <2>4. CASE j = Len(old) + 1
      BY <1>4, <1>5, <1>7, <2>2, <2>4
    <2>5. QED BY <1>4, <1>5, <2>3, <2>4
  <1>9. LastId(new.events) = new.last
    <2> DEFINE longer == Append(old, e)
    <2> HIDE DEF longer
    <2>1. Len(longer) = Len(old) + 1 /\ Len(old) \in Nat /\ longer[Len(old) + 1].id = id
      BY <1>5 DEF longer
    <2>2. longer # <<>>
      BY <2>1
    <2>3. LastId(longer) = id
      BY <2>1, <2>2 DEF LastId
    <2>4. QED BY <2>3, <1>4 DEF longer
  <1>10. new.events[Len(new.events)].id = id /\ new.events[Len(new.events)].fact = f
    BY <1>4, <1>5
  <1>11. QED BY <1>4, <1>5, <1>6, <1>7, <1>8, <1>9, <1>10

LEMMA UndoneFacts ==
  ASSUME NEW st \in Store, NEW r
  PROVE  LET new == Undone(st, r)
         IN /\ new \in Store
            /\ new.epoch = st.epoch
            /\ new.last = st.last
            /\ Len(new.events) = Len(st.events)
            /\ \A i \in 1..Len(st.events) : /\ new.events[i].id = st.events[i].id
                                            /\ new.events[i].fact = st.events[i].fact
                                            /\ st.events[i].undone => new.events[i].undone
            /\ new.generation = st.generation
            /\ new.checkpoint = st.checkpoint
            /\ LastId(new.events) = LastId(st.events)
  <1> DEFINE first == CHOOSE i \in Undoable(st, r) : \A j \in Undoable(st, r) : i <= j
             old == st.events
             changed == [old EXCEPT ![first].undone = TRUE]
             new == Undone(st, r)
  <1> HIDE DEF first
  <1>1. old \in Seq(Event) /\ Len(old) \in Nat /\ old \in [1..Len(old) -> Event]
    BY DEF Store
  <1>2. new = [st EXCEPT !.events = changed]
    BY DEF Undone, first
  <1>3. changed \in [1..Len(old) -> Event]
        /\ \A i \in 1..Len(old) : /\ changed[i].id = old[i].id
                                  /\ changed[i].fact = old[i].fact
                                  /\ old[i].undone => changed[i].undone
    BY <1>1 DEF Event
  <1>4. changed \in Seq(Event) /\ Len(changed) = Len(old)
    BY <1>1, <1>3
  <1>5. /\ new \in Store /\ new.epoch = st.epoch /\ new.last = st.last
        /\ new.events = changed
        /\ new.generation = st.generation /\ new.checkpoint = st.checkpoint
    BY <1>2, <1>4 DEF Store
  <1>6. LastId(changed) = LastId(old)
    <2>1. CASE Len(old) = 0
      BY <2>1, <1>1, <1>4 DEF LastId
    <2>2. CASE Len(old) # 0
      <3>1. old # <<>> /\ changed # <<>> /\ Len(old) \in 1..Len(old)
        BY <2>2, <1>1, <1>4
      <3>2. QED BY <3>1, <1>3, <1>4 DEF LastId
    <2>3. QED BY <2>1, <2>2
  <1>7. QED BY <1>3, <1>4, <1>5, <1>6

-----------------------------------------------------------------------------
(***************************************************************************)
(* One store is replaced: what the new one must be, and what its tokens    *)
(* and snapshots must be.                                                  *)
(***************************************************************************)
LEMMA KeepsFacts ==
  ASSUME NEW held, NEW issued, HostKeeps(held, issued)
  PROVE  captures' \subseteq held /\ receipts' \subseteq issued
  BY DEF HostKeeps

LEMMA ReplacedStore ==
  ASSUME Inv, NEW o \in Owners, NEW st \in Store,
         store' = [store EXCEPT ![o] = st],
         Ordered(st.events), LastId(st.events) = st.last
  PROVE  /\ store' \in [Owners -> Store \cup {NoStore}]
         /\ store'[o] = st
         /\ \A x \in Owners \ {o} : store'[x] = store[x]
         /\ EventsOrdered'
  <1>1. store \in [Owners -> Store \cup {NoStore}]
    BY DEF Inv, TypeOK
  <1>2. store' \in [Owners -> Store \cup {NoStore}] /\ store'[o] = st
        /\ \A x \in Owners \ {o} : store'[x] = store[x]
    BY <1>1
  <1>3. EventsOrdered'
    <2>1. SUFFICES ASSUME NEW x \in Owners, store'[x] # NoStore
                   PROVE  Ordered(store'[x].events) /\ LastId(store'[x].events) = store'[x].last
      BY DEF EventsOrdered
    <2>2. CASE x = o
      BY <2>2, <1>2
    <2>3. CASE x # o
      BY <2>1, <2>3, <1>2 DEF Inv, EventsOrdered
    <2>4. QED BY <2>2, <2>3
  <1>4. QED BY <1>2, <1>3

(***************************************************************************)
(* A store nobody holds a token of comes into being.                       *)
(***************************************************************************)
LEMMA BirthPreserves ==
  ASSUME Inv, NEW o \in Owners, o \notin born, NEW st \in Store,
         store' = [store EXCEPT ![o] = st], born' = born \cup {o},
         Ordered(st.events), LastId(st.events) = st.last,
         UNCHANGED <<captures, receipts, snapshots, accepted>>
  PROVE  Inv'
  <1>1. /\ store' \in [Owners -> Store \cup {NoStore}]
        /\ store'[o] = st
        /\ \A x \in Owners \ {o} : store'[x] = store[x]
        /\ EventsOrdered'
    BY ReplacedStore
  <1>2. TypeOK'
    BY <1>1 DEF Inv, TypeOK
  <1>3. OwnersBorn'
    BY <1>1 DEF Inv, OwnersBorn
  <1>4. \A t \in captures \cup receipts : t.owner \in Owners \ {o}
    BY DEF Inv, OwnersBorn, TypeOK, Capture, Receipt
  <1>5. TokensFollow'
    BY <1>1, <1>4 DEF Inv, TokensFollow
  <1>6. ReceiptsName'
    BY <1>1, <1>4 DEF Inv, ReceiptsName
  <1>7. SnapshotsOrdered'
    BY DEF Inv, SnapshotsOrdered
  <1>8. QED BY <1>1, <1>2, <1>3, <1>5, <1>6, <1>7 DEF Inv

LEMMA ClosePreserves ==
  ASSUME Inv, NEW o \in Owners, Close(o)
  PROVE  Inv'
  <1>1. captures' \subseteq captures /\ receipts' \subseteq receipts
    BY KeepsFacts DEF Close
  <1>2. /\ store' \in [Owners -> Store \cup {NoStore}]
        /\ store'[o] = NoStore
        /\ \A x \in Owners \ {o} : store'[x] = store[x]
    BY DEF Close, Inv, TypeOK
  <1>3. TypeOK' /\ SnapshotsOrdered'
    BY <1>1, <1>2 DEF Close, Inv, TypeOK, SnapshotsOrdered
  <1>4. EventsOrdered'
    BY <1>2 DEF Inv, EventsOrdered
  <1>5. OwnersBorn'
    BY <1>1, <1>2 DEF Close, Inv, OwnersBorn
  <1>6. \A t \in captures' \cup receipts' : t.owner \in Owners
    BY <1>3 DEF TypeOK, Capture, Receipt
  <1>7. TokensFollow'
    BY <1>1, <1>2, <1>6 DEF Inv, TokensFollow
  <1>8. ReceiptsName'
    BY <1>1, <1>2, <1>6 DEF Inv, ReceiptsName
  <1>9. QED BY <1>3, <1>4, <1>5, <1>7, <1>8 DEF Inv

(***************************************************************************)
(* A new epoch: the tokens of o that the host keeps are crossed and behind.*)
(***************************************************************************)
LEMMA CrossFacts ==
  ASSUME NEW tokens, NEW o, NEW t \in Cross(tokens, o)
  PROVE  \/ t \in tokens /\ t.owner # o
         \/ \E u \in tokens : u.owner = o /\ t = [u EXCEPT !.crossed = TRUE]
  BY DEF Cross

LEMMA CrossedCapture ==
  ASSUME NEW u \in Capture, NEW t, t = [u EXCEPT !.crossed = TRUE]
  PROVE  t \in Capture /\ t.owner = u.owner /\ t.epoch = u.epoch /\ u.epoch \in Nat
  <1>1. PICK w \in Owners, e \in Epochs, c \in BOOLEAN :
           u = [owner |-> w, epoch |-> e, crossed |-> c]
    BY DEF Capture
  <1>2. t = [owner |-> w, epoch |-> e, crossed |-> TRUE]
    BY <1>1
  <1>3. t.owner = u.owner /\ t.epoch = u.epoch /\ u.epoch = e
    BY <1>1, <1>2
  <1>4. e \in Nat
    BY DEF Epochs
  <1>5. t \in Capture
    BY <1>2, Zenon DEF Capture
  <1>6. QED BY <1>3, <1>4, <1>5

LEMMA CrossedReceipt ==
  ASSUME NEW u \in Receipt, NEW t, t = [u EXCEPT !.crossed = TRUE]
  PROVE  t \in Receipt /\ t.owner = u.owner /\ t.epoch = u.epoch /\ u.epoch \in Nat
  <1>1. PICK w \in Owners, e \in Epochs, id \in EventIds, f \in Feedback, c \in BOOLEAN :
           u = [owner |-> w, epoch |-> e, id |-> id, fact |-> f, crossed |-> c]
    BY DEF Receipt
  <1>2. t = [owner |-> w, epoch |-> e, id |-> id, fact |-> f, crossed |-> TRUE]
    BY <1>1
  <1>3. t.owner = u.owner /\ t.epoch = u.epoch /\ u.epoch = e
    BY <1>1, <1>2
  <1>4. e \in Nat
    BY DEF Epochs
  <1>5. t \in Receipt
    BY <1>2, Zenon DEF Receipt
  <1>6. QED BY <1>3, <1>4, <1>5

LEMMA NewEpochPreserves ==
  ASSUME Inv, NEW o \in Owners, store[o] # NoStore, NEW st \in Store,
         store' = [store EXCEPT ![o] = st], st.epoch > store[o].epoch,
         Ordered(st.events), LastId(st.events) = st.last,
         HostKeeps(Cross(captures, o), Cross(receipts, o)),
         UNCHANGED <<born, snapshots, accepted>>
  PROVE  Inv'
  <1>1. /\ store' \in [Owners -> Store \cup {NoStore}]
        /\ store'[o] = st
        /\ \A x \in Owners \ {o} : store'[x] = store[x]
        /\ EventsOrdered'
    BY ReplacedStore
  <1>2. captures' \subseteq Cross(captures, o) /\ receipts' \subseteq Cross(receipts, o)
    BY KeepsFacts
  <1>3. store[o] \in Store /\ store[o].epoch \in Nat /\ st.epoch \in Nat
    BY DEF Inv, TypeOK, Store, Epochs
  <1>4. ASSUME NEW t \in captures'
        PROVE  /\ t \in Capture /\ t.owner \in born
               /\ \/ t \in captures /\ t.owner # o
                  \/ t.owner = o /\ t.epoch <= store[o].epoch /\ t.epoch \in Nat
    <2>1. CASE t \in captures /\ t.owner # o
      BY <2>1 DEF Inv, TypeOK, OwnersBorn
    <2>2. CASE \E u \in captures : u.owner = o /\ t = [u EXCEPT !.crossed = TRUE]
      <3>1. PICK u \in captures : u.owner = o /\ t = [u EXCEPT !.crossed = TRUE]
        BY <2>2
      <3>2. u \in Capture /\ u.owner \in born /\ u.epoch <= store[o].epoch
        BY <3>1 DEF Inv, TypeOK, OwnersBorn, TokensFollow, TokenFollows
      <3>3. t \in Capture /\ t.owner = u.owner /\ t.epoch = u.epoch /\ u.epoch \in Nat
        BY <3>1, <3>2, CrossedCapture
      <3>4. QED BY <3>1, <3>2, <3>3
    <2>3. QED BY <1>2, <2>1, <2>2, CrossFacts
  <1>5. ASSUME NEW t \in receipts'
        PROVE  /\ t \in Receipt /\ t.owner \in born
               /\ \/ t \in receipts /\ t.owner # o
                  \/ t.owner = o /\ t.epoch <= store[o].epoch /\ t.epoch \in Nat
    <2>1. CASE t \in receipts /\ t.owner # o
      BY <2>1 DEF Inv, TypeOK, OwnersBorn
    <2>2. CASE \E u \in receipts : u.owner = o /\ t = [u EXCEPT !.crossed = TRUE]
      <3>1. PICK u \in receipts : u.owner = o /\ t = [u EXCEPT !.crossed = TRUE]
        BY <2>2
      <3>2. u \in Receipt /\ u.owner \in born /\ u.epoch <= store[o].epoch
        BY <3>1 DEF Inv, TypeOK, OwnersBorn, TokensFollow, TokenFollows
      <3>3. t \in Receipt /\ t.owner = u.owner /\ t.epoch = u.epoch /\ u.epoch \in Nat
        BY <3>1, <3>2, CrossedReceipt
      <3>4. QED BY <3>1, <3>2, <3>3
    <2>3. QED BY <1>2, <2>1, <2>2, CrossFacts
  <1>6. TypeOK' /\ SnapshotsOrdered'
    BY <1>1, <1>4, <1>5 DEF Inv, TypeOK, SnapshotsOrdered
  <1>7. OwnersBorn'
    BY <1>1, <1>4, <1>5 DEF Inv, OwnersBorn
  <1>8. TokensFollow'
    <2>1. SUFFICES ASSUME NEW t \in captures' \cup receipts', store'[t.owner] # NoStore
                   PROVE  TokenFollows(store'[t.owner], t)
      BY DEF TokensFollow
    <2>2. t.owner \in Owners
      BY <1>4, <1>5 DEF Capture, Receipt
    <2>3. CASE t \in captures \cup receipts /\ t.owner # o
      BY <2>1, <2>2, <2>3, <1>1 DEF Inv, TokensFollow
    <2>4. CASE t.owner = o /\ t.epoch <= store[o].epoch /\ t.epoch \in Nat
      BY <2>4, <1>1, <1>3 DEF TokenFollows
    <2>5. QED BY <2>3, <2>4, <1>4, <1>5
  <1>9. ReceiptsName'
    <2>1. SUFFICES ASSUME NEW r \in receipts', store'[r.owner] # NoStore,
                          r.epoch = store'[r.owner].epoch
                   PROVE  Names(store'[r.owner], r)
      BY DEF ReceiptsName
    <2>2. r.owner \in Owners
      BY <1>5 DEF Receipt
    <2>3. CASE r \in receipts /\ r.owner # o
      BY <2>1, <2>2, <2>3, <1>1 DEF Inv, ReceiptsName
    <2>4. CASE r.owner = o /\ r.epoch <= store[o].epoch /\ r.epoch \in Nat
      BY <2>1, <2>4, <1>1, <1>3
    <2>5. QED BY <2>3, <2>4, <1>5
  <1>10. QED BY <1>1, <1>6, <1>7, <1>8, <1>9 DEF Inv

(***************************************************************************)
(* The stores stay as they are; the host may hold a new capture.           *)
(***************************************************************************)
LEMMA SameStoresPreserve ==
  ASSUME Inv, UNCHANGED <<store, born, snapshots, accepted>>,
         NEW held, HostKeeps(held, receipts),
         \A c \in held \ captures :
            /\ c \in Capture /\ c.owner \in born
            /\ store[c.owner] # NoStore => TokenFollows(store[c.owner], c)
  PROVE  Inv'
  <1>1. captures' \subseteq held /\ receipts' \subseteq receipts
    BY KeepsFacts
  <1>2. \A c \in captures' : c \in Capture /\ c.owner \in born
    BY <1>1 DEF Inv, TypeOK, OwnersBorn
  <1>3. TypeOK' /\ EventsOrdered' /\ SnapshotsOrdered'
    BY <1>1, <1>2 DEF Inv, TypeOK, EventsOrdered, SnapshotsOrdered
  <1>4. OwnersBorn'
    BY <1>1, <1>2 DEF Inv, OwnersBorn
  <1>5. TokensFollow'
    <2>1. SUFFICES ASSUME NEW t \in captures' \cup receipts', store[t.owner] # NoStore
                   PROVE  TokenFollows(store[t.owner], t)
      BY DEF TokensFollow
    <2>2. CASE t \in captures \cup receipts
      BY <2>1, <2>2 DEF Inv, TokensFollow
    <2>3. CASE t \in held \ captures
      BY <2>1, <2>3
    <2>4. QED BY <1>1, <2>2, <2>3
  <1>6. ReceiptsName'
    BY <1>1 DEF Inv, ReceiptsName
  <1>7. QED BY <1>3, <1>4, <1>5, <1>6 DEF Inv

(***************************************************************************)
(* The store of o changes within its epoch and keeps its event numbers.    *)
(***************************************************************************)
LEMMA SameEventsPreserve ==
  ASSUME Inv, NEW o \in Owners, store[o] # NoStore, NEW st \in Store,
         store' = [store EXCEPT ![o] = st],
         st.epoch = store[o].epoch, st.last = store[o].last,
         Len(st.events) = Len(store[o].events),
         \A i \in 1..Len(st.events) : /\ st.events[i].id = store[o].events[i].id
                                      /\ st.events[i].fact = store[o].events[i].fact,
         LastId(st.events) = LastId(store[o].events),
         captures' \subseteq captures, receipts' \subseteq receipts,
         snapshots' \subseteq Snapshot, SnapshotsOrdered',
         UNCHANGED <<born, accepted>>
  PROVE  Inv'
  <1>1. Ordered(st.events) /\ LastId(st.events) = st.last
    BY DEF Inv, EventsOrdered, Ordered
  <1>2. /\ store' \in [Owners -> Store \cup {NoStore}]
        /\ store'[o] = st
        /\ \A x \in Owners \ {o} : store'[x] = store[x]
        /\ EventsOrdered'
    BY <1>1, ReplacedStore
  <1>3. TypeOK'
    BY <1>2 DEF Inv, TypeOK
  <1>4. OwnersBorn'
    BY <1>2 DEF Inv, OwnersBorn
  <1>5. \A t \in captures' \cup receipts' : t \in captures \cup receipts /\ t.owner \in Owners
    BY DEF Inv, TypeOK, Capture, Receipt
  <1>6. TokensFollow'
    <2>1. SUFFICES ASSUME NEW t \in captures' \cup receipts', store'[t.owner] # NoStore
                   PROVE  TokenFollows(store'[t.owner], t)
      BY DEF TokensFollow
    <2>2. CASE t.owner = o
      BY <1>2, <1>5, <2>1, <2>2 DEF Inv, TokensFollow, TokenFollows
    <2>3. CASE t.owner # o
      BY <1>2, <1>5, <2>1, <2>3 DEF Inv, TokensFollow
    <2>4. QED BY <2>2, <2>3
  <1>7. ReceiptsName'
    <2>1. SUFFICES ASSUME NEW r \in receipts', store'[r.owner] # NoStore,
                          r.epoch = store'[r.owner].epoch
                   PROVE  Names(store'[r.owner], r)
      BY DEF ReceiptsName
    <2>2. CASE r.owner = o
      <3>1. Names(store[o], r)
        BY <1>2, <2>1, <2>2 DEF Inv, ReceiptsName
      <3>2. Names(st, r)
        BY <3>1 DEF Names
      <3>3. QED BY <1>2, <2>2, <3>2
    <2>3. CASE r.owner # o
      BY <1>2, <1>5, <2>1, <2>3 DEF Inv, ReceiptsName
    <2>4. QED BY <2>2, <2>3
  <1>8. QED BY <1>2, <1>3, <1>4, <1>6, <1>7 DEF Inv

-----------------------------------------------------------------------------
LEMMA CreatePreserves ==
  ASSUME Inv, NEW o \in Owners, Create(o)
  PROVE  Inv'
  <1>1. PICK g \in Generations, k \in Keys : store' = [store EXCEPT ![o] = NewStore(g, k)]
    BY DEF Create
  <1>2. o \notin born /\ born' = born \cup {o}
        /\ UNCHANGED <<captures, receipts, snapshots, accepted>>
    BY DEF Create
  <1>3. QED BY <1>1, <1>2, NewStoreFacts, BirthPreserves

LEMMA RestorePreserves ==
  ASSUME Inv, NEW o \in Owners, Restore(o)
  PROVE  Inv'
  <1>1. PICK snap \in snapshots : store' = [store EXCEPT ![o] = Restored(snap)]
    BY DEF Restore
  <1>2. o \notin born /\ born' = born \cup {o}
        /\ UNCHANGED <<captures, receipts, snapshots, accepted>>
    BY DEF Restore
  <1>3. snap \in Snapshot /\ Ordered(snap.events)
    BY DEF Inv, TypeOK, SnapshotsOrdered
  <1>4. QED BY <1>1, <1>2, <1>3, RestoredFacts, BirthPreserves

LEMMA PolicyFacts ==
  ASSUME NEW st \in Store, NEW p \in Policies, p # st.policy, CanSetPolicy(st, p)
  PROVE  LET new == WithPolicy(st, p)
         IN /\ new \in Store
            /\ new.epoch = st.epoch + 1
            /\ new.events = st.events
            /\ new.last = st.last
  <1> DEFINE new == WithPolicy(st, p)
  <1>1. new = [st EXCEPT !.policy = p, !.epoch = @ + 1]
    BY DEF WithPolicy
  <1>2. st.epoch \in Nat /\ st.epoch + 1 \in Epochs
    BY DEF CanSetPolicy, Store, Epochs
  <1>3. new \in Store
    BY <1>1, <1>2 DEF Store
  <1>4. new.epoch = st.epoch + 1 /\ new.events = st.events /\ new.last = st.last
    BY <1>1 DEF Store
  <1>5. QED BY <1>3, <1>4

LEMMA SetPolicyPreserves ==
  ASSUME Inv, NEW o \in Owners, NEW p \in Policies, SetPolicy(o, p)
  PROVE  Inv'
  <1> DEFINE st == store[o]
             new == WithPolicy(st, p)
  <1>1. store[o] # NoStore /\ store' = [store EXCEPT ![o] = new]
        /\ UNCHANGED <<born, snapshots, accepted>> /\ CanSetPolicy(st, p)
    BY DEF SetPolicy
  <1>2. st \in Store /\ store \in [Owners -> Store \cup {NoStore}]
    BY <1>1 DEF Inv, TypeOK
  <1>3. CASE p = st.policy
    <2>1. new = st /\ HostKeeps(captures, receipts)
      BY <1>3 DEF WithPolicy, SetPolicy
    <2>2. store' = store
      BY <1>1, <1>2, <2>1
    <2>3. QED BY <1>1, <2>1, <2>2, SameStoresPreserve
  <1>4. CASE p # st.policy
    <2>1. /\ new \in Store /\ new.epoch = st.epoch + 1
          /\ new.events = st.events /\ new.last = st.last
      BY <1>1, <1>2, <1>4, PolicyFacts
    <2>2. st.epoch \in Nat
      BY <1>2 DEF Store, Epochs
    <2>3. Ordered(new.events) /\ LastId(new.events) = new.last
      BY <1>1, <2>1 DEF Inv, EventsOrdered
    <2>4. HostKeeps(Cross(captures, o), Cross(receipts, o))
      BY <1>4 DEF SetPolicy
    <2>5. new.epoch > st.epoch
      BY <2>1, <2>2
    <2> HIDE DEF new
    <2>6. QED BY <1>1, <2>1, <2>3, <2>4, <2>5, NewEpochPreserves
  <1>5. QED BY <1>3, <1>4

LEMMA ClearedFacts ==
  ASSUME NEW st \in Store, NEW g \in Generations, NEW k \in Keys, CanClear(st, g, k)
  PROVE  LET new == Cleared(st, g, k)
         IN /\ new \in Store
            /\ new.epoch = st.epoch + 1
            /\ new.events = <<>>
            /\ new.last = 0
  <1> DEFINE new == Cleared(st, g, k)
  <1>1. st.epoch \in Nat /\ st.epoch + 1 \in Epochs
    BY DEF CanClear, Store, Epochs
  <1>2. <<>> \in Seq(Event) /\ 0 \in Checkpoints
    BY DEF Checkpoints
  <1>3. new \in Store
    <2>1. new = [st EXCEPT !.events = <<>>, !.generation = g, !.key = k,
                           !.epoch = st.epoch + 1, !.last = 0, !.checkpoint = 0]
      BY DEF Cleared
    <2> DEFINE e == st.epoch + 1
    <2>2. e \in Epochs
      BY <1>1
    <2> HIDE DEF e
    <2>3. [st EXCEPT !.events = <<>>, !.generation = g, !.key = k,
                     !.epoch = e, !.last = 0, !.checkpoint = 0] \in Store
      BY <1>2, <2>2 DEF Store
    <2>4. QED BY <2>1, <2>3 DEF e
  <1>4. new.epoch = st.epoch + 1 /\ new.events = <<>> /\ new.last = 0
    BY DEF Cleared, Store
  <1>5. QED BY <1>3, <1>4

LEMMA ClearPreserves ==
  ASSUME Inv, NEW o \in Owners, NEW g \in Generations, NEW k \in Keys, Clear(o, g, k)
  PROVE  Inv'
  <1> DEFINE st == store[o]
             new == Cleared(st, g, k)
  <1>1. store[o] # NoStore /\ store' = [store EXCEPT ![o] = new]
        /\ UNCHANGED <<born, snapshots, accepted>> /\ CanClear(st, g, k)
        /\ HostKeeps(Cross(captures, o), Cross(receipts, o))
    BY DEF Clear
  <1>2. st \in Store /\ st.epoch \in Nat
    BY <1>1 DEF Inv, TypeOK, Store, Epochs
  <1>3. new \in Store /\ new.epoch = st.epoch + 1 /\ new.events = <<>> /\ new.last = 0
    BY <1>1, <1>2, ClearedFacts
  <1>4. Ordered(new.events) /\ LastId(new.events) = new.last
    <2>1. Len(<<>>) = 0
      OBVIOUS
    <2>2. QED BY <1>3, <2>1 DEF Ordered, LastId
  <1>5. new.epoch > st.epoch
    BY <1>2, <1>3
  <1> HIDE DEF new
  <1>6. QED BY <1>1, <1>3, <1>4, <1>5, NewEpochPreserves

LEMMA CapturePreserves ==
  ASSUME Inv, NEW o \in Owners, CaptureContext(o)
  PROVE  Inv'
  <1> DEFINE c == [owner |-> o, epoch |-> store[o].epoch, crossed |-> FALSE]
  <1>1. store[o] \in Store /\ o \in born
    BY DEF CaptureContext, Inv, TypeOK, OwnersBorn
  <1>2. store[o].epoch \in Epochs /\ store[o].epoch \in Nat
    BY <1>1 DEF Store, Epochs
  <1>3. c \in Capture
    BY <1>2 DEF Capture
  <1>4. c.owner = o /\ TokenFollows(store[o], c)
    BY <1>2 DEF TokenFollows
  <1>5. HostKeeps(captures \cup {c}, receipts) /\ UNCHANGED <<store, born, snapshots, accepted>>
    BY DEF CaptureContext
  <1> HIDE DEF c
  <1>6. QED BY <1>1, <1>3, <1>4, <1>5, SameStoresPreserve

LEMMA UndoPreserves ==
  ASSUME Inv, NEW o \in Owners, NEW r \in receipts, RecordUndo(o, r)
  PROVE  Inv'
  <1> DEFINE new == Undone(store[o], r)
  <1>1. store[o] # NoStore /\ store' = [store EXCEPT ![o] = new]
        /\ UNCHANGED <<born, snapshots, accepted>> /\ HostKeeps(captures, receipts)
    BY DEF RecordUndo
  <1>2. store[o] \in Store
    BY <1>1 DEF Inv, TypeOK
  <1>3. /\ new \in Store /\ new.epoch = store[o].epoch /\ new.last = store[o].last
        /\ Len(new.events) = Len(store[o].events)
        /\ \A i \in 1..Len(store[o].events) :
              /\ new.events[i].id = store[o].events[i].id
              /\ new.events[i].fact = store[o].events[i].fact
        /\ LastId(new.events) = LastId(store[o].events)
    BY <1>2, UndoneFacts
  <1>4. captures' \subseteq captures /\ receipts' \subseteq receipts
    BY <1>1, KeepsFacts
  <1>5. snapshots' \subseteq Snapshot /\ SnapshotsOrdered'
    BY <1>1 DEF Inv, TypeOK, SnapshotsOrdered
  <1> HIDE DEF new
  <1>6. QED BY <1>1, <1>3, <1>4, <1>5, SameEventsPreserve

LEMMA ExportPreserves ==
  ASSUME Inv, NEW o \in Owners, NEW n \in Checkpoints, ExportCheckpoint(o, n)
  PROVE  Inv'
  <1> DEFINE st == store[o]
             new == [st EXCEPT !.checkpoint = n]
             snap == SnapshotOf(o, st, n)
  <1>1. store[o] # NoStore /\ snapshots' = snapshots \cup {snap}
        /\ UNCHANGED <<born, captures, receipts, accepted>>
    BY DEF ExportCheckpoint
  <1>2. st \in Store /\ store \in [Owners -> Store \cup {NoStore}] /\ Ordered(st.events)
    BY <1>1 DEF Inv, TypeOK, EventsOrdered
  <1>3. store' = [store EXCEPT ![o] = new]
    BY DEF ExportCheckpoint
  <1>4. /\ new \in Store /\ new.epoch = st.epoch /\ new.last = st.last
        /\ new.events = st.events
    BY <1>2 DEF Store
  <1>5. snap \in Snapshot /\ snap.events = st.events
    BY <1>2 DEF SnapshotOf, Snapshot, Store
  <1>6. snapshots' \subseteq Snapshot /\ SnapshotsOrdered'
    BY <1>1, <1>2, <1>5 DEF Inv, TypeOK, SnapshotsOrdered
  <1> HIDE DEF new, snap
  <1>7. QED BY <1>1, <1>3, <1>4, <1>6, SameEventsPreserve

(***************************************************************************)
(* The new event has a number above all others of its store, and with it   *)
(* above those of the receipts issued so far.                              *)
(***************************************************************************)
LEMMA AcceptancePreserves ==
  ASSUME Inv, NEW o \in Owners, NEW c \in captures, NEW f \in Feedback, NEW id \in EventIds,
         NEW k \in Candidates, RecordAcceptance(o, c, f, id, k)
  PROVE  Inv'
  <1> DEFINE st == store[o]
             new == Accepted(st, f, id, k)
             receipt == [owner |-> o, epoch |-> st.epoch, id |-> id, fact |-> f,
                         crossed |-> FALSE]
  <1>1. st # NoStore /\ id > st.last /\ store' = [store EXCEPT ![o] = new]
        /\ accepted' = accepted \cup {f} /\ UNCHANGED <<born, snapshots>>
        /\ HostKeeps(captures, receipts \cup {receipt})
    BY DEF RecordAcceptance, CanAccept, NewEvent
  <1>2. st \in Store /\ Ordered(st.events) /\ LastId(st.events) = st.last /\ o \in born
    BY <1>1 DEF Inv, TypeOK, EventsOrdered, OwnersBorn
  <1>3. /\ new \in Store /\ new.epoch = st.epoch /\ new.last = id
        /\ Ordered(new.events) /\ LastId(new.events) = new.last
        /\ Len(new.events) = Len(st.events) + 1
        /\ \A i \in 1..Len(st.events) : new.events[i] = st.events[i] /\ st.events[i].id < id
        /\ new.events[Len(new.events)].id = id
        /\ new.events[Len(new.events)].fact = f
    BY <1>1, <1>2, AcceptedFacts
  <1> HIDE DEF new
  <1>4. /\ store' \in [Owners -> Store \cup {NoStore}]
        /\ store'[o] = new
        /\ \A x \in Owners \ {o} : store'[x] = store[x]
        /\ EventsOrdered'
    BY <1>1, <1>3, ReplacedStore
  <1>5. captures' \subseteq captures /\ receipts' \subseteq receipts \cup {receipt}
    BY <1>1, KeepsFacts
  <1>6. st.epoch \in Epochs /\ st.epoch \in Nat /\ st.last \in Nat /\ id \in Nat
    <2>1. st.epoch \in Epochs /\ st.last \in EventIds \cup {0}
      BY <1>2 DEF Store
    <2>2. \A n \in EventIds \cup {0} : n \in Nat
      OBVIOUS
    <2>3. st.last \in Nat /\ id \in Nat
      BY <2>1, <2>2, Zenon
    <2>4. st.epoch \in Nat
      BY <2>1 DEF Epochs
    <2>5. QED BY <2>1, <2>3, <2>4
  <1>7. receipt \in Receipt
    BY <1>6 DEF Receipt
  <1>8. receipt.owner = o /\ receipt.epoch = st.epoch /\ receipt.id = id /\ receipt.fact = f
        /\ receipt.crossed = FALSE
    OBVIOUS
  <1> HIDE DEF receipt
  <1>9. TypeOK' /\ SnapshotsOrdered'
    BY <1>1, <1>4, <1>5, <1>7 DEF Inv, TypeOK, SnapshotsOrdered
  <1>10. OwnersBorn'
    BY <1>1, <1>2, <1>4, <1>5, <1>8 DEF Inv, OwnersBorn
  <1>11. \A t \in captures' \cup receipts' : t.owner \in Owners
    BY <1>9 DEF TypeOK, Capture, Receipt
  <1>12. TokensFollow'
    <2>1. SUFFICES ASSUME NEW t \in captures' \cup receipts', store'[t.owner] # NoStore
                   PROVE  TokenFollows(store'[t.owner], t)
      BY DEF TokensFollow
    <2>2. CASE t = receipt
      BY <1>3, <1>4, <1>6, <1>8, <2>2 DEF TokenFollows
    <2>3. CASE t # receipt /\ t.owner = o
      <3>1. TokenFollows(st, t)
        BY <1>1, <1>5, <2>3 DEF Inv, TokensFollow
      <3>2. QED BY <1>3, <1>4, <2>3, <3>1 DEF TokenFollows
    <2>4. CASE t # receipt /\ t.owner # o
      BY <1>4, <1>5, <1>11, <2>1, <2>4 DEF Inv, TokensFollow
    <2>5. QED BY <2>2, <2>3, <2>4
  <1>13. ReceiptsName'
    <2>1. SUFFICES ASSUME NEW r \in receipts', store'[r.owner] # NoStore,
                          r.epoch = store'[r.owner].epoch
                   PROVE  Names(store'[r.owner], r)
      BY DEF ReceiptsName
    <2>2. Len(st.events) \in Nat
      BY <1>2 DEF Store
    <2>3. \A i \in 1..Len(new.events) : i \in 1..Len(st.events) \/ i = Len(new.events)
      BY <1>3, <2>2
    <2>4. \A i \in 1..Len(st.events) : st.events[i].id \in Nat
      <3>1. \A i \in 1..Len(st.events) : st.events[i] \in Event
        BY <1>2 DEF Store
      <3>2. QED BY <3>1 DEF Event
    <2>5. CASE r = receipt
      <3>1. ASSUME NEW i \in 1..Len(new.events), new.events[i].id = id
            PROVE  new.events[i].fact = f
        <4>1. CASE i = Len(new.events)
          BY <1>3, <4>1
        <4>2. CASE i \in 1..Len(st.events)
          <5>1. new.events[i].id < id /\ new.events[i].id \in Nat
            BY <1>3, <2>4, <4>2
          <5>2. QED BY <1>6, <3>1, <5>1
        <4>3. QED BY <2>3, <4>1, <4>2
      <3>2. QED BY <1>3, <1>4, <1>6, <1>8, <2>5, <3>1 DEF Names
    <2>6. CASE r # receipt /\ r.owner = o
      <3>1. Names(st, r) /\ r.id \in Nat
        <4>1. r \in receipts /\ r.epoch = st.epoch
          BY <1>3, <1>4, <1>5, <2>1, <2>6
        <4>2. r.id \in Nat
          BY <4>1 DEF Inv, TypeOK, Receipt
        <4>3. Names(st, r)
          BY <1>1, <2>6, <4>1 DEF Inv, ReceiptsName
        <4>4. QED BY <4>2, <4>3
      <3>2. r.id < id
        BY <1>1, <1>6, <3>1 DEF Names
      <3>3. ASSUME NEW i \in 1..Len(new.events), new.events[i].id = r.id
            PROVE  new.events[i].fact = r.fact
        <4>1. i # Len(new.events)
          BY <1>3, <1>6, <3>1, <3>2, <3>3
        <4>2. i \in 1..Len(st.events) /\ new.events[i] = st.events[i]
          BY <1>3, <2>3, <4>1
        <4>3. QED BY <3>1, <3>3, <4>2 DEF Names
      <3>4. QED BY <1>3, <1>4, <1>6, <2>6, <3>1, <3>2, <3>3 DEF Names
    <2>7. CASE r # receipt /\ r.owner # o
      BY <1>4, <1>5, <1>11, <2>1, <2>7 DEF Inv, ReceiptsName
    <2>8. QED BY <2>5, <2>6, <2>7
  <1>14. QED BY <1>4, <1>9, <1>10, <1>12, <1>13 DEF Inv

-----------------------------------------------------------------------------
(***************************************************************************)
(* The type invariant and the strengthening hold in every state.           *)
(***************************************************************************)
LEMMA InitInv == Init => Inv
  <1> SUFFICES ASSUME Init PROVE Inv
    OBVIOUS
  <1>1. TypeOK
    BY DEF Init, TypeOK
  <1>2. QED BY <1>1 DEF Init, Inv, EventsOrdered, SnapshotsOrdered, OwnersBorn,
                        TokensFollow, ReceiptsName

LEMMA NextInv == Inv /\ [Next]_vars => Inv'
  <1> SUFFICES ASSUME Inv, [Next]_vars PROVE Inv'
    OBVIOUS
  <1>1. CASE UNCHANGED vars
    BY <1>1 DEF vars, Inv, TypeOK, EventsOrdered, SnapshotsOrdered, OwnersBorn, TokensFollow,
                ReceiptsName
  <1>2. CASE Drop
    BY <1>2, SameStoresPreserve DEF Drop
  <1>3. ASSUME NEW o \in Owners, Call(o)
        PROVE  Inv'
    <2>1. CASE Create(o)
      BY <2>1, CreatePreserves
    <2>2. CASE Restore(o)
      BY <2>2, RestorePreserves
    <2>3. CASE Close(o)
      BY <2>3, ClosePreserves
    <2>4. CASE CaptureContext(o)
      BY <2>4, CapturePreserves
    <2>5. CASE \E p \in Policies : SetPolicy(o, p)
      BY <2>5, SetPolicyPreserves
    <2>6. CASE \E g \in Generations, k \in Keys : Clear(o, g, k)
      BY <2>6, ClearPreserves
    <2>7. CASE \E c \in captures, f \in Feedback, id \in EventIds, k \in Candidates :
                  RecordAcceptance(o, c, f, id, k)
      BY <2>7, AcceptancePreserves
    <2>8. CASE \E r \in receipts : RecordUndo(o, r)
      BY <2>8, UndoPreserves
    <2>9. CASE \E n \in Checkpoints : ExportCheckpoint(o, n)
      BY <2>9, ExportPreserves
    <2>10. QED BY <1>3, <2>1, <2>2, <2>3, <2>4, <2>5, <2>6, <2>7, <2>8, <2>9 DEF Call
  <1>4. QED BY <1>1, <1>2, <1>3 DEF Next

LEMMA Invariance == Spec => []Inv
  <1>1. QED BY InitInv, NextInv, PTL DEF Spec

(***************************************************************************)
(* The stores and the tokens their hosts keep have their types: epochs and *)
(* event numbers stay within the counters (the checked additions of clear, *)
(* set_policy and record_acceptance_at).                                   *)
(***************************************************************************)
THEOREM Types == Spec => []TypeOK
  <1>1. Inv => TypeOK
    BY DEF Inv
  <1>2. QED BY <1>1, Invariance, PTL

(***************************************************************************)
(* A capture the store still takes (the check of record_acceptance_at) was *)
(* issued under the policy and in the history that are in force.           *)
(***************************************************************************)
THEOREM NoFeedbackCrosses == Spec => []CapturesDoNotCross
  <1>1. Inv => CapturesDoNotCross
    <2>1. SUFFICES ASSUME Inv, NEW c \in captures, NEW o \in Owners, store[o] # NoStore,
                          Current(o, store[o], c)
                   PROVE  ~c.crossed
      BY DEF CapturesDoNotCross
    <2>2. c.owner = o /\ c.epoch = store[o].epoch
      BY <2>1 DEF Current
    <2>3. TokenFollows(store[o], c)
      BY <2>1, <2>2 DEF Inv, TokensFollow
    <2>4. store[o].epoch \in Nat
      BY <2>1 DEF Inv, TypeOK, Store, Epochs
    <2>5. QED BY <2>2, <2>3, <2>4 DEF TokenFollows
  <1>2. QED BY <1>1, Invariance, PTL

(***************************************************************************)
(* The events a receipt can undo (the search of record_undo) are those of  *)
(* the acceptance it was issued for, and no clear came in between.         *)
(***************************************************************************)
THEOREM UndoFindsItsAcceptance == Spec => []ReceiptsDenote
  <1>1. Inv => ReceiptsDenote
    <2>1. SUFFICES ASSUME Inv, NEW r \in receipts, NEW o \in Owners, store[o] # NoStore,
                          Undoes(o, store[o], r)
                   PROVE  /\ ~r.crossed
                          /\ \A i \in Undoable(store[o], r) :
                                store[o].events[i].fact = r.fact
      BY DEF ReceiptsDenote
    <2>2. r.owner = o /\ r.epoch = store[o].epoch
      BY <2>1 DEF Undoes, Current
    <2>3. TokenFollows(store[o], r) /\ Names(store[o], r)
      BY <2>1, <2>2 DEF Inv, TokensFollow, ReceiptsName
    <2>4. store[o].epoch \in Nat
      BY <2>1 DEF Inv, TypeOK, Store, Epochs
    <2>5. ~r.crossed
      BY <2>2, <2>3, <2>4 DEF TokenFollows
    <2>6. \A i \in Undoable(store[o], r) : store[o].events[i].fact = r.fact
      BY <2>3 DEF Undoable, Names
    <2>7. QED BY <2>5, <2>6
  <1>2. QED BY <1>1, Invariance, PTL

(***************************************************************************)
(* The event numbers of a store grow, through restores too, and the last   *)
(* one is that of its last event.                                          *)
(***************************************************************************)
THEOREM NumbersGrow == Spec => []EventsOrdered
  <1>1. Inv => EventsOrdered
    BY DEF Inv
  <1>2. QED BY <1>1, Invariance, PTL

(***************************************************************************)
(* The natural numbers have no infinite descent, so a set of them has a    *)
(* least member; among finitely many places in a list there is a last one. *)
(***************************************************************************)
Smaller == {p \in Nat \X Nat : p[1] < p[2]}

LEMMA NoDescent == IsWellFoundedOn(Smaller, Nat)
  BY NatLessThanWellFounded DEF OpToRel, Smaller

LEMMA LeastNumber ==
  ASSUME NEW S \in SUBSET Nat, S # {}
  PROVE  \E n \in S : \A m \in S : n <= m
  <1>1. PICK n \in S : \A m \in S : ~(<<m, n>> \in Smaller)
    BY NoDescent, WFMin
  <1>2. \A m \in S : ~(m < n)
    BY <1>1 DEF Smaller
  <1>3. QED BY <1>2

LEMMA LastPlace ==
  ASSUME NEW n \in Nat, NEW S \in SUBSET (1..n), S # {}
  PROVE  \E i \in S : \A j \in S : j <= i
  <1> DEFINE Behind == {n - i : i \in S}
  <1>1. Behind \in SUBSET Nat /\ Behind # {}
    <2>1. \A i \in S : n - i \in Nat
      OBVIOUS
    <2>2. QED BY <2>1
  <1>2. PICK d \in Behind : \A e \in Behind : d <= e
    BY <1>1, LeastNumber
  <1>3. PICK i \in S : d = n - i
    BY <1>2
  <1>4. ASSUME NEW j \in S PROVE j <= i
    <2>1. n - j \in Behind
      OBVIOUS
    <2>2. d <= n - j
      BY <1>2, <2>1
    <2>3. QED BY <1>3, <2>2
  <1>5. QED BY <1>4

(***************************************************************************)
(* What a ranking takes for the most recent acceptance of a candidate is   *)
(* the newest one that was not undone (features, the last one of the list):*)
(* event numbers grow along the list.                                      *)
(***************************************************************************)
THEOREM RecencyHolds == Spec => []RecencyIsNewest
  <1>1. Inv => RecencyIsNewest
    <2>1. SUFFICES ASSUME Inv, NEW o \in Owners, store[o] # NoStore,
                          NEW i \in 1..Len(store[o].events), ~store[o].events[i].undone
                   PROVE  store[o].events[i].id
                            <= LastAccepted(store[o], store[o].events[i].candidate)
      BY DEF RecencyIsNewest, Features
    <2> DEFINE st == store[o]
               k == st.events[i].candidate
               S == Surviving(st, k)
    <2>2. st.events \in Seq(Event) /\ Ordered(st.events) /\ Len(st.events) \in Nat
      BY <2>1 DEF Inv, TypeOK, Store, EventsOrdered
    <2>3. i \in S /\ S \in SUBSET (1..Len(st.events))
      BY <2>1 DEF Surviving, EventsOf
    <2> DEFINE m == CHOOSE x \in S : \A j \in S : j <= x
    <2>4. m \in S /\ i <= m
      <3>1. S # {} /\ Len(st.events) \in Nat
        BY <2>2, <2>3
      <3> HIDE DEF S, st
      <3>2. \E x \in S : \A j \in S : j <= x
        BY <2>3, <3>1, LastPlace
      <3>3. QED BY <2>3, <3>2
    <2>5. LastAccepted(st, k) = st.events[m].id
      BY <2>3 DEF LastAccepted
    <2>6. m \in 1..Len(st.events)
      BY <2>3, <2>4
    <2>7. st.events[i].id <= st.events[m].id
      <3> HIDE DEF m, S, k
      <3>1. \A x \in 1..Len(st.events) : st.events[x] \in Event
        BY <2>2
      <3>2. \A x \in 1..Len(st.events) : st.events[x].id \in Nat
        BY <3>1, EventIdAssumption DEF Event
      <3>3. i \in 1..Len(st.events) /\ m \in 1..Len(st.events) /\ i <= m
        BY <2>1, <2>4, <2>6
      <3>4. CASE i = m
        BY <3>2, <3>3, <3>4
      <3>5. CASE i < m
        BY <2>2, <3>2, <3>3, <3>5 DEF Ordered
      <3>6. QED BY <2>2, <3>3, <3>4, <3>5
    <2>8. QED BY <2>5, <2>7
  <1>2. QED BY <1>1, Invariance, PTL
-----------------------------------------------------------------------------
(***************************************************************************)
(* How a store changes: into a later generation, or by more history and    *)
(* checkpoint numbers that never fall.                                     *)
(***************************************************************************)
Lengthens(old, new) ==
    /\ Len(old) <= Len(new)
    /\ \A i \in 1..Len(old) : /\ new[i].fact = old[i].fact
                              /\ old[i].undone => new[i].undone

Grows(st, new) ==
    \/ new.generation > st.generation
    \/ /\ new.generation = st.generation
       /\ new.checkpoint >= st.checkpoint
       /\ Lengthens(st.events, new.events)

LEMMA SameEventsGrow ==
  ASSUME NEW st \in Store, NEW new, new.generation = st.generation, new.events = st.events,
         new.checkpoint \in Nat, new.checkpoint >= st.checkpoint
  PROVE  Grows(st, new)
  <1>1. st.events \in Seq(Event)
    BY DEF Store
  <1>2. Len(st.events) \in Nat
    BY <1>1
  <1>3. QED BY <1>2 DEF Grows, Lengthens

LEMMA OneStoreMoves ==
  ASSUME Inv, NEW o \in Owners, Call(o)
  PROVE  \A x \in Owners \ {o} : store'[x] = store[x]
  BY DEF Call, Create, Restore, Close, CaptureContext, SetPolicy, Clear, RecordAcceptance,
         RecordUndo, ExportCheckpoint, Inv, TypeOK

LEMMA StoreGrows ==
  ASSUME Inv, NEW o \in Owners, Call(o), store[o] # NoStore, store'[o] # NoStore
  PROVE  Grows(store[o], store'[o])
  <1> DEFINE st == store[o]
  <1>1. /\ st \in Store /\ st.checkpoint \in Nat /\ o \in born
        /\ store \in [Owners -> Store \cup {NoStore}]
        /\ Ordered(st.events) /\ LastId(st.events) = st.last
    BY DEF Inv, TypeOK, OwnersBorn, EventsOrdered, Store, Checkpoints
  <1>2. CASE Create(o) \/ Restore(o)
    BY <1>1, <1>2 DEF Create, Restore
  <1>3. CASE Close(o)
    BY <1>1, <1>3 DEF Close
  <1>4. CASE CaptureContext(o)
    BY <1>1, <1>4, SameEventsGrow DEF CaptureContext
  <1>5. ASSUME NEW p \in Policies, SetPolicy(o, p)
        PROVE  Grows(st, store'[o])
    <2>1. store'[o] = WithPolicy(st, p)
      BY <1>1, <1>5 DEF SetPolicy
    <2>2. /\ WithPolicy(st, p).generation = st.generation
          /\ WithPolicy(st, p).events = st.events
          /\ WithPolicy(st, p).checkpoint = st.checkpoint
      BY <1>1 DEF WithPolicy, Store
    <2>3. QED BY <1>1, <2>1, <2>2, SameEventsGrow
  <1>6. ASSUME NEW g \in Generations, NEW k \in Keys, Clear(o, g, k)
        PROVE  Grows(st, store'[o])
    <2>1. store'[o] = Cleared(st, g, k) /\ g > st.generation
      BY <1>1, <1>6 DEF Clear, CanClear
    <2>2. Cleared(st, g, k).generation = g
      BY <1>1 DEF Cleared, Store
    <2>3. QED BY <2>1, <2>2 DEF Grows
  <1>7. ASSUME NEW c \in captures, NEW f \in Feedback, NEW id \in EventIds, NEW k \in Candidates,
               RecordAcceptance(o, c, f, id, k)
        PROVE  Grows(st, store'[o])
    <2> DEFINE new == Accepted(st, f, id, k)
    <2>1. store'[o] = new /\ id > st.last
      BY <1>1, <1>7 DEF RecordAcceptance, CanAccept, NewEvent
    <2>2. /\ Len(new.events) = Len(st.events) + 1
          /\ \A i \in 1..Len(st.events) : new.events[i] = st.events[i]
      BY <1>1, <2>1, AcceptedFacts
    <2>3. new.generation = st.generation /\ new.checkpoint = st.checkpoint
      BY <1>1 DEF Accepted, Store
    <2>4. st.events \in Seq(Event)
      BY <1>1 DEF Store
    <2>5. Len(st.events) \in Nat
      BY <2>4
    <2> HIDE DEF new
    <2>6. Len(st.events) <= Len(new.events)
      BY <2>2, <2>5
    <2>7. Lengthens(st.events, new.events)
      BY <2>2, <2>6, Zenon DEF Lengthens
    <2>8. QED BY <1>1, <2>1, <2>3, <2>7 DEF Grows
  <1>8. ASSUME NEW r \in receipts, RecordUndo(o, r)
        PROVE  Grows(st, store'[o])
    <2> DEFINE new == Undone(st, r)
    <2>1. store'[o] = new
      BY <1>1, <1>8 DEF RecordUndo
    <2>2. /\ Len(new.events) = Len(st.events)
          /\ \A i \in 1..Len(st.events) : /\ new.events[i].fact = st.events[i].fact
                                          /\ st.events[i].undone => new.events[i].undone
          /\ new.generation = st.generation /\ new.checkpoint = st.checkpoint
      BY <1>1, UndoneFacts
    <2>3. st.events \in Seq(Event)
      BY <1>1 DEF Store
    <2>4. Len(st.events) \in Nat
      BY <2>3
    <2> HIDE DEF new
    <2>5. Lengthens(st.events, new.events)
      BY <2>2, <2>4 DEF Lengthens
    <2>6. QED BY <1>1, <2>1, <2>2, <2>5 DEF Grows
  <1>9. ASSUME NEW n \in Checkpoints, ExportCheckpoint(o, n)
        PROVE  Grows(st, store'[o])
    <2> DEFINE new == [st EXCEPT !.checkpoint = n]
    <2>1. store'[o] = new /\ n > st.checkpoint
      BY <1>1, <1>9 DEF ExportCheckpoint, NewCheckpoint
    <2>2. new.generation = st.generation /\ new.events = st.events /\ new.checkpoint = n
      BY <1>1 DEF Store
    <2>3. n \in Nat
      BY DEF Checkpoints
    <2> HIDE DEF new
    <2>4. QED BY <1>1, <2>1, <2>2, <2>3, SameEventsGrow
  <1>10. QED BY <1>2, <1>3, <1>4, <1>5, <1>6, <1>7, <1>8, <1>9 DEF Call

(***************************************************************************)
(* Within a generation the store forgets no acceptance, no undo and no     *)
(* order: record_acceptance_at refuses at the limit and evicts nothing.    *)
(***************************************************************************)
Kept ==
    \A o \in Owners :
       LET old == store[o].events  new == store'[o].events
       IN store[o] # NoStore /\ store'[o] # NoStore
          /\ store'[o].generation = store[o].generation =>
             /\ Len(old) <= Len(new)
             /\ \A i \in 1..Len(old) :
                   /\ new[i].fact = old[i].fact
                   /\ old[i].undone => new[i].undone

LEMMA NextKeeps == Inv /\ [Next]_vars => Kept
  <1> SUFFICES ASSUME Inv, [Next]_vars, NEW o \in Owners, store[o] # NoStore,
                      store'[o] # NoStore, store'[o].generation = store[o].generation
               PROVE  Lengthens(store[o].events, store'[o].events)
    BY DEF Kept, Lengthens
  <1>1. /\ store[o].events \in Seq(Event)
        /\ store[o].generation \in Nat /\ store[o] \in Store
    BY GenerationAssumption DEF Inv, TypeOK, Store
  <1>2. CASE store'[o] = store[o]
    <2>1. Len(store[o].events) \in Nat
      BY <1>1
    <2>2. QED BY <1>2, <2>1 DEF Lengthens
  <1>3. CASE Call(o)
    <2>1. Grows(store[o], store'[o])
      BY <1>3, StoreGrows
    <2>2. QED BY <1>1, <2>1 DEF Grows
  <1>4. store'[o] = store[o] \/ Call(o)
    BY OneStoreMoves DEF Next, vars, Drop
  <1>5. QED BY <1>2, <1>3, <1>4

THEOREM NothingEvicted == Spec => HistoryKept
  <1>1. Inv /\ [Next]_vars => Kept
    BY NextKeeps
  <1>2. Kept => \A o \in Owners :
                   LET old == store[o].events  new == store'[o].events
                   IN store[o] # NoStore /\ store'[o] # NoStore
                      /\ store'[o].generation = store[o].generation =>
                         /\ Len(old) <= Len(new)
                         /\ \A i \in 1..Len(old) :
                               /\ new[i].fact = old[i].fact
                               /\ old[i].undone => new[i].undone
    BY DEF Kept
  <1>3. QED BY <1>1, <1>2, InitInv, NextInv, PTL DEF Spec, HistoryKept

(***************************************************************************)
(* Where the exported numbers are: of an earlier generation of their       *)
(* store, or not above its last one.                                       *)
(***************************************************************************)
Below(snap, st) ==
    \/ snap.generation < st.generation
    \/ snap.generation = st.generation /\ snap.checkpoint <= st.checkpoint

SnapshotsBelow ==
    \A snap \in snapshots :
       /\ snap.by \in born
       /\ store[snap.by] # NoStore => Below(snap, store[snap.by])

NumberInv == Inv /\ SnapshotsBelow /\ NumbersNameSnapshots

LEMMA BelowStays ==
  ASSUME NEW st \in Store, NEW new \in Store, Grows(st, new), NEW snap \in Snapshot,
         Below(snap, st)
  PROVE  Below(snap, new)
  <1>1. /\ st.generation \in Generations /\ new.generation \in Generations
        /\ snap.generation \in Generations
        /\ st.checkpoint \in Checkpoints /\ new.checkpoint \in Checkpoints
        /\ snap.checkpoint \in Checkpoints
    BY DEF Store, Snapshot
  <1>2. /\ st.generation \in Nat /\ new.generation \in Nat /\ snap.generation \in Nat
        /\ st.checkpoint \in Nat /\ new.checkpoint \in Nat /\ snap.checkpoint \in Nat
    <2>1. Generations \subseteq Nat /\ Checkpoints \subseteq Nat
      BY GenerationAssumption, CounterAssumption DEF Checkpoints
    <2>2. QED BY <1>1, <2>1, Zenon
  <1>3. QED BY <1>2 DEF Grows, Below

LEMMA CallNumbers ==
  ASSUME NumberInv, Inv', NEW o \in Owners, Call(o)
  PROVE  SnapshotsBelow' /\ NumbersNameSnapshots'
  <1>1. \A snap \in snapshots : snap \in Snapshot /\ snap.by \in Owners
    BY DEF NumberInv, Inv, TypeOK, Snapshot
  <1>2. ASSUME NEW snap \in snapshots
        PROVE  snap.by \in born' /\ (store'[snap.by] # NoStore => Below(snap, store'[snap.by]))
    <2>1. snap.by \in born /\ (store[snap.by] # NoStore => Below(snap, store[snap.by]))
      BY DEF NumberInv, SnapshotsBelow
    <2>2. born \subseteq born'
      BY DEF Call, Create, Restore, Close, CaptureContext, SetPolicy, Clear, RecordAcceptance,
             RecordUndo, ExportCheckpoint
    <2>3. CASE snap.by # o
      BY <1>1, <2>1, <2>2, <2>3, OneStoreMoves DEF NumberInv
    <2>4. CASE snap.by = o /\ store[o] # NoStore /\ store'[o] # NoStore
      <3>1. store[o] \in Store /\ store'[o] \in Store /\ Grows(store[o], store'[o])
        BY <2>4, StoreGrows DEF NumberInv, Inv, TypeOK
      <3>2. QED BY <1>1, <2>1, <2>2, <2>4, <3>1, BelowStays
    <2>5. CASE snap.by = o /\ store[o] = NoStore
      <3>1. store'[o] = NoStore
        BY <2>1, <2>5
        DEF Call, Create, Restore, Close, CaptureContext, SetPolicy, Clear, RecordAcceptance,
            RecordUndo, ExportCheckpoint
      <3>2. QED BY <2>1, <2>2, <2>5, <3>1
    <2>6. QED BY <2>1, <2>2, <2>3, <2>4, <2>5
  <1>3. CASE snapshots' = snapshots
    BY <1>2, <1>3 DEF NumberInv, SnapshotsBelow, NumbersNameSnapshots
  <1>4. ASSUME NEW n \in Checkpoints, ExportCheckpoint(o, n)
        PROVE  SnapshotsBelow' /\ NumbersNameSnapshots'
    <2> DEFINE new == SnapshotOf(o, store[o], n)
    <2>1. /\ store[o] # NoStore /\ store[o] \in Store /\ n > store[o].checkpoint
          /\ snapshots' = snapshots \cup {new} /\ born' = born
          /\ store'[o] = [store[o] EXCEPT !.checkpoint = n]
      BY <1>4 DEF ExportCheckpoint, NewCheckpoint, NumberInv, Inv, TypeOK
    <2>2. new.by = o /\ new.generation = store[o].generation /\ new.checkpoint = n
      BY DEF SnapshotOf
    <2> HIDE DEF new
    <2>3. /\ store'[o].generation = store[o].generation /\ store'[o].checkpoint = n
          /\ o \in born
      BY <2>1 DEF Store, NumberInv, Inv, OwnersBorn
    <2>4. /\ n \in Nat /\ store[o].checkpoint \in Nat /\ store[o].generation \in Nat
          /\ \A snap \in snapshots : snap.checkpoint \in Nat /\ snap.generation \in Nat
      BY <1>1, <2>1, GenerationAssumption DEF Store, Snapshot, Checkpoints
    <2>5. Below(new, store'[o])
      BY <2>2, <2>3, <2>4 DEF Below
    <2>6. SnapshotsBelow'
      BY <1>2, <2>1, <2>2, <2>3, <2>5 DEF SnapshotsBelow
    <2>7. \A snap \in snapshots :
             snap.by = o /\ snap.generation = new.generation => snap.checkpoint # n
      BY <2>1, <2>2, <2>4 DEF NumberInv, SnapshotsBelow, Below
    <2>8. NumbersNameSnapshots'
      BY <2>1, <2>2, <2>7 DEF NumberInv, NumbersNameSnapshots
    <2>9. QED BY <2>6, <2>8
  <1>5. snapshots' = snapshots \/ \E n \in Checkpoints : ExportCheckpoint(o, n)
    BY DEF Call, Create, Restore, Close, CaptureContext, SetPolicy, Clear, RecordAcceptance,
           RecordUndo
  <1>6. QED BY <1>3, <1>4, <1>5

LEMMA NextNumbers == NumberInv /\ [Next]_vars => NumberInv'
  <1> SUFFICES ASSUME NumberInv, [Next]_vars PROVE SnapshotsBelow' /\ NumbersNameSnapshots'
    BY NextInv DEF NumberInv
  <1>1. Inv'
    BY NextInv DEF NumberInv
  <1>2. CASE UNCHANGED vars \/ Drop
    BY <1>2 DEF vars, Drop, NumberInv, SnapshotsBelow, NumbersNameSnapshots
  <1>3. QED BY <1>1, <1>2, CallNumbers DEF Next

(***************************************************************************)
(* A checkpoint number names one snapshot of its store and generation, for *)
(* export_checkpoint takes numbers above the last only, and neither a      *)
(* restore nor a clear lets a store use a number of its own again.         *)
(***************************************************************************)
THEOREM NumbersAreNames == Spec => []NumbersNameSnapshots
  <1>1. Init => NumberInv
    BY InitInv DEF Init, NumberInv, SnapshotsBelow, NumbersNameSnapshots
  <1>2. NumberInv => NumbersNameSnapshots
    BY DEF NumberInv
  <1>3. QED BY <1>1, <1>2, NextNumbers, PTL DEF Spec
-----------------------------------------------------------------------------
(***************************************************************************)
(* For whoever keeps receipts: an acceptance or an undo leaves the event   *)
(* of any other receipt undoable, since numbers are not shared.            *)
(***************************************************************************)
LEMMA AcceptanceUndoable ==
  ASSUME NEW st \in Store, Ordered(st.events), LastId(st.events) = st.last,
         NEW f \in Feedback, NEW id \in EventIds, NEW k \in Candidates, id > st.last
  PROVE  LET new == Accepted(st, f, id, k)
         IN /\ new.policy = st.policy
            /\ \A r : r.id = id \/ Undoable(st, r) # {} => Undoable(new, r) # {}
  <1> DEFINE e == [id |-> id, candidate |-> k, undone |-> FALSE, fact |-> f]
             old == st.events
             new == Accepted(st, f, id, k)
  <1>1. new = [st EXCEPT !.last = id, !.events = Append(old, e)]
    BY DEF Accepted
  <1>2. new.events = Append(old, e) /\ new.policy = st.policy /\ old \in Seq(Event)
    BY <1>1 DEF Store
  <1>3. e \in Event /\ e.id = id /\ ~e.undone
    BY DEF Event
  <1> HIDE DEF new, e
  <1>4. /\ Len(new.events) = Len(old) + 1 /\ Len(old) \in Nat
        /\ \A i \in 1..Len(old) : new.events[i] = old[i]
        /\ new.events[Len(old) + 1] = e
    BY <1>2, <1>3
  <1>5. ASSUME NEW r, r.id = id PROVE Undoable(new, r) # {}
    <2>1. Len(old) + 1 \in Undoable(new, r)
      BY <1>3, <1>4, <1>5 DEF Undoable
    <2>2. QED BY <2>1
  <1>6. ASSUME NEW r, NEW i \in Undoable(st, r) PROVE i \in Undoable(new, r)
    BY <1>4, <1>6 DEF Undoable
  <1>7. QED BY <1>2, <1>5, <1>6 DEF new

LEMMA UndoElsewhere ==
  ASSUME NEW st \in Store, Ordered(st.events), NEW r, NEW q, q.id # r.id,
         Undoable(st, r) # {}, Undoable(st, q) # {}
  PROVE  LET new == Undone(st, r)
         IN new.policy = st.policy /\ Undoable(new, q) # {}
  <1> DEFINE first == CHOOSE i \in Undoable(st, r) : \A j \in Undoable(st, r) : i <= j
             old == st.events
             changed == [old EXCEPT ![first].undone = TRUE]
             new == Undone(st, r)
  <1>1. old \in Seq(Event) /\ Len(old) \in Nat /\ old \in [1..Len(old) -> Event]
    BY DEF Store
  <1>2. PICK i \in 1..Len(old) : i \in Undoable(st, r) /\ old[i].id = r.id
    BY DEF Undoable
  <1>3. \A j \in Undoable(st, r) : j = i
    <2>1. TAKE j \in Undoable(st, r)
    <2>2. j \in 1..Len(old) /\ old[j].id = r.id
      BY DEF Undoable
    <2>3. old[i].id \in Nat /\ old[j].id \in Nat
      BY <1>1, <1>2, <2>2 DEF Event
    <2>4. ~(i < j) /\ ~(j < i)
      BY <1>2, <2>2, <2>3 DEF Ordered
    <2>5. QED BY <1>1, <1>2, <2>2, <2>4
  <1>4. first = i
    <2>1. \A j \in Undoable(st, r) : i <= j
      BY <1>2, <1>3
    <2>2. first \in Undoable(st, r)
      BY <1>2, <2>1
    <2>3. QED BY <1>3, <2>2
  <1> HIDE DEF first
  <1>5. new = [st EXCEPT !.events = changed]
    BY DEF Undone, first
  <1>6. new.events = changed /\ new.policy = st.policy
    BY <1>5 DEF Store
  <1>7. PICK j \in 1..Len(old) : j \in Undoable(st, q) /\ old[j].id = q.id /\ ~old[j].undone
    BY DEF Undoable
  <1>8. changed[j] = old[j] /\ Len(changed) = Len(old)
    BY <1>1, <1>2, <1>4, <1>7
  <1>9. j \in Undoable(new, q)
    BY <1>6, <1>7, <1>8 DEF Undoable
  <1>10. QED BY <1>6, <1>9
=============================================================================
