------------------------ MODULE WorkerPreferencesProofs ------------------------
(***************************************************************************)
(* Proofs about WorkerPreferences, for any keys, generations, policies,    *)
(* acceptances and limits: the registry's tables hold live tokens only, no *)
(* token is given out twice, and the registry implements the stores of     *)
(* PreferenceFeedback, whose own invariant the proof builds on.            *)
(***************************************************************************)
EXTENDS WorkerPreferences, TLAPS

(***************************************************************************)
(* What the registry is to a host of stores.                               *)
(***************************************************************************)
StoreOf == [o \in Tokens |-> IF o \in DOMAIN entries THEN entries[o].core ELSE NoStore]

CapturesOf == UNION {Range(entries[o].captures) : o \in DOMAIN entries}

ReceiptsOf == UNION {Range(entries[o].receipts) : o \in DOMAIN entries}

(***************************************************************************)
(* The facts proved about the stores, for the instance that Core is.       *)
(***************************************************************************)
Proved == INSTANCE PreferenceFeedbackProofs WITH
    Owners <- Tokens,
    HostDrops <- TRUE,
    store <- StoreOf,
    born <- created,
    captures <- CapturesOf,
    receipts <- ReceiptsOf

(***************************************************************************)
(* Tables that are keyed by tokens: the owners, and what an owner holds.   *)
(***************************************************************************)
Tables(S) == UNION {[T -> S] : T \in SUBSET Tokens}

Entry == [core : Core!Store, captures : Tables(Core!Capture), receipts : Tables(Core!Receipt)]

Counted == next \in Nat /\ created \subseteq 1..next /\ DOMAIN entries \subseteq created

(***************************************************************************)
(* No two receipts of an owner are for one event number: an undo of one    *)
(* cannot spend the other.                                                 *)
(***************************************************************************)
ReceiptsApart ==
    \A o \in DOMAIN entries : \A t, u \in DOMAIN entries[o].receipts :
       t # u => entries[o].receipts[t].id # entries[o].receipts[u].id

Inv == entries \in Tables(Entry) /\ Counted /\ TokensLive /\ ReceiptsApart /\ Proved!Inv

-----------------------------------------------------------------------------
(* Tables *)

LEMMA TableFacts ==
  ASSUME NEW S, NEW f
  PROVE  f \in Tables(S) <=> /\ f = [t \in DOMAIN f |-> f[t]]
                             /\ DOMAIN f \subseteq Tokens
                             /\ \A t \in DOMAIN f : f[t] \in S
  BY DEF Tables

LEMMA KeepTable ==
  ASSUME NEW S, NEW f \in Tables(S), NEW t \in Tokens, NEW x \in S
  PROVE  Keep(f, t, x) \in Tables(S)
  <1> DEFINE g == Keep(f, t, x)
  <1>1. g = [u \in DOMAIN f \cup {t} |-> IF u = t THEN x ELSE f[u]]
    BY DEF Keep
  <1>2. DOMAIN f \subseteq Tokens /\ \A u \in DOMAIN f : f[u] \in S
    BY TableFacts
  <1> HIDE DEF g
  <1>3. DOMAIN g = DOMAIN f \cup {t} /\ g = [u \in DOMAIN g |-> g[u]]
    BY <1>1
  <1>4. \A u \in DOMAIN g : g[u] \in S
    BY <1>1, <1>2
  <1>5. QED BY <1>2, <1>3, <1>4, TableFacts DEF g

LEMMA Forgotten ==
  ASSUME NEW S, NEW f \in Tables(S), NEW t
  PROVE  /\ Forget(f, t) \in Tables(S)
         /\ DOMAIN Forget(f, t) = DOMAIN f \ {t}
         /\ \A u \in DOMAIN f \ {t} : Forget(f, t)[u] = f[u]
  BY TableFacts DEF Forget, Restrict

LEMMA EmptyTable == ASSUME NEW S PROVE None \in Tables(S) /\ DOMAIN None = {}
  BY DEF None, Tables

LEMMA RangeFacts ==
  ASSUME NEW f
  PROVE  \A x : x \in Range(f) <=> \E t \in DOMAIN f : x = f[t]
  BY DEF Range

LEMMA KeepRange ==
  ASSUME NEW S, NEW f \in Tables(S), NEW t \in Tokens, NEW x \in S
  PROVE  Range(Keep(f, t, x)) \subseteq Range(f) \cup {x}
  <1> SUFFICES ASSUME NEW y \in Range(Keep(f, t, x)) PROVE y \in Range(f) \cup {x}
    OBVIOUS
  <1>1. PICK u \in DOMAIN Keep(f, t, x) : y = Keep(f, t, x)[u]
    BY DEF Range
  <1>2. (u = t /\ y = x) \/ (u \in DOMAIN f /\ y = f[u])
    BY <1>1 DEF Keep
  <1>3. QED BY <1>1, <1>2 DEF Range

LEMMA ForgetRange ==
  ASSUME NEW S, NEW f \in Tables(S), NEW t
  PROVE  Range(Forget(f, t)) \subseteq Range(f)
  <1> SUFFICES ASSUME NEW y \in Range(Forget(f, t)) PROVE y \in Range(f)
    OBVIOUS
  <1>1. PICK u \in DOMAIN Forget(f, t) : y = Forget(f, t)[u]
    BY DEF Range
  <1>2. u \in DOMAIN f \ {t} /\ y = f[u]
    BY <1>1, Forgotten
  <1>3. QED BY <1>2 DEF Range

LEMMA EmptyRange == Range(None) = {}
  BY DEF None, Range

-----------------------------------------------------------------------------
(***************************************************************************)
(* What is proved about the stores, for the instance the registry uses.    *)
(***************************************************************************)
LEMMA SameSets ==
  /\ Core!Store = Proved!Store
  /\ Core!Capture = Proved!Capture
  /\ Core!Receipt = Proved!Receipt
  /\ Core!Snapshot = Proved!Snapshot
  BY DEF Core!Store, Proved!Store, Core!Event, Proved!Event, Core!Disabled, Proved!Disabled,
         Core!Epochs, Proved!Epochs, Core!Checkpoints, Proved!Checkpoints,
         Core!Capture, Proved!Capture, Core!Receipt, Proved!Receipt,
         Core!Snapshot, Proved!Snapshot

LEMMA SameValues ==
  /\ \A g, k : Core!NewStore(g, k) = Proved!NewStore(g, k)
  /\ \A snap : Core!Restored(snap) = Proved!Restored(snap)
  /\ \A st, p : Core!WithPolicy(st, p) = Proved!WithPolicy(st, p)
  /\ \A st, g, k : Core!Cleared(st, g, k) = Proved!Cleared(st, g, k)
  /\ \A st, f, id, k : Core!Accepted(st, f, id, k) = Proved!Accepted(st, f, id, k)
  /\ \A st, r : Core!Undone(st, r) = Proved!Undone(st, r)
  /\ \A st, r : Core!Undoable(st, r) = Proved!Undoable(st, r)
  BY DEF Core!NewStore, Proved!NewStore, Core!Disabled, Proved!Disabled,
         Core!Restored, Proved!Restored, Core!LastId, Proved!LastId,
         Core!WithPolicy, Proved!WithPolicy, Core!Cleared, Proved!Cleared,
         Core!Accepted, Proved!Accepted, Core!Undone, Proved!Undone,
         Core!Undoable, Proved!Undoable

LEMMA SameGuards ==
  /\ \A st, p : Core!CanSetPolicy(st, p) <=> Proved!CanSetPolicy(st, p)
  /\ \A st, g, k : Core!CanClear(st, g, k) <=> Proved!CanClear(st, g, k)
  BY DEF Core!CanSetPolicy, Proved!CanSetPolicy, Core!CanClear, Proved!CanClear

LEMMA SameSteps == Core!Next <=> Proved!Next
  BY DEF Core!Next, Proved!Next, Core!Call, Proved!Call, Core!Drop, Proved!Drop,
         Core!HostKeeps, Proved!HostKeeps, Core!Create, Proved!Create,
         Core!Restore, Proved!Restore, Core!Close, Proved!Close,
         Core!CaptureContext, Proved!CaptureContext, StoreOf, CapturesOf, ReceiptsOf,
         Core!SetPolicy, Proved!SetPolicy, Core!Clear, Proved!Clear,
         Core!RecordAcceptance, Proved!RecordAcceptance, Core!RecordUndo, Proved!RecordUndo,
         Core!ExportCheckpoint, Proved!ExportCheckpoint, Core!NewStore, Proved!NewStore,
         Core!Restored, Proved!Restored, Core!WithPolicy, Proved!WithPolicy,
         Core!Cleared, Proved!Cleared, Core!Accepted, Proved!Accepted,
         Core!Undone, Proved!Undone, Core!SnapshotOf, Proved!SnapshotOf,
         Core!Cross, Proved!Cross, Core!Current, Proved!Current,
         Core!CanAccept, Proved!CanAccept, Core!Undoable, Proved!Undoable,
         Core!Undoes, Proved!Undoes, Core!CanSetPolicy, Proved!CanSetPolicy,
         Core!CanClear, Proved!CanClear, Core!NewCheckpoint, Proved!NewCheckpoint,
         Core!Records, Proved!Records, Core!NewEvent, Proved!NewEvent,
         Core!LastId, Proved!LastId, Core!Checkpoints, Proved!Checkpoints,
         Core!Disabled, Proved!Disabled

LEMMA Assumed ==
  /\ MaxEpoch \in Nat /\ MaxCheckpoint \in Nat
  /\ EventIds \subseteq Nat
  /\ Generations \subseteq Nat
  /\ MaxEvents \in Nat
  /\ TRUE \in BOOLEAN
  /\ Policies \subseteq [ranking: BOOLEAN, feedback: BOOLEAN, sensitive: BOOLEAN]
  /\ NoStore \notin Proved!Store
  BY CounterAssumption, EventIdAssumption, GenerationAssumption, EventLimitAssumption,
     PolicyAssumption, NoStoreAssumption, SameSets

LEMMA CoreKeepsInv == Proved!Inv /\ [Core!Next]_(Core!vars) => Proved!Inv'
  <1>1. [Core!Next]_(Core!vars) => [Proved!Next]_(Proved!vars)
    BY SameSteps DEF Core!vars, Proved!vars, StoreOf, CapturesOf, ReceiptsOf
  <1>2. QED BY <1>1, Assumed, Proved!NextInv

-----------------------------------------------------------------------------
(***************************************************************************)
(* What the invariant says of one owner, in the terms of its store.        *)
(***************************************************************************)
Live(o, e) ==
    /\ \A t \in DOMAIN e.captures : Core!Current(o, e.core, e.captures[t])
    /\ \A t \in DOMAIN e.receipts : Core!Undoes(o, e.core, e.receipts[t])

Apart(e) == \A t, u \in DOMAIN e.receipts : t # u => e.receipts[t].id # e.receipts[u].id

LEMMA OwnerFacts ==
  ASSUME Inv, NEW o \in DOMAIN entries
  PROVE  /\ o \in Tokens /\ o \in created
         /\ entries[o] \in Entry /\ Live(o, entries[o]) /\ Apart(entries[o])
         /\ entries[o].core \in Core!Store
         /\ StoreOf[o] = entries[o].core /\ StoreOf[o] # NoStore
         /\ Proved!Ordered(entries[o].core.events)
         /\ Proved!LastId(entries[o].core.events) = entries[o].core.last
  <1>1. o \in Tokens /\ entries[o] \in Entry /\ o \in created
    BY TableFacts DEF Inv, Counted
  <1>2. Live(o, entries[o]) /\ Apart(entries[o])
    BY DEF Inv, TokensLive, ReceiptsApart, Live, Apart
  <1>3. entries[o].core \in Core!Store
    BY <1>1 DEF Entry
  <1>4. StoreOf[o] = entries[o].core /\ StoreOf[o] # NoStore
    BY <1>1, <1>3, NoStoreAssumption DEF StoreOf
  <1>5. Proved!EventsOrdered
    BY DEF Inv, Proved!Inv
  <1>6. \A x \in Tokens : StoreOf[x] # NoStore =>
           /\ Proved!Ordered(StoreOf[x].events)
           /\ Proved!LastId(StoreOf[x].events) = StoreOf[x].last
    BY <1>5 DEF Proved!EventsOrdered, StoreOf
  <1>7. QED BY <1>1, <1>2, <1>3, <1>4, <1>6

LEMMA HeldFacts ==
  ASSUME Inv, NEW o \in DOMAIN entries
  PROVE  /\ \A c \in Range(entries[o].captures) : c \in CapturesOf /\ c.owner = o
         /\ \A r \in Range(entries[o].receipts) :
               r \in ReceiptsOf /\ r.owner = o /\ r.id <= entries[o].core.last
  <1>1. ASSUME NEW c \in Range(entries[o].captures) PROVE c \in CapturesOf /\ c.owner = o
    <2>1. PICK t \in DOMAIN entries[o].captures : c = entries[o].captures[t]
      BY RangeFacts
    <2>2. QED BY <2>1, OwnerFacts DEF CapturesOf, Live, Core!Current
  <1>2. ASSUME NEW r \in Range(entries[o].receipts)
        PROVE  r \in ReceiptsOf /\ r.owner = o /\ r.id <= entries[o].core.last
    <2>1. PICK t \in DOMAIN entries[o].receipts : r = entries[o].receipts[t]
      BY RangeFacts
    <2>2. r \in ReceiptsOf /\ r.owner = o /\ r.epoch = entries[o].core.epoch
      BY <2>1, OwnerFacts DEF ReceiptsOf, Live, Core!Undoes, Core!Current
    <2>3. \A q \in ReceiptsOf :
             StoreOf[q.owner] # NoStore /\ q.epoch = StoreOf[q.owner].epoch =>
                Proved!Names(StoreOf[q.owner], q)
      BY DEF Inv, Proved!Inv, Proved!ReceiptsName, StoreOf, ReceiptsOf
    <2>4. Proved!Names(entries[o].core, r)
      BY <2>2, <2>3, OwnerFacts
    <2>5. QED BY <2>2, <2>4 DEF Proved!Names
  <1>3. QED BY <1>1, <1>2

(***************************************************************************)
(* The host of the stores may drop tokens, and here does.                  *)
(***************************************************************************)
LEMMA Drops ==
  ASSUME NEW held, NEW issued, CapturesOf' \subseteq held, ReceiptsOf' \subseteq issued
  PROVE  Core!HostKeeps(held, issued)
  BY DEF Core!HostKeeps, CapturesOf, ReceiptsOf

(***************************************************************************)
(* One owner's State is replaced.                                          *)
(***************************************************************************)
LEMMA EntryMoves ==
  ASSUME Inv, NEW o \in DOMAIN entries, NEW e \in Entry, entries' = [entries EXCEPT ![o] = e]
  PROVE  /\ entries' \in Tables(Entry) /\ DOMAIN entries' = DOMAIN entries
         /\ entries'[o] = e /\ \A x \in DOMAIN entries \ {o} : entries'[x] = entries[x]
         /\ StoreOf' = [StoreOf EXCEPT ![o] = e.core]
         /\ CapturesOf' \subseteq {c \in CapturesOf : c.owner # o} \cup Range(e.captures)
         /\ ReceiptsOf' \subseteq {r \in ReceiptsOf : r.owner # o} \cup Range(e.receipts)
  <1>1. /\ entries = [x \in DOMAIN entries |-> entries[x]] /\ DOMAIN entries \subseteq Tokens
        /\ \A x \in DOMAIN entries : entries[x] \in Entry
    BY TableFacts DEF Inv
  <1>2. /\ DOMAIN entries' = DOMAIN entries /\ entries' = [x \in DOMAIN entries' |-> entries'[x]]
        /\ entries'[o] = e /\ \A x \in DOMAIN entries \ {o} : entries'[x] = entries[x]
    BY <1>1
  <1>3. \A x \in DOMAIN entries' : entries'[x] \in Entry
    BY <1>1, <1>2
  <1>4. entries' \in Tables(Entry)
    BY <1>1, <1>2, <1>3, TableFacts
  <1>5. StoreOf' = [StoreOf EXCEPT ![o] = e.core]
    <2>1. \A x \in Tokens : StoreOf'[x] = IF x = o THEN e.core ELSE StoreOf[x]
      BY <1>1, <1>2 DEF StoreOf
    <2>2. /\ StoreOf' = [x \in Tokens |-> StoreOf'[x]]
          /\ StoreOf = [x \in Tokens |-> StoreOf[x]]
      BY DEF StoreOf
    <2>3. QED BY <2>1, <2>2
  <1>6. ASSUME NEW c \in CapturesOf'
        PROVE  (c \in CapturesOf /\ c.owner # o) \/ c \in Range(e.captures)
    <2>1. PICK x \in DOMAIN entries' : c \in Range(entries'[x].captures)
      BY DEF CapturesOf
    <2>2. CASE x = o
      BY <1>2, <2>1, <2>2
    <2>3. CASE x # o
      BY <1>2, <2>1, <2>3, HeldFacts
    <2>4. QED BY <2>2, <2>3
  <1>7. ASSUME NEW r \in ReceiptsOf'
        PROVE  (r \in ReceiptsOf /\ r.owner # o) \/ r \in Range(e.receipts)
    <2>1. PICK x \in DOMAIN entries' : r \in Range(entries'[x].receipts)
      BY DEF ReceiptsOf
    <2>2. CASE x = o
      BY <1>2, <2>1, <2>2
    <2>3. CASE x # o
      BY <1>2, <2>1, <2>3, HeldFacts
    <2>4. QED BY <2>2, <2>3
  <1>8. QED BY <1>2, <1>4, <1>5, <1>6, <1>7

LEMMA EntryKeeps ==
  ASSUME Inv, NEW o \in DOMAIN entries, NEW e \in Entry, entries' = [entries EXCEPT ![o] = e],
         created' = created, next' \in Nat, next' >= next,
         Live(o, e), Apart(e), [Core!Next]_(Core!vars)
  PROVE  Inv'
  <1>1. /\ entries' \in Tables(Entry) /\ DOMAIN entries' = DOMAIN entries
        /\ entries'[o] = e /\ \A x \in DOMAIN entries \ {o} : entries'[x] = entries[x]
    BY EntryMoves
  <1>2. Counted'
    BY <1>1 DEF Inv, Counted
  <1>3. \A x \in DOMAIN entries' : Live(x, entries'[x]) /\ Apart(entries'[x])
    BY <1>1, OwnerFacts
  <1>4. TokensLive' /\ ReceiptsApart'
    BY <1>3 DEF TokensLive, ReceiptsApart, Live, Apart
  <1>5. Proved!Inv'
    BY CoreKeepsInv DEF Inv
  <1>6. QED BY <1>1, <1>2, <1>4, <1>5 DEF Inv

LEMMA Stutters == ASSUME Inv, UNCHANGED <<entries, snapshots, created, accepted>>,
                         next' \in Nat, next' >= next
                  PROVE  Inv' /\ [Core!Next]_(Core!vars)
  <1>1. UNCHANGED Core!vars
    BY DEF Core!vars
  <1>2. Proved!Inv'
    BY <1>1, CoreKeepsInv DEF Inv
  <1>3. QED BY <1>1, <1>2 DEF Inv, Counted, TokensLive, ReceiptsApart

-----------------------------------------------------------------------------
(* The requests *)

LEMMA NextToken ==
  ASSUME Inv, NEW t \in Tokens, TakesToken(t)
  PROVE  next' \in Nat /\ next' >= next /\ t \notin created /\ t \in 1..next'
  BY TokenAssumption DEF Inv, Counted, TakesToken, Tokens

(***************************************************************************)
(* register, with the store of a create or of a restore.                   *)
(***************************************************************************)
LEMMA Registered ==
  ASSUME Inv, NEW core \in Core!Store, NEW t \in Tokens, TakesToken(t),
         entries' = Keep(entries, t, [core |-> core, captures |-> None, receipts |-> None]),
         created' = created \cup {t}
  PROVE  /\ t \notin created
         /\ StoreOf' = [StoreOf EXCEPT ![t] = core]
         /\ CapturesOf' = CapturesOf /\ ReceiptsOf' = ReceiptsOf
         /\ [Core!Next]_(Core!vars) => Inv'
  <1> DEFINE e == [core |-> core, captures |-> None, receipts |-> None]
  <1>1. e \in Entry
    BY EmptyTable DEF Entry
  <1>2. e.core = core /\ e.captures = None /\ e.receipts = None
    OBVIOUS
  <1>3. next' \in Nat /\ next' >= next /\ t \notin created /\ t \in 1..next'
    BY NextToken
  <1> HIDE DEF e
  <1>4. entries \in Tables(Entry) /\ DOMAIN entries \subseteq Tokens /\ t \notin DOMAIN entries
    BY <1>3, TableFacts DEF Inv, Counted
  <1>5. entries' = Keep(entries, t, e)
    BY DEF e
  <1>6. /\ entries' \in Tables(Entry) /\ DOMAIN entries' = DOMAIN entries \cup {t}
        /\ entries'[t] = e /\ \A x \in DOMAIN entries : entries'[x] = entries[x]
    <2>1. Keep(entries, t, e) \in Tables(Entry)
      BY <1>1, <1>4, KeepTable
    <2>2. /\ DOMAIN Keep(entries, t, e) = DOMAIN entries \cup {t}
          /\ Keep(entries, t, e)[t] = e
          /\ \A x \in DOMAIN entries \ {t} : Keep(entries, t, e)[x] = entries[x]
      BY DEF Keep
    <2>3. DOMAIN entries \ {t} = DOMAIN entries
      BY <1>4
    <2>4. QED BY <1>5, <2>1, <2>2, <2>3
  <1>7. StoreOf' = [StoreOf EXCEPT ![t] = core]
    <2>1. \A x \in Tokens : StoreOf'[x] = IF x = t THEN core ELSE StoreOf[x]
      BY <1>2, <1>4, <1>6 DEF StoreOf
    <2>2. /\ StoreOf' = [x \in Tokens |-> StoreOf'[x]]
          /\ StoreOf = [x \in Tokens |-> StoreOf[x]]
      BY DEF StoreOf
    <2>3. QED BY <2>1, <2>2
  <1>8. CapturesOf' = CapturesOf /\ ReceiptsOf' = ReceiptsOf
    BY <1>2, <1>4, <1>6, EmptyRange DEF CapturesOf, ReceiptsOf
  <1>9. ASSUME [Core!Next]_(Core!vars) PROVE Inv'
    <2>1. Counted'
      BY <1>3, <1>6 DEF Inv, Counted
    <2>2. \A x \in DOMAIN entries' : Live(x, entries'[x]) /\ Apart(entries'[x])
      BY <1>2, <1>6, OwnerFacts, EmptyTable DEF Live, Apart
    <2>3. TokensLive' /\ ReceiptsApart'
      BY <2>2 DEF TokensLive, ReceiptsApart, Live, Apart
    <2>4. Proved!Inv'
      BY <1>9, CoreKeepsInv DEF Inv
    <2>5. QED BY <1>6, <2>1, <2>3, <2>4 DEF Inv
  <1>10. QED BY <1>3, <1>7, <1>8, <1>9

LEMMA CreateStep == ASSUME Inv, Create PROVE Inv' /\ [Core!Next]_(Core!vars)
  <1>1. PICK g \in Generations, k \in Keys : Register(Core!NewStore(g, k))
    BY DEF Create
  <1> DEFINE core == Core!NewStore(g, k)
  <1>2. core \in Core!Store
    BY Assumed, SameSets, SameValues, Proved!NewStoreFacts
  <1> HIDE DEF core
  <1>3. PICK t \in Tokens :
           /\ TakesToken(t)
           /\ entries' = Keep(entries, t, [core |-> core, captures |-> None, receipts |-> None])
           /\ created' = created \cup {t}
           /\ UNCHANGED <<snapshots, accepted>>
    BY <1>1 DEF Register, core
  <1>4. /\ t \notin created
        /\ StoreOf' = [StoreOf EXCEPT ![t] = core]
        /\ CapturesOf' = CapturesOf /\ ReceiptsOf' = ReceiptsOf
        /\ [Core!Next]_(Core!vars) => Inv'
    BY <1>2, <1>3, Registered
  <1>5. Core!Create(t)
    BY <1>3, <1>4 DEF Core!Create, StoreOf, CapturesOf, ReceiptsOf, core
  <1>6. QED BY <1>4, <1>5 DEF Core!Next, Core!Call

LEMMA RestoreStep == ASSUME Inv, Restore PROVE Inv' /\ [Core!Next]_(Core!vars)
  <1>1. PICK snap \in snapshots : Register(Core!Restored(snap))
    BY DEF Restore
  <1> DEFINE core == Core!Restored(snap)
  <1>2. core \in Core!Store
    <2>1. snap \in Proved!Snapshot /\ Proved!Ordered(snap.events)
      BY DEF Inv, Proved!Inv, Proved!TypeOK, Proved!SnapshotsOrdered
    <2>2. Proved!Restored(snap) \in Proved!Store
      BY <2>1, Assumed, Proved!RestoredFacts
    <2>3. QED BY <2>2, SameSets, SameValues
  <1> HIDE DEF core
  <1>3. PICK t \in Tokens :
           /\ TakesToken(t)
           /\ entries' = Keep(entries, t, [core |-> core, captures |-> None, receipts |-> None])
           /\ created' = created \cup {t}
           /\ UNCHANGED <<snapshots, accepted>>
    BY <1>1 DEF Register, core
  <1>4. /\ t \notin created
        /\ StoreOf' = [StoreOf EXCEPT ![t] = core]
        /\ CapturesOf' = CapturesOf /\ ReceiptsOf' = ReceiptsOf
        /\ [Core!Next]_(Core!vars) => Inv'
    BY <1>2, <1>3, Registered
  <1>5. Core!Restore(t)
    BY <1>3, <1>4 DEF Core!Restore, StoreOf, CapturesOf, ReceiptsOf, core
  <1>6. QED BY <1>4, <1>5 DEF Core!Next, Core!Call

LEMMA CloseStep ==
  ASSUME Inv, NEW o \in DOMAIN entries, Close(o)
  PROVE  Inv' /\ [Core!Next]_(Core!vars)
  <1>1. entries' = Forget(entries, o) /\ UNCHANGED <<next, snapshots, created, accepted>>
    BY DEF Close
  <1>2. entries \in Tables(Entry)
    BY DEF Inv
  <1>3. /\ entries' \in Tables(Entry) /\ DOMAIN entries' = DOMAIN entries \ {o}
        /\ \A x \in DOMAIN entries \ {o} : entries'[x] = entries[x]
    BY <1>1, <1>2, Forgotten
  <1>4. StoreOf' = [StoreOf EXCEPT ![o] = NoStore]
    <2>1. \A x \in Tokens : StoreOf'[x] = IF x = o THEN NoStore ELSE StoreOf[x]
      BY <1>3 DEF StoreOf
    <2>2. /\ StoreOf' = [x \in Tokens |-> StoreOf'[x]]
          /\ StoreOf = [x \in Tokens |-> StoreOf[x]]
      BY DEF StoreOf
    <2>3. QED BY <2>1, <2>2
  <1>5. CapturesOf' \subseteq CapturesOf /\ ReceiptsOf' \subseteq ReceiptsOf
    BY <1>3 DEF CapturesOf, ReceiptsOf
  <1>6. Core!HostKeeps(CapturesOf, ReceiptsOf)
    BY <1>5, Drops
  <1>7. o \in Tokens /\ StoreOf[o] # NoStore
    BY OwnerFacts
  <1>8. Core!Close(o)
    BY <1>1, <1>4, <1>6, <1>7 DEF Core!Close, StoreOf, CapturesOf, ReceiptsOf
  <1>9. [Core!Next]_(Core!vars)
    BY <1>7, <1>8 DEF Core!Next, Core!Call
  <1>10. Counted'
    BY <1>1, <1>3 DEF Inv, Counted
  <1>11. TokensLive' /\ ReceiptsApart'
    BY <1>3, OwnerFacts DEF TokensLive, ReceiptsApart, Live, Apart
  <1>12. Proved!Inv'
    BY <1>9, CoreKeepsInv DEF Inv
  <1>13. QED BY <1>3, <1>9, <1>10, <1>11, <1>12 DEF Inv

LEMMA SetPolicyStep ==
  ASSUME Inv, NEW o \in DOMAIN entries, NEW p \in Policies, SetPolicy(o, p)
  PROVE  Inv' /\ [Core!Next]_(Core!vars)
  <1> DEFINE core == entries[o].core
             new == Core!WithPolicy(core, p)
             e == [core |-> new, captures |-> None, receipts |-> None]
  <1>1. Core!CanSetPolicy(core, p) /\ UNCHANGED <<next, snapshots, created, accepted>>
    BY DEF SetPolicy
  <1>2. next' \in Nat /\ next' >= next /\ created' = created
    BY <1>1 DEF Inv, Counted
  <1>3. CASE p = core.policy
    <2>1. UNCHANGED entries
      BY <1>3 DEF SetPolicy
    <2>2. QED BY <1>1, <1>2, <2>1, Stutters
  <1>4. CASE p # core.policy
    <2>1. entries' = [entries EXCEPT ![o] = e]
      BY <1>4 DEF SetPolicy, DropsTokens
    <2>2. core \in Core!Store /\ o \in Tokens /\ StoreOf[o] = core /\ StoreOf[o] # NoStore
      BY OwnerFacts
    <2>3. new \in Core!Store
      <3>1. core \in Proved!Store /\ Proved!CanSetPolicy(core, p)
        BY <1>1, <2>2, SameSets, SameGuards
      <3>2. Proved!WithPolicy(core, p) \in Proved!Store
        BY <1>4, <3>1, Assumed, Proved!PolicyFacts
      <3>3. QED BY <3>2, SameSets, SameValues
    <2>4. e \in Entry
      BY <2>3, EmptyTable DEF Entry
    <2>5. e.core = new /\ e.captures = None /\ e.receipts = None
      OBVIOUS
    <2> HIDE DEF e
    <2>6. /\ StoreOf' = [StoreOf EXCEPT ![o] = e.core]
          /\ CapturesOf' \subseteq {c \in CapturesOf : c.owner # o} \cup Range(e.captures)
          /\ ReceiptsOf' \subseteq {r \in ReceiptsOf : r.owner # o} \cup Range(e.receipts)
      BY <2>1, <2>4, EntryMoves
    <2>7. Core!HostKeeps(Core!Cross(CapturesOf, o), Core!Cross(ReceiptsOf, o))
      BY <2>5, <2>6, EmptyRange, Drops DEF Core!Cross
    <2>8. Core!SetPolicy(o, p)
      <3>1. /\ StoreOf[o] # NoStore /\ Core!CanSetPolicy(StoreOf[o], p) /\ p # StoreOf[o].policy
            /\ StoreOf' = [StoreOf EXCEPT ![o] = Core!WithPolicy(StoreOf[o], p)]
        BY <1>1, <1>4, <2>2, <2>5, <2>6
      <3>2. QED BY <1>1, <2>7, <3>1 DEF Core!SetPolicy, StoreOf, CapturesOf, ReceiptsOf
    <2>9. [Core!Next]_(Core!vars)
      BY <2>2, <2>8 DEF Core!Next, Core!Call
    <2>10. Live(o, e) /\ Apart(e)
      BY <2>5, EmptyTable DEF Live, Apart
    <2>11. QED BY <1>2, <2>1, <2>4, <2>9, <2>10, EntryKeeps
  <1>5. QED BY <1>3, <1>4

LEMMA ClearStep ==
  ASSUME Inv, NEW o \in DOMAIN entries, NEW g \in Generations, NEW k \in Keys, Clear(o, g, k)
  PROVE  Inv' /\ [Core!Next]_(Core!vars)
  <1> DEFINE core == entries[o].core
             new == Core!Cleared(core, g, k)
             e == [core |-> new, captures |-> None, receipts |-> None]
  <1>1. Core!CanClear(core, g, k) /\ UNCHANGED <<next, snapshots, created, accepted>>
        /\ entries' = [entries EXCEPT ![o] = e]
    BY DEF Clear, DropsTokens
  <1>2. next' \in Nat /\ next' >= next /\ created' = created
    BY <1>1 DEF Inv, Counted
  <1>3. core \in Core!Store /\ o \in Tokens /\ StoreOf[o] = core /\ StoreOf[o] # NoStore
    BY OwnerFacts
  <1>4. new \in Core!Store
    <2>1. core \in Proved!Store /\ Proved!CanClear(core, g, k)
      BY <1>1, <1>3, SameSets, SameGuards
    <2>2. Proved!Cleared(core, g, k) \in Proved!Store
      BY <2>1, Assumed, Proved!ClearedFacts
    <2>3. QED BY <2>2, SameSets, SameValues
  <1>5. e \in Entry
    BY <1>4, EmptyTable DEF Entry
  <1>6. e.core = new /\ e.captures = None /\ e.receipts = None
    OBVIOUS
  <1> HIDE DEF e
  <1>7. /\ StoreOf' = [StoreOf EXCEPT ![o] = e.core]
        /\ CapturesOf' \subseteq {c \in CapturesOf : c.owner # o} \cup Range(e.captures)
        /\ ReceiptsOf' \subseteq {r \in ReceiptsOf : r.owner # o} \cup Range(e.receipts)
    BY <1>1, <1>5, EntryMoves
  <1>8. Core!HostKeeps(Core!Cross(CapturesOf, o), Core!Cross(ReceiptsOf, o))
    BY <1>6, <1>7, EmptyRange, Drops DEF Core!Cross
  <1>9. Core!Clear(o, g, k)
    <2>1. /\ StoreOf[o] # NoStore /\ Core!CanClear(StoreOf[o], g, k)
          /\ StoreOf' = [StoreOf EXCEPT ![o] = Core!Cleared(StoreOf[o], g, k)]
      BY <1>1, <1>3, <1>6, <1>7
    <2>2. QED BY <1>1, <1>8, <2>1 DEF Core!Clear, StoreOf, CapturesOf, ReceiptsOf
  <1>10. [Core!Next]_(Core!vars)
    BY <1>3, <1>9 DEF Core!Next, Core!Call
  <1>11. Live(o, e) /\ Apart(e)
    BY <1>6, EmptyTable DEF Live, Apart
  <1>12. QED BY <1>1, <1>2, <1>5, <1>10, <1>11, EntryKeeps

LEMMA CaptureStep ==
  ASSUME Inv, NEW o \in DOMAIN entries, Capture(o)
  PROVE  Inv' /\ [Core!Next]_(Core!vars)
  <1> DEFINE old == entries[o]
             c == [owner |-> o, epoch |-> old.core.epoch, crossed |-> FALSE]
  <1>1. PICK t \in Tokens :
           /\ TakesToken(t)
           /\ entries' = [entries EXCEPT ![o].captures = Keep(@, t, c)]
           /\ UNCHANGED <<snapshots, created, accepted>>
    BY DEF Capture
  <1> DEFINE e == [old EXCEPT !.captures = Keep(old.captures, t, c)]
  <1>2. entries' = [entries EXCEPT ![o] = e]
    BY <1>1
  <1>3. next' \in Nat /\ next' >= next
    BY <1>1, NextToken
  <1>4. /\ old \in Entry /\ old.core \in Core!Store /\ o \in Tokens
        /\ StoreOf[o] = old.core /\ StoreOf[o] # NoStore /\ Live(o, old) /\ Apart(old)
    BY OwnerFacts
  <1>5. c \in Core!Capture
    BY <1>4 DEF Core!Capture, Core!Store
  <1> HIDE DEF c
  <1>6. old.captures \in Tables(Core!Capture) /\ Keep(old.captures, t, c) \in Tables(Core!Capture)
    BY <1>4, <1>5, KeepTable DEF Entry
  <1>7. /\ e \in Entry /\ e.core = old.core /\ e.receipts = old.receipts
        /\ e.captures = Keep(old.captures, t, c)
    BY <1>4, <1>6 DEF Entry
  <1> HIDE DEF e
  <1>8. /\ StoreOf' = [StoreOf EXCEPT ![o] = e.core]
        /\ CapturesOf' \subseteq {x \in CapturesOf : x.owner # o} \cup Range(e.captures)
        /\ ReceiptsOf' \subseteq {r \in ReceiptsOf : r.owner # o} \cup Range(e.receipts)
    BY <1>2, <1>7, EntryMoves
  <1>9. StoreOf' = StoreOf
    BY <1>4, <1>7, <1>8 DEF StoreOf
  <1>10. Core!HostKeeps(CapturesOf \cup {c}, ReceiptsOf)
    <2>1. Range(e.captures) \subseteq Range(old.captures) \cup {c}
      BY <1>5, <1>6, <1>7, KeepRange
    <2>2. Range(old.captures) \subseteq CapturesOf /\ Range(old.receipts) \subseteq ReceiptsOf
      BY HeldFacts
    <2>3. CapturesOf' \subseteq CapturesOf \cup {c} /\ ReceiptsOf' \subseteq ReceiptsOf
      BY <1>7, <1>8, <2>1, <2>2
    <2>4. QED BY <2>3, Drops
  <1>11. c = [owner |-> o, epoch |-> StoreOf[o].epoch, crossed |-> FALSE]
    BY <1>4 DEF c
  <1>12. Core!CaptureContext(o)
    BY <1>1, <1>4, <1>9, <1>10, <1>11 DEF Core!CaptureContext, StoreOf, CapturesOf, ReceiptsOf
  <1>13. [Core!Next]_(Core!vars)
    BY <1>4, <1>12 DEF Core!Next, Core!Call
  <1>14. Live(o, e) /\ Apart(e)
    <2>1. Core!Current(o, old.core, c)
      BY DEF c, Core!Current
    <2>2. /\ DOMAIN e.captures = DOMAIN old.captures \cup {t}
          /\ \A u \in DOMAIN e.captures : e.captures[u] = IF u = t THEN c ELSE old.captures[u]
      BY <1>7 DEF Keep
    <2>3. QED BY <1>4, <1>7, <2>1, <2>2 DEF Live, Apart
  <1>15. QED BY <1>1, <1>2, <1>3, <1>7, <1>13, <1>14, EntryKeeps

(***************************************************************************)
(* A capture is discarded, or used up by an acceptance not recorded.       *)
(***************************************************************************)
LEMMA CaptureDropped ==
  ASSUME Inv, NEW o \in DOMAIN entries, NEW t,
         entries' = [entries EXCEPT ![o].captures = Forget(@, t)],
         next' \in Nat, next' >= next, UNCHANGED <<snapshots, created, accepted>>
  PROVE  Inv' /\ [Core!Next]_(Core!vars)
  <1> DEFINE old == entries[o]
             e == [old EXCEPT !.captures = Forget(old.captures, t)]
  <1>1. entries' = [entries EXCEPT ![o] = e]
    OBVIOUS
  <1>2. /\ old \in Entry /\ o \in Tokens /\ StoreOf[o] = old.core
        /\ Live(o, old) /\ Apart(old)
    BY OwnerFacts
  <1>3. old.captures \in Tables(Core!Capture)
    BY <1>2 DEF Entry
  <1>4. /\ Forget(old.captures, t) \in Tables(Core!Capture)
        /\ DOMAIN Forget(old.captures, t) = DOMAIN old.captures \ {t}
        /\ \A u \in DOMAIN old.captures \ {t} : Forget(old.captures, t)[u] = old.captures[u]
    BY <1>3, Forgotten
  <1>5. /\ e \in Entry /\ e.core = old.core /\ e.receipts = old.receipts
        /\ e.captures = Forget(old.captures, t)
    BY <1>2, <1>4 DEF Entry
  <1> HIDE DEF e
  <1>6. /\ StoreOf' = [StoreOf EXCEPT ![o] = e.core]
        /\ CapturesOf' \subseteq {x \in CapturesOf : x.owner # o} \cup Range(e.captures)
        /\ ReceiptsOf' \subseteq {r \in ReceiptsOf : r.owner # o} \cup Range(e.receipts)
    BY <1>1, <1>5, EntryMoves
  <1>7. StoreOf' = StoreOf
    BY <1>2, <1>5, <1>6 DEF StoreOf
  <1>8. Core!HostKeeps(CapturesOf, ReceiptsOf)
    <2>1. Range(e.captures) \subseteq Range(old.captures)
      BY <1>3, <1>5, ForgetRange
    <2>2. Range(old.captures) \subseteq CapturesOf /\ Range(old.receipts) \subseteq ReceiptsOf
      BY HeldFacts
    <2>3. CapturesOf' \subseteq CapturesOf /\ ReceiptsOf' \subseteq ReceiptsOf
      BY <1>5, <1>6, <2>1, <2>2
    <2>4. QED BY <2>3, Drops
  <1>9. Core!Drop
    BY <1>7, <1>8 DEF Core!Drop, StoreOf, CapturesOf, ReceiptsOf
  <1>10. [Core!Next]_(Core!vars)
    BY <1>9 DEF Core!Next
  <1>11. Live(o, e) /\ Apart(e)
    BY <1>2, <1>4, <1>5 DEF Live, Apart
  <1>12. QED BY <1>1, <1>5, <1>10, <1>11, EntryKeeps

LEMMA DiscardStep ==
  ASSUME Inv, NEW o \in DOMAIN entries, NEW t, DiscardCapture(o, t)
  PROVE  Inv' /\ [Core!Next]_(Core!vars)
  <1>1. next' \in Nat /\ next' >= next
    BY DEF DiscardCapture, Inv, Counted
  <1>2. QED BY <1>1, CaptureDropped DEF DiscardCapture

LEMMA NotRecordedStep ==
  ASSUME Inv, NEW o \in DOMAIN entries, NEW c, NEW f, AcceptanceNotRecorded(o, c, f)
  PROVE  Inv' /\ [Core!Next]_(Core!vars)
  <1>1. next' \in Nat /\ next' >= next
    BY NextToken DEF AcceptanceNotRecorded
  <1>2. QED BY <1>1, CaptureDropped DEF AcceptanceNotRecorded

LEMMA OtherStep ==
  ASSUME Inv, TokenWasted \/ Refused
  PROVE  Inv' /\ [Core!Next]_(Core!vars)
  <1>1. next' \in Nat /\ next' >= next
    BY NextToken DEF TokenWasted, Refused, vars, Inv, Counted
  <1>2. QED BY <1>1, Stutters DEF TokenWasted, Refused, vars

(***************************************************************************)
(* A receipt's number is above every number its store used before, and so  *)
(* above those of the receipts the owner still holds.                      *)
(***************************************************************************)
LEMMA AcceptanceStep ==
  ASSUME Inv, NEW o \in DOMAIN entries, NEW c \in DOMAIN entries[o].captures,
         NEW f \in Feedback, NEW id \in EventIds, NEW k \in Candidates,
         RecordAcceptance(o, c, f, id, k)
  PROVE  Inv' /\ [Core!Next]_(Core!vars)
  <1> DEFINE old == entries[o]
             core == old.core
             new == Core!Accepted(core, f, id, k)
             receipt == [owner |-> o, epoch |-> core.epoch, id |-> id, fact |-> f,
                         crossed |-> FALSE]
  <1>1. PICK t \in Tokens :
           /\ TakesToken(t)
           /\ entries' = [entries EXCEPT ![o] =
                 [core |-> new, captures |-> Forget(@.captures, c),
                  receipts |-> Keep(@.receipts, t, receipt)]]
    BY DEF RecordAcceptance
  <1>2. /\ f \notin accepted /\ accepted' = accepted \cup {f} /\ UNCHANGED <<snapshots, created>>
        /\ Core!Current(o, core, old.captures[c]) /\ Core!CanAccept(core, f, id)
    BY DEF RecordAcceptance
  <1> DEFINE e == [core |-> new, captures |-> Forget(old.captures, c),
                   receipts |-> Keep(old.receipts, t, receipt)]
  <1>3. entries' = [entries EXCEPT ![o] = e]
    BY <1>1
  <1>4. next' \in Nat /\ next' >= next
    BY <1>1, NextToken
  <1>5. /\ old \in Entry /\ core \in Core!Store /\ o \in Tokens
        /\ StoreOf[o] = core /\ StoreOf[o] # NoStore /\ Live(o, old) /\ Apart(old)
        /\ Proved!Ordered(core.events) /\ Proved!LastId(core.events) = core.last
    BY OwnerFacts
  <1>6. id > core.last /\ core.policy.feedback
    BY <1>2 DEF Core!CanAccept, Core!NewEvent, Core!Records
  <1>7. new \in Core!Store /\ new.epoch = core.epoch
    <2>1. core \in Proved!Store
      BY <1>5, SameSets
    <2>2. /\ Proved!Accepted(core, f, id, k) \in Proved!Store
          /\ Proved!Accepted(core, f, id, k).epoch = core.epoch
      BY <1>5, <1>6, <2>1, Assumed, Proved!AcceptedFacts
    <2>3. QED BY <2>2, SameSets, SameValues
  <1>8. /\ new.policy = core.policy
        /\ \A r : r.id = id \/ Core!Undoable(core, r) # {} => Core!Undoable(new, r) # {}
    <2>1. core \in Proved!Store
      BY <1>5, SameSets
    <2>2. /\ Proved!Accepted(core, f, id, k).policy = core.policy
          /\ \A r : r.id = id \/ Proved!Undoable(core, r) # {} =>
                       Proved!Undoable(Proved!Accepted(core, f, id, k), r) # {}
      BY <1>5, <1>6, <2>1, Assumed, Proved!AcceptanceUndoable
    <2>3. QED BY <2>2, SameValues
  <1>9. receipt \in Core!Receipt
    BY <1>5 DEF Core!Receipt, Core!Store
  <1>10. receipt.owner = o /\ receipt.epoch = core.epoch /\ receipt.id = id
    OBVIOUS
  <1>11. receipt = [owner |-> o, epoch |-> StoreOf[o].epoch, id |-> id, fact |-> f,
                    crossed |-> FALSE]
    BY <1>5
  <1> HIDE DEF receipt, new
  <1>12. old.captures \in Tables(Core!Capture) /\ old.receipts \in Tables(Core!Receipt)
    BY <1>5 DEF Entry
  <1>13. /\ Forget(old.captures, c) \in Tables(Core!Capture)
         /\ DOMAIN Forget(old.captures, c) = DOMAIN old.captures \ {c}
         /\ \A u \in DOMAIN old.captures \ {c} : Forget(old.captures, c)[u] = old.captures[u]
    <2> DEFINE held == old.captures
    <2>1. held \in Tables(Core!Capture)
      BY <1>12
    <2> HIDE DEF held
    <2>2. /\ Forget(held, c) \in Tables(Core!Capture)
          /\ DOMAIN Forget(held, c) = DOMAIN held \ {c}
          /\ \A u \in DOMAIN held \ {c} : Forget(held, c)[u] = held[u]
      BY <2>1, Forgotten
    <2>3. QED BY <2>2 DEF held
  <1>14. Keep(old.receipts, t, receipt) \in Tables(Core!Receipt)
    BY <1>9, <1>12, KeepTable
  <1>15. /\ e \in Entry /\ e.core = new /\ e.captures = Forget(old.captures, c)
         /\ e.receipts = Keep(old.receipts, t, receipt)
    BY <1>7, <1>13, <1>14 DEF Entry
  <1> HIDE DEF e
  <1>16. /\ StoreOf' = [StoreOf EXCEPT ![o] = new]
         /\ CapturesOf' \subseteq {x \in CapturesOf : x.owner # o} \cup Range(e.captures)
         /\ ReceiptsOf' \subseteq {r \in ReceiptsOf : r.owner # o} \cup Range(e.receipts)
    BY <1>3, <1>15, EntryMoves
  <1>17. Core!HostKeeps(CapturesOf, ReceiptsOf \cup {receipt})
    <2>1. /\ Range(e.captures) \subseteq Range(old.captures)
          /\ Range(e.receipts) \subseteq Range(old.receipts) \cup {receipt}
      BY <1>9, <1>12, <1>15, ForgetRange, KeepRange
    <2>2. Range(old.captures) \subseteq CapturesOf /\ Range(old.receipts) \subseteq ReceiptsOf
      BY HeldFacts
    <2>3. CapturesOf' \subseteq CapturesOf /\ ReceiptsOf' \subseteq ReceiptsOf \cup {receipt}
      BY <1>16, <2>1, <2>2
    <2>4. QED BY <2>3, Drops
  <1>18. old.captures[c] \in CapturesOf
    BY HeldFacts, RangeFacts
  <1>19. Core!RecordAcceptance(o, old.captures[c], f, id, k)
    <2>1. /\ StoreOf[o] # NoStore /\ Core!Current(o, StoreOf[o], old.captures[c])
          /\ Core!CanAccept(StoreOf[o], f, id)
          /\ StoreOf' = [StoreOf EXCEPT ![o] = Core!Accepted(StoreOf[o], f, id, k)]
      BY <1>2, <1>5, <1>16 DEF new
    <2>2. QED BY <1>2, <1>11, <1>17, <2>1
              DEF Core!RecordAcceptance, StoreOf, CapturesOf, ReceiptsOf
  <1>20. [Core!Next]_(Core!vars)
    BY <1>5, <1>18, <1>19 DEF Core!Next, Core!Call, CapturesOf
  <1>21. /\ DOMAIN e.receipts = DOMAIN old.receipts \cup {t}
         /\ \A u \in DOMAIN e.receipts : e.receipts[u] = IF u = t THEN receipt ELSE old.receipts[u]
    BY <1>15 DEF Keep
  <1>22. Live(o, e)
    <2>1. \A u \in DOMAIN e.captures : Core!Current(o, new, e.captures[u])
      BY <1>5, <1>7, <1>13, <1>15 DEF Live, Core!Current
    <2>2. Core!Undoes(o, new, receipt)
      BY <1>6, <1>7, <1>8, <1>10 DEF Core!Undoes, Core!Current
    <2>3. \A u \in DOMAIN old.receipts : Core!Undoes(o, new, old.receipts[u])
      BY <1>5, <1>7, <1>8 DEF Live, Core!Undoes, Core!Current
    <2>4. QED BY <1>15, <1>21, <2>1, <2>2, <2>3 DEF Live
  <1>23. Apart(e)
    <2>1. core.last \in Nat /\ id \in Nat
      <3>1. core.last \in EventIds \cup {0}
        BY <1>5 DEF Core!Store
      <3>2. id \in Nat /\ (core.last \in EventIds => core.last \in Nat)
        BY EventIdAssumption
      <3>3. QED BY <3>1, <3>2
    <2>2. \A u \in DOMAIN old.receipts : old.receipts[u].id <= core.last
      BY HeldFacts, RangeFacts
    <2>3. \A u \in DOMAIN old.receipts : old.receipts[u].id \in Nat
      <3>1. \A r \in Core!Receipt : r.id \in Nat
        BY EventIdAssumption DEF Core!Receipt
      <3>2. \A u \in DOMAIN old.receipts : old.receipts[u] \in Core!Receipt
        BY <1>12, TableFacts
      <3>3. QED BY <3>1, <3>2
    <2>4. \A u \in DOMAIN old.receipts : old.receipts[u].id # id
      BY <1>6, <2>1, <2>2, <2>3
    <2>5. QED BY <1>5, <1>10, <1>21, <2>4 DEF Apart
  <1>24. QED BY <1>2, <1>3, <1>4, <1>15, <1>20, <1>22, <1>23, EntryKeeps

(***************************************************************************)
(* An undo spends the receipt that asked for it, and no other.             *)
(***************************************************************************)
LEMMA UndoStep ==
  ASSUME Inv, NEW o \in DOMAIN entries, NEW t \in DOMAIN entries[o].receipts, Undo(o, t)
  PROVE  Inv' /\ [Core!Next]_(Core!vars)
  <1> DEFINE old == entries[o]
             core == old.core
             receipt == old.receipts[t]
             new == Core!Undone(core, receipt)
             e == [old EXCEPT !.core = new, !.receipts = Forget(old.receipts, t)]
  <1>1. entries' = [entries EXCEPT ![o] = e]
    BY DEF Undo, ForgetsReceipt
  <1>2. Core!Undoes(o, core, receipt) /\ UNCHANGED <<next, snapshots, created, accepted>>
    BY DEF Undo
  <1>3. next' \in Nat /\ next' >= next /\ created' = created
    BY <1>2 DEF Inv, Counted
  <1>4. /\ old \in Entry /\ core \in Core!Store /\ o \in Tokens
        /\ StoreOf[o] = core /\ StoreOf[o] # NoStore /\ Live(o, old) /\ Apart(old)
        /\ Proved!Ordered(core.events) /\ Proved!LastId(core.events) = core.last
    BY OwnerFacts
  <1>5. core \in Proved!Store
    BY <1>4, SameSets
  <1>6. new \in Core!Store /\ new.epoch = core.epoch
    <2>1. Proved!Undone(core, receipt) \in Proved!Store
          /\ Proved!Undone(core, receipt).epoch = core.epoch
      BY <1>5, Assumed, Proved!UndoneFacts
    <2>2. QED BY <2>1, SameSets, SameValues
  <1>7. \A q : q.id # receipt.id /\ Core!Undoable(core, q) # {} =>
                  new.policy = core.policy /\ Core!Undoable(new, q) # {}
    <2>1. Proved!Undoable(core, receipt) # {}
      BY <1>2, SameValues DEF Core!Undoes
    <2>2. ASSUME NEW q, q.id # receipt.id, Proved!Undoable(core, q) # {}
          PROVE  /\ Proved!Undone(core, receipt).policy = core.policy
                 /\ Proved!Undoable(Proved!Undone(core, receipt), q) # {}
      BY <1>4, <1>5, <2>1, <2>2, Assumed, Proved!UndoElsewhere
    <2>3. QED BY <2>2, SameValues
  <1>8. PICK r \in ReceiptsOf : r = receipt
    BY HeldFacts, RangeFacts
  <1> HIDE DEF new
  <1>9. old.receipts \in Tables(Core!Receipt)
    BY <1>4 DEF Entry
  <1>10. /\ Forget(old.receipts, t) \in Tables(Core!Receipt)
         /\ DOMAIN Forget(old.receipts, t) = DOMAIN old.receipts \ {t}
         /\ \A u \in DOMAIN old.receipts \ {t} : Forget(old.receipts, t)[u] = old.receipts[u]
    <2> DEFINE held == old.receipts
    <2>1. held \in Tables(Core!Receipt)
      BY <1>9
    <2> HIDE DEF held
    <2>2. /\ Forget(held, t) \in Tables(Core!Receipt)
          /\ DOMAIN Forget(held, t) = DOMAIN held \ {t}
          /\ \A u \in DOMAIN held \ {t} : Forget(held, t)[u] = held[u]
      BY <2>1, Forgotten
    <2>3. QED BY <2>2 DEF held
  <1>11. /\ e \in Entry /\ e.core = new /\ e.captures = old.captures
         /\ e.receipts = Forget(old.receipts, t)
    BY <1>4, <1>6, <1>10 DEF Entry
  <1> HIDE DEF e
  <1>12. /\ StoreOf' = [StoreOf EXCEPT ![o] = new]
         /\ CapturesOf' \subseteq {x \in CapturesOf : x.owner # o} \cup Range(e.captures)
         /\ ReceiptsOf' \subseteq {q \in ReceiptsOf : q.owner # o} \cup Range(e.receipts)
    BY <1>1, <1>11, EntryMoves
  <1>13. Core!HostKeeps(CapturesOf, ReceiptsOf)
    <2>1. Range(e.receipts) \subseteq Range(old.receipts)
      BY <1>9, <1>11, ForgetRange
    <2>2. Range(old.captures) \subseteq CapturesOf /\ Range(old.receipts) \subseteq ReceiptsOf
      BY HeldFacts
    <2>3. CapturesOf' \subseteq CapturesOf /\ ReceiptsOf' \subseteq ReceiptsOf
      BY <1>11, <1>12, <2>1, <2>2
    <2>4. QED BY <2>3, Drops
  <1>14. Core!RecordUndo(o, r)
    <2>1. /\ StoreOf[o] # NoStore /\ Core!Undoes(o, StoreOf[o], r)
          /\ StoreOf' = [StoreOf EXCEPT ![o] = Core!Undone(StoreOf[o], r)]
      BY <1>2, <1>4, <1>8, <1>12 DEF new
    <2>2. QED BY <1>2, <1>13, <2>1 DEF Core!RecordUndo, StoreOf, CapturesOf, ReceiptsOf
  <1>15. [Core!Next]_(Core!vars)
    BY <1>4, <1>14 DEF Core!Next, Core!Call, ReceiptsOf
  <1>16. new.policy = core.policy
    <2>1. core.policy = Core!Undone(core, receipt).policy
      BY <1>4 DEF Core!Undone, Core!Store
    <2>2. QED BY <2>1 DEF new
  <1>17. Live(o, e)
    <2>1. \A u \in DOMAIN e.captures : Core!Current(o, new, e.captures[u])
      BY <1>4, <1>6, <1>11 DEF Live, Core!Current
    <2>2. ASSUME NEW u \in DOMAIN e.receipts PROVE Core!Undoes(o, new, e.receipts[u])
      <3>1. u \in DOMAIN old.receipts /\ u # t /\ e.receipts[u] = old.receipts[u]
        BY <1>10, <1>11
      <3>2. Core!Undoes(o, core, old.receipts[u]) /\ old.receipts[u].id # receipt.id
        BY <1>4, <3>1 DEF Live, Apart
      <3>3. QED BY <1>6, <1>7, <1>16, <3>1, <3>2 DEF Core!Undoes, Core!Current
    <2>3. QED BY <1>11, <2>1, <2>2 DEF Live
  <1>18. Apart(e)
    BY <1>4, <1>10, <1>11 DEF Apart
  <1>19. QED BY <1>1, <1>3, <1>11, <1>15, <1>17, <1>18, EntryKeeps

(***************************************************************************)
(* export-checkpoint moves the checkpoint number only.                     *)
(***************************************************************************)
LEMMA SameCoreTokens ==
  ASSUME NEW o, NEW st, NEW new, new.epoch = st.epoch, new.policy = st.policy,
         new.events = st.events
  PROVE  /\ \A c : Core!Current(o, st, c) <=> Core!Current(o, new, c)
         /\ \A r : Core!Undoes(o, st, r) <=> Core!Undoes(o, new, r)
  BY DEF Core!Current, Core!Undoes, Core!Undoable

LEMMA ExportStep ==
  ASSUME Inv, NEW o \in DOMAIN entries, NEW n \in 1..MaxCheckpoint, ExportCheckpoint(o, n)
  PROVE  Inv' /\ [Core!Next]_(Core!vars)
  <1> DEFINE old == entries[o]
             core == old.core
             new == [core EXCEPT !.checkpoint = n]
             e == [old EXCEPT !.core = new]
  <1>1. entries' = [entries EXCEPT ![o] = e]
    BY DEF ExportCheckpoint
  <1>2. /\ Core!NewCheckpoint(core, n) /\ UNCHANGED <<next, created, accepted>>
        /\ snapshots' = snapshots \cup {Core!SnapshotOf(o, core, n)}
    BY DEF ExportCheckpoint
  <1>3. next' \in Nat /\ next' >= next /\ created' = created
    BY <1>2 DEF Inv, Counted
  <1>4. /\ old \in Entry /\ core \in Core!Store /\ o \in Tokens
        /\ StoreOf[o] = core /\ StoreOf[o] # NoStore /\ Live(o, old) /\ Apart(old)
    BY OwnerFacts
  <1>5. n \in Core!Checkpoints
    BY CounterAssumption DEF Core!Checkpoints
  <1>6. /\ new \in Core!Store /\ new.epoch = core.epoch /\ new.policy = core.policy
        /\ new.events = core.events
    BY <1>4, <1>5 DEF Core!Store
  <1> HIDE DEF new
  <1>7. /\ e \in Entry /\ e.core = new /\ e.captures = old.captures
        /\ e.receipts = old.receipts
    BY <1>4, <1>6 DEF Entry
  <1> HIDE DEF e
  <1>8. /\ StoreOf' = [StoreOf EXCEPT ![o] = new] /\ DOMAIN entries' = DOMAIN entries
        /\ entries'[o] = e /\ \A x \in DOMAIN entries \ {o} : entries'[x] = entries[x]
    BY <1>1, <1>7, EntryMoves
  <1>9. CapturesOf' = CapturesOf /\ ReceiptsOf' = ReceiptsOf
    <2>1. \A x \in DOMAIN entries : /\ entries'[x].captures = entries[x].captures
                                    /\ entries'[x].receipts = entries[x].receipts
      BY <1>7, <1>8
    <2>2. QED BY <1>8, <2>1 DEF CapturesOf, ReceiptsOf
  <1>10. Core!ExportCheckpoint(o, n)
    <2>1. /\ StoreOf[o] # NoStore /\ Core!NewCheckpoint(StoreOf[o], n)
          /\ snapshots' = snapshots \cup {Core!SnapshotOf(o, StoreOf[o], n)}
      BY <1>2, <1>4
    <2>2. StoreOf' = [StoreOf EXCEPT ![o].checkpoint = n]
      BY <1>4, <1>8 DEF new
    <2>3. QED BY <1>2, <1>9, <2>1, <2>2
              DEF Core!ExportCheckpoint, StoreOf, CapturesOf, ReceiptsOf
  <1>11. [Core!Next]_(Core!vars)
    BY <1>4, <1>5, <1>10 DEF Core!Next, Core!Call
  <1>12. Live(o, e) /\ Apart(e)
    BY <1>4, <1>6, <1>7, SameCoreTokens DEF Live, Apart
  <1>13. QED BY <1>1, <1>3, <1>7, <1>11, <1>12, EntryKeeps

-----------------------------------------------------------------------------
LEMMA InitStep == Init => Inv /\ Core!Init
  <1> SUFFICES ASSUME Init PROVE Inv /\ Core!Init
    OBVIOUS
  <1>1. entries = None /\ DOMAIN entries = {} /\ entries \in Tables(Entry)
    BY EmptyTable DEF Init
  <1>2. StoreOf = [o \in Tokens |-> NoStore] /\ CapturesOf = {} /\ ReceiptsOf = {}
    BY <1>1 DEF StoreOf, CapturesOf, ReceiptsOf
  <1>3. Core!Init
    BY <1>2 DEF Init, Core!Init, StoreOf, CapturesOf, ReceiptsOf
  <1>4. Proved!Init
    BY <1>2 DEF Init, Proved!Init
  <1>5. Proved!Inv
    BY <1>4, Assumed, Proved!InitInv
  <1>6. Counted /\ TokensLive /\ ReceiptsApart
    BY <1>1 DEF Init, Counted, TokensLive, ReceiptsApart
  <1>7. QED BY <1>1, <1>3, <1>5, <1>6 DEF Inv

LEMMA NextStep == Inv /\ [Next]_vars => Inv' /\ [Core!Next]_(Core!vars)
  <1> SUFFICES ASSUME Inv, [Next]_vars PROVE Inv' /\ [Core!Next]_(Core!vars)
    OBVIOUS
  <1>1. CASE Create
    BY <1>1, CreateStep
  <1>2. CASE Restore
    BY <1>2, RestoreStep
  <1>3. ASSUME NEW o \in DOMAIN entries, Command(o)
        PROVE  Inv' /\ [Core!Next]_(Core!vars)
    <2>1. CASE Close(o)
      BY <2>1, CloseStep
    <2>2. CASE \E p \in Policies : SetPolicy(o, p)
      BY <2>2, SetPolicyStep
    <2>3. CASE \E g \in Generations, k \in Keys : Clear(o, g, k)
      BY <2>3, ClearStep
    <2>4. CASE Capture(o)
      BY <2>4, CaptureStep
    <2>5. CASE \E c \in DOMAIN entries[o].captures : DiscardCapture(o, c)
      BY <2>5, DiscardStep
    <2>6. CASE \E c \in DOMAIN entries[o].captures, f \in Feedback :
                  AcceptanceNotRecorded(o, c, f)
      BY <2>6, NotRecordedStep
    <2>7. CASE \E c \in DOMAIN entries[o].captures, f \in Feedback, id \in EventIds,
                  k \in Candidates : RecordAcceptance(o, c, f, id, k)
      BY <2>7, AcceptanceStep
    <2>8. CASE \E t \in DOMAIN entries[o].receipts : Undo(o, t)
      BY <2>8, UndoStep
    <2>9. CASE \E n \in 1..MaxCheckpoint : ExportCheckpoint(o, n)
      BY <2>9, ExportStep
    <2>10. QED BY <1>3, <2>1, <2>2, <2>3, <2>4, <2>5, <2>6, <2>7, <2>8, <2>9 DEF Command
  <1>4. CASE TokenWasted \/ Refused
    BY <1>4, OtherStep
  <1>5. CASE UNCHANGED vars
    BY <1>5, OtherStep DEF Refused
  <1>6. QED BY <1>1, <1>2, <1>3, <1>4, <1>5 DEF Next

LEMMA Invariance == Spec => []Inv
  BY InitStep, NextStep, PTL DEF Spec

(***************************************************************************)
(* Every capture and receipt in the tables of the worker's registry is one *)
(* its store still takes: set-policy and clear drop what they invalidate,  *)
(* and record-acceptance and undo what they spend.                         *)
(***************************************************************************)
THEOREM RegistryHoldsLiveTokens == Spec => []TokensLive
  <1>1. Inv => TokensLive
    BY DEF Inv
  <1>2. QED BY <1>1, Invariance, PTL

(***************************************************************************)
(* Whatever requests a worker serves, its owners behave as the stores of   *)
(* FormulaPreferenceStore do for one host: each request is one call of a   *)
(* store, or none.                                                         *)
(***************************************************************************)
THEOREM WorkerImplementsStores == Spec => FeedbackSpec
  <1>1. FeedbackSpec <=> (Core!Init /\ [][Core!Next]_(Core!vars))
    BY DEF FeedbackSpec, Core!Spec
  <1>2. QED BY <1>1, InitStep, NextStep, PTL DEF Spec

-----------------------------------------------------------------------------
(* The counter of tokens *)

HeldTokens(e) == DOMAIN e.captures \cup DOMAIN e.receipts

LEMMA UsedFacts ==
  ASSUME NEW t
  PROVE  t \in UsedTokens <=>
            t \in DOMAIN entries \/ \E o \in DOMAIN entries : t \in HeldTokens(entries[o])
  BY DEF UsedTokens, HeldTokens

LEMMA EntryUses ==
  ASSUME NEW o \in DOMAIN entries, NEW e, entries' = [entries EXCEPT ![o] = e],
         NEW S, HeldTokens(e) \subseteq HeldTokens(entries[o]) \cup S
  PROVE  UsedTokens' \subseteq UsedTokens \cup S
  <1>1. /\ DOMAIN entries' = DOMAIN entries /\ entries'[o] = e
        /\ \A x \in DOMAIN entries \ {o} : entries'[x] = entries[x]
    OBVIOUS
  <1>2. SUFFICES ASSUME NEW t \in UsedTokens' PROVE t \in UsedTokens \/ t \in S
    OBVIOUS
  <1>3. t \in DOMAIN entries' \/ \E x \in DOMAIN entries' : t \in HeldTokens(entries'[x])
    BY <1>2 DEF UsedTokens, HeldTokens
  <1>4. CASE t \in DOMAIN entries'
    BY <1>1, <1>4, UsedFacts
  <1>5. ASSUME NEW x \in DOMAIN entries', t \in HeldTokens(entries'[x])
        PROVE  t \in UsedTokens \/ t \in S
    <2>1. CASE x = o
      BY <1>1, <1>5, <2>1, UsedFacts
    <2>2. CASE x # o
      BY <1>1, <1>5, <2>2, UsedFacts
    <2>3. QED BY <2>1, <2>2
  <1>6. QED BY <1>3, <1>4, <1>5

LEMMA HeldChanges ==
  ASSUME NEW e \in Entry, NEW x, NEW y
  PROVE  /\ HeldTokens([e EXCEPT !.captures = y]) = DOMAIN y \cup DOMAIN e.receipts
         /\ HeldTokens([e EXCEPT !.core = x]) = HeldTokens(e)
         /\ HeldTokens([e EXCEPT !.core = x, !.receipts = y]) = DOMAIN e.captures \cup DOMAIN y
  BY DEF Entry, HeldTokens

LEMMA TableChanges ==
  ASSUME NEW f, NEW t, NEW x
  PROVE  DOMAIN Keep(f, t, x) = DOMAIN f \cup {t} /\ DOMAIN Forget(f, t) \subseteq DOMAIN f
  BY DEF Keep, Forget, Restrict

LEMMA RegisterUses ==
  ASSUME NEW t, NEW core,
         entries' = Keep(entries, t, [core |-> core, captures |-> None, receipts |-> None])
  PROVE  UsedTokens' \subseteq UsedTokens \cup {t}
  <1> DEFINE e == [core |-> core, captures |-> None, receipts |-> None]
  <1>1. HeldTokens(e) = {}
    BY EmptyTable DEF HeldTokens
  <1> HIDE DEF e
  <1>2. /\ DOMAIN entries' = DOMAIN entries \cup {t}
        /\ \A x \in DOMAIN entries' : entries'[x] = IF x = t THEN e ELSE entries[x]
    BY DEF Keep, e
  <1>3. SUFFICES ASSUME NEW u \in UsedTokens' PROVE u \in UsedTokens \/ u = t
    OBVIOUS
  <1>4. u \in DOMAIN entries' \/ \E x \in DOMAIN entries' : u \in HeldTokens(entries'[x])
    BY <1>3 DEF UsedTokens, HeldTokens
  <1>5. QED BY <1>1, <1>2, <1>4, UsedFacts

LEMMA CommandUses ==
  ASSUME Inv, NEW o \in DOMAIN entries, Command(o)
  PROVE  UsedTokens' \subseteq UsedTokens \cup {next + 1}
  <1>1. entries[o] \in Entry
    BY OwnerFacts
  <1>2. CASE Close(o)
    <2>1. /\ DOMAIN entries' \subseteq DOMAIN entries
          /\ \A x \in DOMAIN entries' : entries'[x] = entries[x]
      BY <1>2 DEF Close, Forget, Restrict
    <2>2. QED BY <2>1 DEF UsedTokens
  <1>3. ASSUME NEW core, entries' = [entries EXCEPT ![o] = DropsTokens(core, @)]
        PROVE  UsedTokens' \subseteq UsedTokens \cup {next + 1}
    <2>1. HeldTokens(DropsTokens(core, entries[o])) = {}
      BY EmptyTable DEF HeldTokens, DropsTokens
    <2>2. QED BY <1>3, <2>1, EntryUses
  <1>4. CASE \E p \in Policies : SetPolicy(o, p)
    <2>1. UNCHANGED entries \/ \E core : entries' = [entries EXCEPT ![o] = DropsTokens(core, @)]
      BY <1>4 DEF SetPolicy
    <2>2. QED BY <1>3, <2>1 DEF UsedTokens
  <1>5. CASE \E g \in Generations, k \in Keys : Clear(o, g, k)
    <2>1. \E core : entries' = [entries EXCEPT ![o] = DropsTokens(core, @)]
      BY <1>5 DEF Clear
    <2>2. QED BY <1>3, <2>1
  <1>6. CASE Capture(o)
    <2>1. PICK t, c : /\ t = next + 1
                      /\ entries' = [entries EXCEPT ![o].captures = Keep(@, t, c)]
      BY <1>6 DEF Capture, TakesToken
    <2> DEFINE y == Keep(entries[o].captures, t, c)
    <2>2. entries' = [entries EXCEPT ![o] = [entries[o] EXCEPT !.captures = y]]
      BY <2>1
    <2>3. DOMAIN y = DOMAIN entries[o].captures \cup {t}
      BY TableChanges
    <2> HIDE DEF y
    <2>4. HeldTokens([entries[o] EXCEPT !.captures = y]) \subseteq HeldTokens(entries[o]) \cup {t}
      BY <1>1, <2>3, HeldChanges DEF HeldTokens
    <2>5. QED BY <2>1, <2>2, <2>4, EntryUses
  <1>7. CASE \E c \in DOMAIN entries[o].captures :
                DiscardCapture(o, c) \/ \E f \in Feedback : AcceptanceNotRecorded(o, c, f)
    <2>1. PICK c : entries' = [entries EXCEPT ![o].captures = Forget(@, c)]
      BY <1>7 DEF DiscardCapture, AcceptanceNotRecorded
    <2> DEFINE y == Forget(entries[o].captures, c)
    <2>2. entries' = [entries EXCEPT ![o] = [entries[o] EXCEPT !.captures = y]]
      BY <2>1
    <2>3. DOMAIN y \subseteq DOMAIN entries[o].captures
      BY TableChanges
    <2> HIDE DEF y
    <2>4. HeldTokens([entries[o] EXCEPT !.captures = y]) \subseteq HeldTokens(entries[o]) \cup {}
      BY <1>1, <2>3, HeldChanges DEF HeldTokens
    <2>5. QED BY <2>2, <2>4, EntryUses
  <1>8. ASSUME NEW c, NEW f, NEW id, NEW k, RecordAcceptance(o, c, f, id, k)
        PROVE  UsedTokens' \subseteq UsedTokens \cup {next + 1}
    <2> DEFINE old == entries[o]
    <2>0. PICK t \in Tokens :
             /\ TakesToken(t)
             /\ \E core, r :
                   entries' = [entries EXCEPT ![o] = [core |-> core,
                                                      captures |-> Forget(old.captures, c),
                                                      receipts |-> Keep(old.receipts, t, r)]]
      BY <1>8 DEF RecordAcceptance
    <2>1. PICK core, r :
             entries' = [entries EXCEPT ![o] = [core |-> core,
                                                captures |-> Forget(old.captures, c),
                                                receipts |-> Keep(old.receipts, t, r)]]
      BY <2>0
    <2>2. HeldTokens([core |-> core, captures |-> Forget(old.captures, c),
                      receipts |-> Keep(old.receipts, t, r)]) \subseteq HeldTokens(old) \cup {t}
      BY DEF HeldTokens, Forget, Restrict, Keep
    <2>3. t = next + 1
      BY <2>0 DEF TakesToken
    <2>4. QED BY <2>1, <2>2, <2>3, EntryUses
  <1>9. CASE \E t \in DOMAIN entries[o].receipts : Undo(o, t)
    <2>1. PICK t, x : entries' = [entries EXCEPT ![o].core = x, ![o].receipts = Forget(@, t)]
      BY <1>9 DEF Undo, ForgetsReceipt
    <2> DEFINE y == Forget(entries[o].receipts, t)
    <2>2. entries' = [entries EXCEPT ![o] = [entries[o] EXCEPT !.core = x, !.receipts = y]]
      BY <2>1
    <2>3. DOMAIN y \subseteq DOMAIN entries[o].receipts
      BY TableChanges
    <2> HIDE DEF y
    <2>4. HeldTokens([entries[o] EXCEPT !.core = x, !.receipts = y])
             \subseteq HeldTokens(entries[o]) \cup {}
      BY <1>1, <2>3, HeldChanges DEF HeldTokens
    <2>5. QED BY <2>2, <2>4, EntryUses
  <1>10. CASE \E n \in 1..MaxCheckpoint : ExportCheckpoint(o, n)
    <2>1. PICK x : entries' = [entries EXCEPT ![o] = [entries[o] EXCEPT !.core = x]]
      BY <1>10 DEF ExportCheckpoint
    <2>2. HeldTokens([entries[o] EXCEPT !.core = x]) \subseteq HeldTokens(entries[o]) \cup {}
      BY <1>1, HeldChanges
    <2>3. QED BY <2>1, <2>2, EntryUses
  <1>11. QED BY <1>2, <1>4, <1>5, <1>6, <1>7, <1>8, <1>9, <1>10 DEF Command

(***************************************************************************)
(* next_id goes up by one for every token it gives out, whatever was       *)
(* closed, consumed or refused meanwhile: a token that was given out and   *)
(* no longer denotes anything never denotes anything again.                *)
(***************************************************************************)
THEOREM NoTokenTwice == Spec => TokensNotReused
  <1>1. Inv /\ [Next]_vars => \A t \in 1..next : t \notin UsedTokens => t \notin UsedTokens'
    <2>1. SUFFICES ASSUME Inv, [Next]_vars
                   PROVE  \A t \in 1..next : t \notin UsedTokens => t \notin UsedTokens'
      OBVIOUS
    <2>2. next \in Nat
      BY <2>1 DEF Inv, Counted
    <2>3. UsedTokens' \subseteq UsedTokens \cup {next + 1}
      <3>1. CASE Create \/ Restore
        BY <3>1, RegisterUses DEF Create, Restore, Register, TakesToken
      <3>2. CASE \E o \in DOMAIN entries : Command(o)
        BY <2>1, <3>2, CommandUses
      <3>3. CASE TokenWasted \/ Refused \/ UNCHANGED vars
        BY <3>3 DEF TokenWasted, Refused, vars, UsedTokens
      <3>4. QED BY <2>1, <3>1, <3>2, <3>3 DEF Next
    <2>4. QED BY <2>2, <2>3
  <1>2. QED BY <1>1, Invariance, PTL DEF Spec, TokensNotReused
================================================================================
