-------------------------- MODULE PreferenceFeedback --------------------------
(***************************************************************************)
(* FormulaPreferenceStore and its checkpoints, in the hands of a host that *)
(* keeps captures, receipts and exported snapshots as long as it likes and *)
(* presents them late, to the wrong store, or after a restore.             *)
(*                                                                         *)
(* An owner is the allocation of a store: a Weak reference keeps it from   *)
(* being used again.  An acceptance is named by a member of Feedback, at   *)
(* most once; the name is a history component of events and receipts, as   *)
(* `crossed` is of captures and receipts: set once the policy changed or   *)
(* the history was cleared after they were issued.  No guard reads either. *)
(* What was accepted (a candidate's digest) matters for ranking only.      *)
(***************************************************************************)
EXTENDS Naturals, Sequences, FiniteSets

CONSTANTS
    Owners,        \* instances of the store, each created at most once
    Keys,          \* feedback keys
    Generations,   \* generations of a scope
    Policies,      \* the policies a host chooses between
    Candidates,    \* digests of completion candidates
    Feedback,      \* acceptances, each named for its one occurrence
    Sensitive,     \* those made in a sensitive document
    EventIds,      \* the event numbers a host uses
    MaxEpoch,      \* the last value of the u64 epochs
    MaxCheckpoint, \* the last value of the u64 checkpoints
    MaxEvents,     \* FORMULA_PREFERENCE_MAX_EVENTS
    NoStore,
    HostDrops      \* whether the host may drop captures and receipts

ASSUME CounterAssumption == MaxEpoch \in Nat /\ MaxCheckpoint \in Nat
ASSUME EventIdAssumption == EventIds \subseteq Nat
ASSUME GenerationAssumption == Generations \subseteq Nat
ASSUME EventLimitAssumption == MaxEvents \in Nat
ASSUME DropAssumption == HostDrops \in BOOLEAN
ASSUME PolicyAssumption ==
    Policies \subseteq [ranking: BOOLEAN, feedback: BOOLEAN, sensitive: BOOLEAN]

VARIABLES
    store,      \* owner -> its store, or NoStore
    born,       \* owners that were created
    captures,   \* captures the host holds
    receipts,   \* receipts the host holds
    snapshots,  \* snapshots the host exported
    accepted    \* history: acceptances that were recorded

vars == <<store, born, captures, receipts, snapshots, accepted>>

-----------------------------------------------------------------------------
Disabled == [ranking |-> FALSE, feedback |-> FALSE, sensitive |-> FALSE]

Epochs == 0..MaxEpoch

Checkpoints == 0..MaxCheckpoint

Event == [id: EventIds, candidate: Candidates, undone: BOOLEAN, fact: Feedback]

Store == [generation: Generations, key: Keys, policy: Policies \cup {Disabled},
          epoch: Epochs, last: EventIds \cup {0}, events: Seq(Event), checkpoint: Checkpoints]

ASSUME NoStoreAssumption == NoStore \notin Store

Capture == [owner: Owners, epoch: Epochs, crossed: BOOLEAN]

Receipt == [owner: Owners, epoch: Epochs, id: EventIds, fact: Feedback, crossed: BOOLEAN]

Snapshot == [by: Owners, generation: Generations, key: Keys, checkpoint: Checkpoints,
             events: Seq(Event)]

TypeOK ==
    /\ store \in [Owners -> Store \cup {NoStore}]
    /\ born \subseteq Owners
    /\ captures \subseteq Capture
    /\ receipts \subseteq Receipt
    /\ snapshots \subseteq Snapshot
    /\ accepted \subseteq Feedback

-----------------------------------------------------------------------------
(***************************************************************************)
(* The store as a value: what each call of the code does to it.  An        *)
(* operator that stands before another with the same parameters and is not *)
(* used is a faulty variant of it.                                         *)
(***************************************************************************)
NewStore(g, k) ==
    [generation |-> g, key |-> k, policy |-> Disabled, epoch |-> 0, last |-> 0,
     events |-> <<>>, checkpoint |-> 0]

(***************************************************************************)
(* A restored store has a new owner, the default policy and no capture or  *)
(* receipt; event and checkpoint numbers go on from the snapshot's.        *)
(***************************************************************************)
LastId(events) == IF events = <<>> THEN 0 ELSE events[Len(events)].id

RestoredForgetsLast(snap) ==
    [NewStore(snap.generation, snap.key) EXCEPT
        !.events = snap.events, !.checkpoint = snap.checkpoint]

Restored(snap) ==
    [NewStore(snap.generation, snap.key) EXCEPT
        !.last = LastId(snap.events), !.events = snap.events, !.checkpoint = snap.checkpoint]

(***************************************************************************)
(* Setting the policy that is in force already changes nothing.            *)
(***************************************************************************)
EpochUnchecked(st, p) == TRUE

CanSetPolicy(st, p) == p # st.policy => st.epoch < MaxEpoch

KeepsEpochOnReturn(st, p) ==
    IF p.feedback THEN [st EXCEPT !.policy = p]
    ELSE [st EXCEPT !.policy = p, !.epoch = @ + 1]

WithPolicy(st, p) ==
    IF p = st.policy THEN st ELSE [st EXCEPT !.policy = p, !.epoch = @ + 1]

CanClear(st, g, k) == g > st.generation /\ k # st.key /\ st.epoch < MaxEpoch

ClearedInEpoch(st, g, k) ==
    [st EXCEPT !.events = <<>>, !.generation = g, !.key = k,
               !.last = 0, !.checkpoint = 0]

Cleared(st, g, k) ==
    [st EXCEPT !.events = <<>>, !.generation = g, !.key = k, !.epoch = @ + 1,
               !.last = 0, !.checkpoint = 0]

(***************************************************************************)
(* Whether a capture or receipt is of this owner's current epoch.          *)
(***************************************************************************)
OfAnyOwner(o, st, token) == token.epoch = st.epoch

Current(o, st, token) == token.owner = o /\ token.epoch = st.epoch

Records(st, f) == st.policy.feedback /\ (f \in Sensitive => st.policy.sensitive)

NotOlderEvent(st, id) == id # 0 /\ id >= st.last

NewEvent(st, id) == id # 0 /\ id > st.last

CanAccept(st, f, id) == Records(st, f) /\ NewEvent(st, id) /\ Len(st.events) < MaxEvents

AcceptedEvicting(st, f, id, k) ==
    [st EXCEPT !.last = id,
               !.events = Append(IF Len(@) + 1 < MaxEvents THEN @ ELSE Tail(@),
                                 [id |-> id, candidate |-> k, undone |-> FALSE,
                                  fact |-> f])]

Accepted(st, f, id, k) ==
    [st EXCEPT !.last = id,
               !.events = Append(@, [id |-> id, candidate |-> k, undone |-> FALSE,
                                     fact |-> f])]

(***************************************************************************)
(* The place of the event a receipt undoes: the first with its number that *)
(* is not undone, if there is one.                                         *)
(***************************************************************************)
Undoable(st, r) == {i \in 1..Len(st.events) : st.events[i].id = r.id /\ ~st.events[i].undone}

Undone(st, r) ==
    LET first == CHOOSE i \in Undoable(st, r) : \A j \in Undoable(st, r) : i <= j
    IN [st EXCEPT !.events[first].undone = TRUE]

Undoes(o, st, r) == st.policy.feedback /\ Current(o, st, r) /\ Undoable(st, r) # {}

SameCheckpointAgain(st, n) == n \in Checkpoints \ {0} /\ n >= st.checkpoint

NewCheckpoint(st, n) == n \in Checkpoints \ {0} /\ n > st.checkpoint

SnapshotOf(o, st, n) ==
    [by |-> o, generation |-> st.generation, key |-> st.key, checkpoint |-> n,
     events |-> st.events]

(***************************************************************************)
(* FormulaPreferenceFeatures of a candidate: counts, and the number of the *)
(* last event in the store's order that was not undone.                    *)
(***************************************************************************)
EventsOf(st, k) == {i \in 1..Len(st.events) : st.events[i].candidate = k}

Surviving(st, k) == {i \in EventsOf(st, k) : ~st.events[i].undone}

FirstAccepted(st, k) ==
    LET surviving == Surviving(st, k)
    IN IF surviving = {} THEN 0
       ELSE st.events[CHOOSE i \in surviving : \A j \in surviving : i <= j].id

LastAccepted(st, k) ==
    LET surviving == Surviving(st, k)
    IN IF surviving = {} THEN 0
       ELSE st.events[CHOOSE i \in surviving : \A j \in surviving : j <= i].id

Features(st, k) ==
    [accepted |-> Cardinality(EventsOf(st, k)),
     undone |-> Cardinality(EventsOf(st, k) \ Surviving(st, k)),
     lastAccepted |-> LastAccepted(st, k)]

-----------------------------------------------------------------------------
(***************************************************************************)
(* The tokens of owner o that the host keeps once o changed its policy or  *)
(* cleared its history.  The host may drop what it holds at any call.      *)
(***************************************************************************)
Cross(tokens, o) ==
    {t \in tokens : t.owner # o}
    \cup {[t EXCEPT !.crossed = TRUE] : t \in {u \in tokens : u.owner = o}}

HostKeeps(held, issued) ==
    IF HostDrops THEN captures' \in SUBSET held /\ receipts' \in SUBSET issued
                 ELSE captures' = held /\ receipts' = issued

Init ==
    /\ store = [o \in Owners |-> NoStore]
    /\ born = {}
    /\ captures = {}
    /\ receipts = {}
    /\ snapshots = {}
    /\ accepted = {}

Create(o) ==
    /\ o \notin born
    /\ \E g \in Generations, k \in Keys : store' = [store EXCEPT ![o] = NewStore(g, k)]
    /\ born' = born \cup {o}
    /\ UNCHANGED <<captures, receipts, snapshots, accepted>>

(***************************************************************************)
(* restore_checkpoint or retrieve_checkpoint with the host's expected      *)
(* scope, key and checkpoint, which are those of one snapshot.             *)
(***************************************************************************)
Restore(o) ==
    /\ o \notin born
    /\ \E snap \in snapshots : store' = [store EXCEPT ![o] = Restored(snap)]
    /\ born' = born \cup {o}
    /\ UNCHANGED <<captures, receipts, snapshots, accepted>>

Close(o) ==
    /\ store[o] # NoStore
    /\ store' = [store EXCEPT ![o] = NoStore]
    /\ HostKeeps(captures, receipts)
    /\ UNCHANGED <<born, snapshots, accepted>>

SetPolicy(o, p) ==
    /\ store[o] # NoStore
    /\ CanSetPolicy(store[o], p)
    /\ store' = [store EXCEPT ![o] = WithPolicy(store[o], p)]
    /\ IF p = store[o].policy THEN HostKeeps(captures, receipts)
                              ELSE HostKeeps(Cross(captures, o), Cross(receipts, o))
    /\ UNCHANGED <<born, snapshots, accepted>>

Clear(o, g, k) ==
    /\ store[o] # NoStore
    /\ CanClear(store[o], g, k)
    /\ store' = [store EXCEPT ![o] = Cleared(store[o], g, k)]
    /\ HostKeeps(Cross(captures, o), Cross(receipts, o))
    /\ UNCHANGED <<born, snapshots, accepted>>

CaptureContext(o) ==
    /\ store[o] # NoStore
    /\ HostKeeps(captures \cup {[owner |-> o, epoch |-> store[o].epoch, crossed |-> FALSE]},
                 receipts)
    /\ UNCHANGED <<store, born, snapshots, accepted>>

(***************************************************************************)
(* record_acceptance_at with a capture, of this or of another store.  With *)
(* feedback disabled it succeeds and changes nothing.                      *)
(***************************************************************************)
RecordAcceptance(o, c, f, id, k) ==
    /\ store[o] # NoStore
    /\ f \notin accepted
    /\ Current(o, store[o], c)
    /\ CanAccept(store[o], f, id)
    /\ store' = [store EXCEPT ![o] = Accepted(store[o], f, id, k)]
    /\ accepted' = accepted \cup {f}
    /\ HostKeeps(captures,
                 receipts \cup {[owner |-> o, epoch |-> store[o].epoch, id |-> id,
                                 fact |-> f, crossed |-> FALSE]})
    /\ UNCHANGED <<born, snapshots>>

RecordUndo(o, r) ==
    /\ store[o] # NoStore
    /\ Undoes(o, store[o], r)
    /\ store' = [store EXCEPT ![o] = Undone(store[o], r)]
    /\ HostKeeps(captures, receipts)
    /\ UNCHANGED <<born, snapshots, accepted>>

ExportCheckpoint(o, n) ==
    /\ store[o] # NoStore
    /\ NewCheckpoint(store[o], n)
    /\ snapshots' = snapshots \cup {SnapshotOf(o, store[o], n)}
    /\ store' = [store EXCEPT ![o].checkpoint = n]
    /\ UNCHANGED <<born, captures, receipts, accepted>>

(***************************************************************************)
(* The host drops captures and receipts on its own.                        *)
(***************************************************************************)
Drop ==
    /\ HostKeeps(captures, receipts)
    /\ UNCHANGED <<store, born, snapshots, accepted>>

Call(o) ==
    \/ Create(o) \/ Restore(o) \/ Close(o) \/ CaptureContext(o)
    \/ \E p \in Policies : SetPolicy(o, p)
    \/ \E g \in Generations, k \in Keys : Clear(o, g, k)
    \/ \E c \in captures, f \in Feedback, id \in EventIds, k \in Candidates :
          RecordAcceptance(o, c, f, id, k)
    \/ \E r \in receipts : RecordUndo(o, r)
    \/ \E n \in Checkpoints : ExportCheckpoint(o, n)

Next == (\E o \in Owners : Call(o)) \/ Drop

Spec == Init /\ [][Next]_vars

-----------------------------------------------------------------------------
(***************************************************************************)
(* No queued feedback crosses a change of policy or a clear, not even when *)
(* the old policy is back: a capture the store still takes is uncrossed.   *)
(***************************************************************************)
CapturesDoNotCross ==
    \A c \in captures, o \in Owners :
       store[o] # NoStore /\ Current(o, store[o], c) => ~c.crossed

(***************************************************************************)
(* A receipt undoes the acceptance it was issued for or nothing: not one   *)
(* that got its number after a clear, nor that of a restored twin.         *)
(***************************************************************************)
ReceiptsDenote ==
    \A r \in receipts, o \in Owners :
       store[o] # NoStore /\ Undoes(o, store[o], r) =>
          /\ ~r.crossed
          /\ \A i \in Undoable(store[o], r) : store[o].events[i].fact = r.fact

(***************************************************************************)
(* Event numbers grow, through restores too, so that the recency a ranking *)
(* uses is that of the newest surviving acceptance.                        *)
(***************************************************************************)
Ordered(events) ==
    \A i, j \in 1..Len(events) : i < j => events[i].id < events[j].id

EventsOrdered ==
    \A o \in Owners : store[o] # NoStore =>
       Ordered(store[o].events) /\ LastId(store[o].events) = store[o].last

RecencyIsNewest ==
    \A o \in Owners : store[o] # NoStore =>
       \A i \in 1..Len(store[o].events) :
          LET e == store[o].events[i]
          IN ~e.undone => e.id <= Features(store[o], e.candidate).lastAccepted

(***************************************************************************)
(* A checkpoint number of an owner's generation names one snapshot: a host *)
(* that retries a failed write cannot mix two exports up.                  *)
(***************************************************************************)
NumbersNameSnapshots ==
    \A a, b \in snapshots :
       a.by = b.by /\ a.generation = b.generation /\ a.checkpoint = b.checkpoint => a = b

(***************************************************************************)
(* No acceptance is evicted: within a generation of a store the history is *)
(* only appended to, and an undone acceptance stays undone.                *)
(***************************************************************************)
HistoryKept ==
    [][\A o \in Owners :
          LET old == store[o].events  new == store'[o].events
          IN store[o] # NoStore /\ store'[o] # NoStore
             /\ store'[o].generation = store[o].generation =>
                /\ Len(old) <= Len(new)
                /\ \A i \in 1..Len(old) :
                      /\ new[i].fact = old[i].fact
                      /\ old[i].undone => new[i].undone]_vars
=============================================================================
