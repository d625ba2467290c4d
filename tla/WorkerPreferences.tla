-------------------------- MODULE WorkerPreferences --------------------------
(***************************************************************************)
(* The JSONL worker's registry of preference owners: it keeps the stores,  *)
(* captures and receipts of a stream and gives out tokens for them, all    *)
(* drawn from one counter.  A token is that counter's value (its namespace *)
(* is random in each worker).  Requests are served one at a time.  A       *)
(* shutdown closes the owners one after the other, with no request served  *)
(* in between.  The store itself is that of PreferenceFeedback.            *)
(***************************************************************************)
EXTENDS Naturals, Sequences, FiniteSets, Functions

CONSTANTS
    Keys, Generations, Policies, Candidates, Feedback, Sensitive, EventIds,
    MaxEpoch, MaxCheckpoint, MaxEvents, NoStore,  \* see PreferenceFeedback
    MaxToken,      \* the last value of the u64 token counter
    MaxOwners,     \* MAX_OWNERS
    MaxCaptures    \* MAX_CAPTURES

ASSUME TokenAssumption == MaxToken \in Nat
ASSUME LimitAssumption == MaxOwners \in Nat /\ MaxCaptures \in Nat

VARIABLES
    next,       \* the last token given out
    entries,    \* token of an owner -> its State
    snapshots,  \* snapshots that were exported
    created,    \* history: tokens of all owners there ever were
    accepted    \* history: acceptances that were recorded

vars == <<next, entries, snapshots, created, accepted>>

Tokens == 1..MaxToken

(***************************************************************************)
(* The core is a store whose host drops captures and receipts.             *)
(***************************************************************************)
Core == INSTANCE PreferenceFeedback WITH
    Owners <- Tokens,
    HostDrops <- TRUE,
    store <- [o \in Tokens |-> IF o \in DOMAIN entries THEN entries[o].core ELSE NoStore],
    born <- created,
    captures <- UNION {Range(entries[o].captures) : o \in DOMAIN entries},
    receipts <- UNION {Range(entries[o].receipts) : o \in DOMAIN entries}

FeedbackSpec == Core!Spec

ASSUME CounterAssumption == MaxEpoch \in Nat /\ MaxCheckpoint \in Nat
ASSUME EventIdAssumption == EventIds \subseteq Nat
ASSUME GenerationAssumption == Generations \subseteq Nat
ASSUME EventLimitAssumption == MaxEvents \in Nat
ASSUME PolicyAssumption ==
    Policies \subseteq [ranking: BOOLEAN, feedback: BOOLEAN, sensitive: BOOLEAN]
ASSUME NoStoreAssumption == NoStore \notin Core!Store

-----------------------------------------------------------------------------
None == <<>>

Keep(held, t, x) == [u \in DOMAIN held \cup {t} |-> IF u = t THEN x ELSE held[u]]

Forget(held, t) == Restrict(held, DOMAIN held \ {t})

UsedTokens ==
    DOMAIN entries \cup UNION {DOMAIN entries[o].captures \cup DOMAIN entries[o].receipts :
                               o \in DOMAIN entries}

(***************************************************************************)
(* next_id: t is the token given out.                                      *)
(***************************************************************************)
TakesFreeToken(t) ==
    /\ t = CHOOSE u \in 1..(Cardinality(UsedTokens) + 1) :
              u \notin UsedTokens /\ \A v \in 1..(u - 1) : v \in UsedTokens
    /\ t \in Tokens
    /\ next' = IF t > next THEN t ELSE next

TakesToken(t) ==
    /\ next < MaxToken
    /\ t = next + 1
    /\ next' = t

(***************************************************************************)
(* register                                                                *)
(***************************************************************************)
Register(core) ==
    /\ Cardinality(DOMAIN entries) < MaxOwners
    /\ \E t \in Tokens :
          /\ TakesToken(t)
          /\ entries' = Keep(entries, t, [core |-> core, captures |-> None, receipts |-> None])
          /\ created' = created \cup {t}
    /\ UNCHANGED <<snapshots, accepted>>

Create == \E g \in Generations, k \in Keys : Register(Core!NewStore(g, k))

Restore == \E snap \in snapshots : Register(Core!Restored(snap))

Close(o) ==
    /\ entries' = Forget(entries, o)
    /\ UNCHANGED <<next, snapshots, created, accepted>>

(***************************************************************************)
(* The commands of an owner.  A change of policy and a clear invalidate    *)
(* the tokens in the core, and the registry forgets them.                  *)
(***************************************************************************)
KeepsTokens(core, old) == [old EXCEPT !.core = core]

DropsTokens(core, old) == [core |-> core, captures |-> None, receipts |-> None]

SetPolicy(o, p) ==
    LET core == entries[o].core
    IN /\ Core!CanSetPolicy(core, p)
       /\ IF p = core.policy THEN UNCHANGED entries
          ELSE entries' = [entries EXCEPT ![o] = DropsTokens(Core!WithPolicy(core, p), @)]
       /\ UNCHANGED <<next, snapshots, created, accepted>>

Clear(o, g, k) ==
    LET core == entries[o].core
    IN /\ Core!CanClear(core, g, k)
       /\ entries' = [entries EXCEPT ![o] = DropsTokens(Core!Cleared(core, g, k), @)]
       /\ UNCHANGED <<next, snapshots, created, accepted>>

Capture(o) ==
    /\ Cardinality(DOMAIN entries[o].captures) < MaxCaptures
    /\ \E t \in Tokens :
          /\ TakesToken(t)
          /\ entries' = [entries EXCEPT ![o].captures =
                Keep(@, t, [owner |-> o, epoch |-> entries[o].core.epoch, crossed |-> FALSE])]
    /\ UNCHANGED <<snapshots, created, accepted>>

DiscardCapture(o, t) ==
    /\ entries' = [entries EXCEPT ![o].captures = Forget(@, t)]
    /\ UNCHANGED <<next, snapshots, created, accepted>>

(***************************************************************************)
(* record-acceptance with capture c: the token of the receipt is reserved  *)
(* first.  An acceptance that is not recorded consumes the capture too.    *)
(***************************************************************************)
RecordAcceptance(o, c, f, id, k) ==
    LET core == entries[o].core
    IN /\ f \notin accepted
       /\ Core!Current(o, core, entries[o].captures[c])
       /\ Core!CanAccept(core, f, id)
       /\ \E t \in Tokens :
             /\ TakesToken(t)
             /\ entries' = [entries EXCEPT ![o] =
                   [core |-> Core!Accepted(core, f, id, k),
                    captures |-> Forget(@.captures, c),
                    receipts |-> Keep(@.receipts, t,
                                      [owner |-> o, epoch |-> core.epoch, id |-> id,
                                       fact |-> f, crossed |-> FALSE])]]
       /\ accepted' = accepted \cup {f}
       /\ UNCHANGED <<snapshots, created>>

AcceptanceNotRecorded(o, c, f) ==
    LET core == entries[o].core
    IN /\ Core!Current(o, core, entries[o].captures[c])
       /\ ~Core!Records(core, f)
       /\ \E t \in Tokens : TakesToken(t)
       /\ entries' = [entries EXCEPT ![o].captures = Forget(@, c)]
       /\ UNCHANGED <<snapshots, created, accepted>>

(***************************************************************************)
(* A capture or acceptance that fails has used a token up.                 *)
(***************************************************************************)
TokenWasted ==
    /\ entries # None
    /\ \E t \in Tokens : TakesToken(t)
    /\ UNCHANGED <<entries, snapshots, created, accepted>>

ForgetsNoReceipt(receipts, t) == receipts

ForgetsReceipt(receipts, t) == Forget(receipts, t)

Undo(o, t) ==
    LET core == entries[o].core  receipt == entries[o].receipts[t]
    IN /\ Core!Undoes(o, core, receipt)
       /\ entries' = [entries EXCEPT ![o].core = Core!Undone(core, receipt),
                                     ![o].receipts = ForgetsReceipt(@, t)]
       /\ UNCHANGED <<next, snapshots, created, accepted>>

ExportCheckpoint(o, n) ==
    LET core == entries[o].core
    IN /\ Core!NewCheckpoint(core, n)
       /\ snapshots' = snapshots \cup {Core!SnapshotOf(o, core, n)}
       /\ entries' = [entries EXCEPT ![o].core.checkpoint = n]
       /\ UNCHANGED <<next, created, accepted>>

(***************************************************************************)
(* A request that is refused otherwise changes nothing.                    *)
(***************************************************************************)
Refused == UNCHANGED vars

-----------------------------------------------------------------------------
Init ==
    /\ next = 0
    /\ entries = None
    /\ snapshots = {}
    /\ created = {}
    /\ accepted = {}

Command(o) ==
    \/ Close(o)
    \/ \E p \in Policies : SetPolicy(o, p)
    \/ \E g \in Generations, k \in Keys : Clear(o, g, k)
    \/ Capture(o)
    \/ \E c \in DOMAIN entries[o].captures :
          \/ DiscardCapture(o, c)
          \/ \E f \in Feedback : \/ AcceptanceNotRecorded(o, c, f)
                                 \/ \E id \in EventIds, k \in Candidates :
                                       RecordAcceptance(o, c, f, id, k)
    \/ \E t \in DOMAIN entries[o].receipts : Undo(o, t)
    \/ \E n \in 1..MaxCheckpoint : ExportCheckpoint(o, n)

Next ==
    \/ Create \/ Restore
    \/ \E o \in DOMAIN entries : Command(o)
    \/ TokenWasted
    \/ Refused

Spec == Init /\ [][Next]_vars

-----------------------------------------------------------------------------
(***************************************************************************)
(* What the registry keeps, its store still takes: every capture is of the *)
(* current epoch and every receipt can undo its event.  So no token holds  *)
(* a place of the bounded tables in vain, and none is answered "stale".    *)
(***************************************************************************)
TokensLive ==
    \A o \in DOMAIN entries :
       /\ \A t \in DOMAIN entries[o].captures :
             Core!Current(o, entries[o].core, entries[o].captures[t])
       /\ \A t \in DOMAIN entries[o].receipts :
             Core!Undoes(o, entries[o].core, entries[o].receipts[t])

(***************************************************************************)
(* A client may keep a token for ever: once consumed, discarded or closed, *)
(* it never denotes anything again.                                        *)
(***************************************************************************)
TokensNotReused ==
    [][\A t \in 1..next : t \notin UsedTokens => t \notin UsedTokens']_vars
=============================================================================
