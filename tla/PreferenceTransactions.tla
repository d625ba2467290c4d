------------------------ MODULE PreferenceTransactions ------------------------
(***************************************************************************)
(* The storage sessions of the formula preferences:                        *)
(* FormulaPreferenceStorageSession over one shared protected register.     *)
(* Sessions of several processes stage records (prepare, prepare_clear),   *)
(* publish them with one compare-and-exchange (commit), read back after a  *)
(* doubtful answer (reconcile), and may die anywhere.                      *)
(*                                                                         *)
(* A record is its content: the code compares SHA-256 witnesses of whole   *)
(* records, the model compares the records.  The pair of feedback and      *)
(* storage keys of an epoch is one value of Keys.  An acceptance is one    *)
(* value of Feedback, accepted at most once; learning policy, captures and *)
(* event numbers are the subject of module PreferenceFeedback.             *)
(***************************************************************************)
EXTENDS Naturals

CONSTANTS
    Sessions,      \* session slots; a slot that is closed may be opened again
    Stages,        \* slots for prepared checkpoints held by the host
    Keys,          \* pairs of host keys
    Generations,   \* generations a host may choose
    Feedback,      \* acceptances, each named for its one occurrence
    Sensitive,     \* those made in a sensitive document
    MaxU64,        \* the last value of the u64 counters
    ConsentLevels, \* the storage permissions the user chooses between
    NoSession, NoStage, NoOwner, NoRecord, NoWrite,
    WritesOutliveCalls, \* whether a native write may outlive its call
    RootMayVanish, \* whether the environment may lose the protected root
    CoreMayBeReplaced \* whether a host replaces the raw core of a session

ASSUME CounterAssumption == MaxU64 \in Nat \ {0}
ASSUME GenerationAssumption == Generations \subseteq 0..MaxU64
ASSUME SensitiveAssumption == Sensitive \subseteq Feedback
ASSUME ConsentAssumption == ConsentLevels \subseteq {"off", "plain", "sensitive"}
ASSUME NoOwnerAssumption == NoOwner \notin Sessions
ASSUME NoStageAssumption == NoStage \notin Stages
ASSUME FlagAssumption ==
    {WritesOutliveCalls, RootMayVanish, CoreMayBeReplaced} \subseteq BOOLEAN

VARIABLES
    head, write, call,   \* the protected register, see PreferenceRegister
    sess,          \* session slot -> the session, or NoSession
    stage,         \* stage slot -> the prepared checkpoint, or NoStage
    consent,       \* the storage permission the host passes to its calls
    acceptedIn,    \* history: acceptance -> its generation, once accepted
    published      \* history: session -> revision it last had selected, or 0

regVars == <<head, write, call>>
vars == <<head, write, call, sess, stage, consent, acceptedIn, published>>

Register == INSTANCE PreferenceRegister WITH Callers <- Sessions, NoCaller <- NoOwner

-----------------------------------------------------------------------------
Counter == 0..MaxU64

Record == [revision: Counter, generation: Generations, key: Keys,
           checkpoint: Counter, events: SUBSET Feedback, undone: SUBSET Feedback]

MaybeRecord == Record \cup {NoRecord}

ASSUME NoRecordAssumption == NoRecord \notin Record

Session == [head: MaybeRecord, revision: Counter, generation: Generations, key: Keys,
            events: SUBSET Feedback, undone: SUBSET Feedback,
            receipts: SUBSET Feedback, checkpoint: Counter,
            intact: BOOLEAN, fenced: BOOLEAN, committing: Stages \cup {NoStage}]

ASSUME NoSessionAssumption == NoSession \notin Session

Stage == [owner: Sessions \cup {NoOwner}, base: MaybeRecord, candidate: Record,
          reset: BOOLEAN, consumed: BOOLEAN]

ASSUME NoStageIsNoStage == NoStage \notin Stage

Write == [by: Sessions \cup {NoOwner}, expected: MaybeRecord, candidate: Record,
          selected: BOOLEAN]

ASSUME NoWriteAssumption == NoWrite \notin Write

Call == [phase: Register!Phases, expected: MaybeRecord, candidate: MaybeRecord]

TypeOK ==
    /\ head \in MaybeRecord
    /\ write \in Write \cup {NoWrite}
    /\ call \in [Sessions -> Call]
    /\ sess \in [Sessions -> Session \cup {NoSession}]
    /\ stage \in [Stages -> Stage \cup {NoStage}]
    /\ consent \in ConsentLevels
    /\ acceptedIn \in [Feedback -> SUBSET Generations]
    /\ published \in [Sessions -> Counter]

-----------------------------------------------------------------------------
(***************************************************************************)
(* Whether the current permission allows storing or restoring this history *)
(***************************************************************************)
Permits(events) ==
    /\ consent # "off"
    /\ events \cap Sensitive = {} \/ consent = "sensitive"

(***************************************************************************)
(* A session whose host is not inside one of its calls.                    *)
(***************************************************************************)
Ready(s) == sess[s] # NoSession /\ sess[s].committing = NoStage

ConsistentAlways(s) == TRUE

Consistent(s) == sess[s].intact

Healthy(s) == ~sess[s].fenced /\ Consistent(s)

(***************************************************************************)
(* A slot the host may put a new stage in; a stage inside commit is not.   *)
(***************************************************************************)
FreeSlot(t) == \A s \in Sessions : sess[s] # NoSession => sess[s].committing # t

(***************************************************************************)
(* The owner token of s is dropped: the stages bound to it match no more.  *)
(* (DisownNothing and the like are faulty variants, one mistake each.)     *)
(***************************************************************************)
DisownNothing(stages, s) == stages

Disown(stages, s) ==
    [t \in Stages |-> IF stages[t] # NoStage /\ stages[t].owner = s
                      THEN [stages[t] EXCEPT !.owner = NoOwner] ELSE stages[t]]

CheckStage(s, t) ==
    /\ stage[t] # NoStage
    /\ ~stage[t].consumed
    /\ stage[t].owner = s
    /\ stage[t].reset \/ stage[t].base = sess[s].head
    /\ Consistent(s)

(***************************************************************************)
(* Restoring the candidate under the current permission succeeds; a reset  *)
(* is empty and carries its own permission.                                *)
(***************************************************************************)
ValidCandidateAlways(t) == TRUE

ValidCandidate(t) == stage[t].reset \/ Permits(stage[t].candidate.events)

(***************************************************************************)
(* recovery_required after an answer about stage t: a definitive one lifts *)
(* the fence unless the stage was a reset of an older head.                *)
(***************************************************************************)
RecoveryUnneeded(s, t, definitive) == stage[t].base # sess[s].head

RecoveryRequired(s, t, definitive) == ~definitive \/ stage[t].base # sess[s].head

(***************************************************************************)
(* The session after stage t was found selected.  A save keeps the core,   *)
(* with whatever was accepted since; a reset replaces it.                  *)
(***************************************************************************)
Settled(s, t) ==
    [sess[s] EXCEPT !.head = stage[t].candidate, !.revision = stage[t].candidate.revision,
                    !.fenced = FALSE, !.committing = NoStage]

AdoptedWithOldEvents(s, t) ==
    LET c == stage[t].candidate
    IN IF stage[t].reset
       THEN [Settled(s, t) EXCEPT !.generation = c.generation, !.key = c.key,
                                  !.checkpoint = c.checkpoint]
       ELSE Settled(s, t)

AdoptedFromCandidate(s, t) ==
    LET c == stage[t].candidate
    IN [Settled(s, t) EXCEPT !.generation = c.generation, !.key = c.key,
                             !.events = c.events, !.undone = c.undone,
                             !.receipts = {}, !.checkpoint = c.checkpoint]

AdoptedSession(s, t) ==
    LET c == stage[t].candidate
    IN IF stage[t].reset
       THEN [Settled(s, t) EXCEPT !.generation = c.generation, !.key = c.key,
                                  !.events = c.events, !.undone = c.undone,
                                  !.receipts = {}, !.checkpoint = c.checkpoint]
       ELSE Settled(s, t)

Adopt(s, t) ==
    /\ sess' = [sess EXCEPT ![s] = AdoptedSession(s, t)]
    /\ stage' = LET spent == [stage EXCEPT ![t].consumed = TRUE]
                IN IF stage[t].reset THEN Disown(spent, s) ELSE spent

-----------------------------------------------------------------------------
Init ==
    /\ Register!RegInit
    /\ sess = [s \in Sessions |-> NoSession]
    /\ stage = [t \in Stages |-> NoStage]
    /\ consent \in ConsentLevels
    /\ acceptedIn = [f \in Feedback |-> {}]
    /\ published = [s \in Sessions |-> 0]

(***************************************************************************)
(* FormulaPreferenceStorageSession::new: explicit initialisation in memory *)
(* that reads nothing.                                                     *)
(***************************************************************************)
New(s) ==
    /\ sess[s] = NoSession
    /\ \E g \in Generations, k \in Keys :
          sess' = [sess EXCEPT ![s] =
                     [head |-> NoRecord, revision |-> 0, generation |-> g, key |-> k,
                      events |-> {}, undone |-> {}, receipts |-> {}, checkpoint |-> 0,
                      intact |-> TRUE, fenced |-> FALSE, committing |-> NoStage]]
    /\ UNCHANGED <<regVars, stage, consent, acceptedIn, published>>

(***************************************************************************)
(* FormulaPreferenceStorageSession::open: everything from the current      *)
(* protected record.                                                       *)
(***************************************************************************)
Open(s) ==
    /\ sess[s] = NoSession
    /\ Register!CanLoad
    /\ head # NoRecord
    /\ Permits(head.events)
    /\ sess' = [sess EXCEPT ![s] =
                  [head |-> head, revision |-> head.revision,
                   generation |-> head.generation, key |-> head.key,
                   events |-> head.events, undone |-> head.undone, receipts |-> {},
                   checkpoint |-> head.checkpoint,
                   intact |-> TRUE, fenced |-> FALSE, committing |-> NoStage]]
    /\ UNCHANGED <<regVars, stage, consent, acceptedIn, published>>

(***************************************************************************)
(* The session is dropped, or its process dies, anywhere.                  *)
(***************************************************************************)
Close(s) ==
    /\ sess[s] # NoSession
    /\ Register!Kill(s)
    /\ sess' = [sess EXCEPT ![s] = NoSession]
    /\ stage' = Disown(stage, s)
    /\ published' = [published EXCEPT ![s] = 0]
    /\ UNCHANGED <<consent, acceptedIn>>

-----------------------------------------------------------------------------
(***************************************************************************)
(* preferences_mut().record_acceptance_at pushes a new event and hands out *)
(* its receipt; record_undo marks the event of a receipt, once.            *)
(***************************************************************************)
Accept(s, f) ==
    /\ Ready(s)
    /\ Consistent(s)
    /\ acceptedIn[f] = {}
    /\ acceptedIn' = [acceptedIn EXCEPT ![f] = {sess[s].generation}]
    /\ sess' = [sess EXCEPT ![s].events = @ \cup {f}, ![s].receipts = @ \cup {f}]
    /\ UNCHANGED <<regVars, stage, consent, published>>

Undo(s, f) ==
    /\ Ready(s)
    /\ f \in sess[s].receipts \ sess[s].undone
    /\ sess' = [sess EXCEPT ![s].undone = @ \cup {f}]
    /\ UNCHANGED <<regVars, stage, consent, acceptedIn, published>>

(***************************************************************************)
(* preferences_mut() also lets the host clear or replace the raw core: the *)
(* scope, key or owner of the core then differs from the session's.        *)
(***************************************************************************)
ReplaceCore(s) ==
    /\ CoreMayBeReplaced
    /\ Ready(s)
    /\ Consistent(s)
    /\ sess' = [sess EXCEPT ![s].intact = FALSE, ![s].events = {},
                            ![s].undone = {}, ![s].receipts = {}, ![s].checkpoint = 0]
    /\ UNCHANGED <<regVars, stage, consent, acceptedIn, published>>

(***************************************************************************)
(* The user changes what may be stored; the host passes it on from now on. *)
(***************************************************************************)
SetConsent(c) ==
    /\ consent # c
    /\ consent' = c
    /\ UNCHANGED <<regVars, sess, stage, acceptedIn, published>>

-----------------------------------------------------------------------------
(***************************************************************************)
(* prepare: the next revision is reserved before the export advances the   *)
(* core's checkpoint; nothing is written.                                  *)
(***************************************************************************)
CountersUnchecked(s) == TRUE

CountersLeft(s) == sess[s].revision < MaxU64 /\ sess[s].checkpoint < MaxU64

Prepare(s, t) ==
    /\ Ready(s)
    /\ FreeSlot(t)
    /\ Healthy(s)
    /\ CountersLeft(s)
    /\ Permits(sess[s].events)
    /\ sess' = [sess EXCEPT ![s].checkpoint = @ + 1]
    /\ stage' = [stage EXCEPT ![t] =
                   [owner |-> s, base |-> sess[s].head, reset |-> FALSE, consumed |-> FALSE,
                    candidate |-> [revision |-> sess[s].revision + 1,
                                   generation |-> sess[s].generation, key |-> sess[s].key,
                                   checkpoint |-> sess[s].checkpoint + 1,
                                   events |-> sess[s].events, undone |-> sess[s].undone]]]
    /\ UNCHANGED <<regVars, consent, acceptedIn, published>>

(***************************************************************************)
(* prepare_clear: an empty record in a generation above both the session's *)
(* and the current record's, with keys neither of them used.  It needs no  *)
(* permission and no healthy session, and fences one whose head is old.    *)
(***************************************************************************)
TakesOver(s, g, k) ==
    /\ g > sess[s].generation
    /\ k # sess[s].key
    /\ head # NoRecord => g > head.generation /\ k # head.key

PrepareClear(s, t) ==
    /\ Ready(s)
    /\ FreeSlot(t)
    /\ Consistent(s)
    /\ Register!CanLoad
    /\ head = NoRecord => sess[s].head = NoRecord
    /\ head # NoRecord => head.revision < MaxU64
    /\ \E g \in Generations, k \in Keys :
          /\ TakesOver(s, g, k)
          /\ stage' = [stage EXCEPT ![t] =
                [owner |-> s, base |-> head, reset |-> TRUE, consumed |-> FALSE,
                 candidate |-> [revision |-> IF head = NoRecord THEN 1 ELSE head.revision + 1,
                                generation |-> g, key |-> k, checkpoint |-> 1,
                                events |-> {}, undone |-> {}]]]
    /\ sess' = [sess EXCEPT ![s].fenced = @ \/ head # sess[s].head]
    /\ UNCHANGED <<regVars, consent, acceptedIn, published>>

(***************************************************************************)
(* prepare_clear of a session that knew a record finds none: it is fenced, *)
(* and the lost root is not recreated.                                     *)
(***************************************************************************)
ClearFindsNothing(s) ==
    /\ Ready(s)
    /\ Consistent(s)
    /\ Register!CanLoad
    /\ head = NoRecord
    /\ sess[s].head # NoRecord
    /\ sess' = [sess EXCEPT ![s].fenced = TRUE]
    /\ UNCHANGED <<regVars, stage, consent, acceptedIn, published>>

-----------------------------------------------------------------------------
(***************************************************************************)
(* commit: the fence is set before the call crosses into the provider.     *)
(***************************************************************************)
Commit(s, t) ==
    /\ Ready(s)
    /\ CheckStage(s, t)
    /\ stage[t].reset \/ Healthy(s)
    /\ ValidCandidate(t)
    /\ Register!Invoke(s, stage[t].base, stage[t].candidate)
    /\ sess' = [sess EXCEPT ![s].fenced = TRUE, ![s].committing = t]
    /\ UNCHANGED <<stage, consent, acceptedIn, published>>

CommitApplied(s, t) ==
    /\ Register!Answer(s, "Applied")
    /\ Adopt(s, t)

CommitNotCommitted(s, t) ==
    /\ Register!Answer(s, "NotCommitted")
    /\ sess' = [sess EXCEPT ![s].fenced = RecoveryRequired(s, t, TRUE),
                            ![s].committing = NoStage]
    /\ UNCHANGED stage

(***************************************************************************)
(* Conflict and Indeterminate keep the fence, as does an unwinding call.   *)
(***************************************************************************)
CommitDoubtful(s, t) ==
    /\ Register!Answer(s, "Conflict") \/ Register!Answer(s, "Indeterminate")
    /\ sess' = [sess EXCEPT ![s].fenced = RecoveryRequired(s, t, FALSE),
                            ![s].committing = NoStage]
    /\ UNCHANGED stage

CommitReturn(s) ==
    /\ sess[s] # NoSession
    /\ sess[s].committing # NoStage
    /\ \/ CommitApplied(s, sess[s].committing)
       \/ CommitNotCommitted(s, sess[s].committing)
       \/ CommitDoubtful(s, sess[s].committing)
    /\ UNCHANGED <<consent, acceptedIn, published>>

-----------------------------------------------------------------------------
(***************************************************************************)
(* reconcile: read back the exact record and publish nothing.              *)
(***************************************************************************)
SelectedByRevision(t) ==
    head # NoRecord /\ head.revision = stage[t].candidate.revision

Selected(t) == head = stage[t].candidate

ReconcileApplied(s, t) ==
    /\ Selected(t)
    /\ Adopt(s, t)

ReconcileUnchanged(s, t) ==
    /\ ~Selected(t)
    /\ head = stage[t].base
    /\ sess' = [sess EXCEPT ![s].fenced = RecoveryRequired(s, t, TRUE)]
    /\ UNCHANGED stage

ReconcileConflict(s, t) ==
    /\ ~Selected(t)
    /\ head # stage[t].base
    /\ sess' = [sess EXCEPT ![s].fenced = RecoveryRequired(s, t, FALSE)]
    /\ UNCHANGED stage

Reconcile(s, t) ==
    /\ Ready(s)
    /\ CheckStage(s, t)
    /\ ValidCandidate(t)
    /\ Register!CanLoad
    /\ ReconcileApplied(s, t) \/ ReconcileUnchanged(s, t) \/ ReconcileConflict(s, t)
    /\ UNCHANGED <<regVars, consent, acceptedIn, published>>

-----------------------------------------------------------------------------
(***************************************************************************)
(* The provider's side of a commit.  `published` remembers what was really *)
(* selected on behalf of a session that still lives.                       *)
(***************************************************************************)
SelectRecord ==
    /\ Register!Select
    /\ published' = IF write.by = NoOwner THEN published
                    ELSE [published EXCEPT ![write.by] = write.candidate.revision]
    /\ UNCHANGED <<sess, stage, consent, acceptedIn>>

Provider ==
    /\ \/ \E s \in Sessions : Register!Enter(s)
       \/ Register!Settle
       \/ Register!Vanish
    /\ UNCHANGED <<sess, stage, consent, acceptedIn, published>>

Host(s) ==
    \/ New(s) \/ Open(s) \/ Close(s)
    \/ \E f \in Feedback : Accept(s, f) \/ Undo(s, f)
    \/ ReplaceCore(s)
    \/ \E t \in Stages : \/ Prepare(s, t) \/ PrepareClear(s, t)
                         \/ Commit(s, t) \/ Reconcile(s, t)
    \/ ClearFindsNothing(s)
    \/ CommitReturn(s)

Next ==
    \/ \E s \in Sessions : Host(s)
    \/ \E c \in ConsentLevels : SetConsent(c)
    \/ SelectRecord
    \/ Provider

Spec == Init /\ [][Next]_vars

-----------------------------------------------------------------------------
(***************************************************************************)
(* The head follows the ledger: whatever sessions race, retry or die,      *)
(* every selected record extends or clears exactly the one before it, and  *)
(* no published acceptance or undo is lost other than by a clear.          *)
(***************************************************************************)
Ledger == INSTANCE PreferenceLedger WITH ledger <- head

LedgerSpec == Ledger!Spec

(***************************************************************************)
(* Why it does: every publication anywhere in the system (staged, handed   *)
(* to the provider, inside the boundary) follows the record it expects,    *)
(* and a session's core holds at least what its own head holds.            *)
(***************************************************************************)
SessionCoversHead(x) ==
    /\ x.revision = IF x.head = NoRecord THEN 0 ELSE x.head.revision
    /\ x.intact /\ x.head # NoRecord =>
          /\ x.generation = x.head.generation
          /\ x.key = x.head.key
          /\ x.checkpoint >= x.head.checkpoint
          /\ x.head.events \subseteq x.events
          /\ x.head.undone \subseteq x.undone

SessionCoversSave(x, c) ==
    x.intact =>
       /\ c.generation = x.generation
       /\ c.key = x.key
       /\ c.checkpoint <= x.checkpoint
       /\ c.events \subseteq x.events
       /\ c.undone \subseteq x.undone

SessionLinks ==
    \A s \in Sessions : sess[s] # NoSession =>
       /\ SessionCoversHead(sess[s])
       /\ sess[s].committing # NoStage =>
             /\ stage[sess[s].committing] # NoStage
             /\ stage[sess[s].committing].owner = s

StageLinks ==
    \A t \in Stages : stage[t] # NoStage =>
       /\ Ledger!Follows(stage[t].base, stage[t].candidate)
       /\ stage[t].owner # NoOwner =>
             /\ sess[stage[t].owner] # NoSession
             /\ ~stage[t].reset =>
                   SessionCoversSave(sess[stage[t].owner], stage[t].candidate)

PublicationLinks ==
    /\ \A s \in Sessions : call[s].phase = "inside" => write # NoWrite /\ write.by = s
    /\ \A s \in Sessions : call[s].phase # "idle" =>
          /\ call[s].candidate \in Record
          /\ Ledger!Follows(call[s].expected, call[s].candidate)
    /\ write # NoWrite => Ledger!Follows(write.expected, write.candidate)

Links == SessionLinks /\ StageLinks /\ PublicationLinks

(***************************************************************************)
(* Cleared history does not come back: an acceptance is only ever stored   *)
(* in the generation it was made in, and generations grow (LedgerSpec).    *)
(***************************************************************************)
HistoryBelongsToGeneration ==
    head # NoRecord => \A f \in head.events : acceptedIn[f] = {head.generation}

(***************************************************************************)
(* The fence of commit and reconcile: a session that may save normally     *)
(* knows of every record that was selected on its behalf.                  *)
(***************************************************************************)
FenceCoversOwnPublication ==
    \A s \in Sessions :
       sess[s] # NoSession /\ ~sess[s].fenced => published[s] <= sess[s].revision

(***************************************************************************)
(* No two sessions, nor a session and the register, hold different records *)
(* for the same revision: what commit or reconcile adopts was selected.    *)
(***************************************************************************)
NoForkedHead ==
    \A s \in Sessions :
       sess[s] # NoSession /\ sess[s].head # NoRecord =>
          /\ head # NoRecord
          /\ sess[s].head.revision <= head.revision
          /\ sess[s].head.revision = head.revision => sess[s].head = head

(***************************************************************************)
(* Consent is judged when the record is handed to the provider, not when   *)
(* it was staged: after a withdrawal no earlier stage carries history out. *)
(***************************************************************************)
ConsentAtPublication ==
    [][\A s \in Sessions :
          call[s].phase = "idle" /\ call'[s].phase = "called"
             => call'[s].candidate.events = {} \/ Permits(call'[s].candidate.events)]_vars

(***************************************************************************)
(* Feedback accepted after prepare survives the commit: a living session   *)
(* forgets an acceptance only with a newer generation, when its clear was  *)
(* adopted (or when its host replaced the raw core).                       *)
(***************************************************************************)
LocalFeedbackKept ==
    [][\A s \in Sessions :
          sess[s] # NoSession /\ sess'[s] # NoSession /\ sess'[s].intact
          /\ sess'[s].generation = sess[s].generation
             => /\ sess[s].events \subseteq sess'[s].events
                /\ sess[s].undone \subseteq sess'[s].undone]_vars

(***************************************************************************)
(* A lost root is not refounded with history by a session that knew it:    *)
(* other than an explicitly new session, only the empty record of a clear  *)
(* that was staged while there was no root can take its place.             *)
(***************************************************************************)
LostHistoryStaysLost ==
    [][head = NoRecord /\ head' # NoRecord =>
          \A s \in Sessions : write.by = s =>
             sess[s].head = NoRecord \/ head'.events = {}]_vars
=============================================================================
