# A TLA+ verification of latexsnipper-core

The repository is a Rust workspace (version 3, some 200,000 lines of Rust in
`src/crates`): a formula and document recogniser with converters, plugins,
adapters for other languages, and the storage of a user's formula preferences.
This directory holds TLA+ modules translated from its source, TLC
configurations that check them on small instances, and theorems that the TLAPS
proof system checks for every instance.

## 1. The system and its parts

Calls go down: an adapter (CLI, C, Python, WASM, JSONL worker) calls the engine,
the engine calls the pipeline, inference, conversion and export crates, and these
call a runtime. Plugins are offered to conversion through registries. Formula
preferences sit beside conversion: a host owns one store per user and, if the
user consents, saves it through a storage session and a provider.

| Part | Source (`src/crates/...`) | State it keeps | Operations | Hard behaviour | What makes it correct |
|---|---|---|---|---|---|
| Storage sessions | `conversion/src/formula_preference_transactions.rs` | head and revision, core store, recovery fence; staged checkpoints | new, open, prepare, prepare_clear, commit, reconcile | several processes, doubtful answers, retries, consent changing midway, lost root | the protected record only extends, is cleared or is lost as a whole; the session never saves on in ignorance |
| Backend contract | same file, trait at 228 | one protected record | load, compare_exchange | a timed-out write that goes on | one atomic selection, answers that are true |
| Windows provider | `preference-storage/src/windows.rs` | object files, a credential, a lock file | load, compare_exchange, cleanup_unselected | kill and power loss between native calls, hung IO, cleanup beside a publication | implements the contract; the selected object is never lost |
| Preference store | `conversion/src/formula_completion_preferences.rs` | policy, epoch, events, checkpoint number | set_policy, capture, record_acceptance, record_undo, clear, rank | captures and receipts used late, ABA of the policy | a receipt denotes its own acceptance |
| Checkpoint format | `conversion/src/formula_completion_preference_storage.rs` | none | export, restore, retrieve | stale or foreign snapshots | what is restored is what was exported |
| JSONL worker | `worker/src/lib.rs`, `worker/src/preferences.rs` | session, owner, capture and receipt tables | create, command, close | identifiers reused, limits | an identifier reaches its own object only |
| Remote plugin store | `plugin/src/remote_plugin_store.rs` | `remote-index.json` with a backup, a lock file, package directories | install, set_enabled, rollback, revoke, doctor | kill between backup and rename, damaged index, verification outside the lock | each change is one operation on the index before it; what is recovered is sound and at most one operation old |
| Registry manager | `plugin/src/registry_manager.rs`, `signed_registry.rs`, `plugin-wasi/src/activation.rs` | trusted root, minimum versions, cached targets; activated components | add, remove, trust, refresh, install, authorize | a refresh racing refreshes and installs, a crash before revocations are applied, old metadata | metadata never goes back; a revoked plugin never executes again |
| In-process plugin registry | `plugin/src/registry.rs`, `execution.rs` | entries, quarantine flag, outstanding count, cancellation tokens | register, invoke, disable, reset_quarantine, unregister | timed-out calls that go on, threads racing in `begin` and in a reset | a counting semaphore of `max_concurrent_executions`; every call returns |
| Process and WASI hosts | `plugin/src/process_host.rs`, `plugin-wasi/src` | child process, approvals | invoke, approve | deadline racing a late answer | approvals apply to the component approved |
| Incremental session | `incremental/src/session.rs`, `cache.rs`, `identity.rs` | source, blocks with spans and identities, two bounded caches, mapped renders | edits in place, by ranges and of blocks, reconcile, convert, render | spans shifted without a parse, identities matched greedily, stale caches | in-place edits equal a rebuild; what is served is of the formula it is served for |
| Artifact graph | `artifact/src/lib.rs` | lineage of sources and outputs | record, invalidate, compact | history bounded by revisions, replaced sources | no stale descendant is current, the latest keeps its origin |
| Recognition engine | `engine/src` | jobs, sessions | submit, cancel, recognise | cancellation racing completion | one final state per job |
| Pipeline, runtime, model manager | `pipeline/src`, `runtime/src`, `model/src` | stage graph, owner threads, model files | plan, run, load, download | order of stages, threads owning native sessions | the plan respects its dependencies |
| Conversion, AST, drawing, image, inference, export | `conversion/src`, `ast/src`, ... | none | pure functions on text and tensors | unbounded data | outside explicit-state checking |
| Runtime backends, adapters, measurement | `runtime-*`, `ffi`, `wasm`, `python`, `cli`, `benchmark`, ... | handles | translate calls | native code | outside this project, or candidates (handle tables) |

Modelled are the three subsystems with several actors, durable state or long
protocols: the storage of preferences (several processes, crashes, doubtful answers,
consent), the plugins (threads that outlive their callers, a store that several
processes write, a signed registry that revokes), and the incremental session (one
actor, but long sequences of edits over derived state that is kept up by hand). They
do not call one another: a host has them side by side.

## 2. Modules

```
PreferenceLedger                     what the user is promised (abstract)
   ^  refined by
PreferenceTransactions               sessions, stages, consent
   |  uses (INSTANCE)
PreferenceRegister                   the contract between session and provider
   ^  refined by
WindowsPreferenceProvider            files, credential, lock, processes

PreferenceFeedback                   one store and its tokens, in a host's hands
   ^  refined by
WorkerPreferences                    the worker's registry of owners and tokens

ExecutionSlots                       a counting semaphore (abstract)
   ^  refined by
PluginInvocation                     the threads that call one in-process plugin

PluginRecord                         a plugin's record and the operations on it
   ^  extended by
PluginIndex                          the store's index, one step per operation (abstract)
   ^  refined by                        ^  extended by
RemotePluginStore                    PluginRegistry
   lock, index, backup, packages        registry, refreshes, installs, hosts

DocumentSession                      source, blocks, caches, lineage
```

**`PreferenceLedger`** has one variable, the durable record. It may be founded,
extended by a save (nothing already in it is lost, generation and keys stay),
cleared (empty, newer generation, other keys), or lost as a whole.

**`PreferenceRegister`** is the trait `FormulaPreferenceCheckpointBackend`
(transactions.rs 212-241). `head` is the selected record, `call` the
`compare_exchange` each caller is in, `write` the publication inside the
provider's boundary. `Select` is the one atomic step. `Applied`, `Conflict` and
`NotCommitted` are only answered when true, `Indeterminate` always may be. With
`WritesOutliveCalls` a native write goes on after its call was answered
`Indeterminate`, or after its process died; `CanLoad` is the ordering rule of
`load` (229-233).

**`PreferenceTransactions`** is `FormulaPreferenceStorageSession`. One action per
operation: `New`, `Open`, `Close`, `Prepare`, `PrepareClear` (with its failing
path `ClearFindsNothing`, which sets the fence), `Commit` up to the provider call,
`CommitReturn` after it, `Reconcile`; `Accept`, `Undo` and `ReplaceCore` are what
the host does through `preferences_mut()`; `SetConsent` is the user.
`commit` is two actions because other processes run while the provider works;
inside one process the `&mut self` of the code excludes other calls on the
session, which `Ready` states. Field by field: `head`, `revision`, `generation`,
`key`, `events`, `undone`, `checkpoint` are the session and its core store,
`fenced` is `recovery_required`, `intact` says that the core is still the one the
session knows (`consistent`, 386-395), `receipts` are the receipts the host holds.
A stage keeps `owner` (the `Weak` owner token), `base`, `candidate`, `reset`,
`consumed`.

**`WindowsPreferenceProvider`** is `WindowsPreferenceCheckpoint`: a process takes the
publication lock (or gives up), reads the selected record, compares, creates,
writes and syncs an object file, replaces the credential, and verifies; or it
loads; or it removes unselected objects. Each stretch between two native calls
that may fail is an action. A process may be killed at every step (`Kill`), and
the machine may lose power (`PowerLoss`), after which a file that was written
but not synced may be partial.

**`PreferenceFeedback`** is `FormulaPreferenceStore` with the captures, receipts and
snapshots it hands out. The host keeps these as long as it likes and presents
them late, to another store or after a restore, so they are sets of the state and
every call takes any member. The store is a record (`policy`, `epoch`, `last` for
`last_event`, `events`, `checkpoint`), each call a function from store to store
(`WithPolicy`, `Cleared`, `Accepted`, `Undone`, `Restored`) with its conditions beside
it (`CanSetPolicy`, `CanClear`, `CanAccept`, `Undoes`, `NewCheckpoint`). An owner is
the allocation behind the `Weak` reference, which keeps the allocation from being
reused. `crossed` and `fact` are history components of tokens and events.

**`WorkerPreferences`** is the `Registry` of the JSONL worker: a table of owners, each
with a store, captures and receipts under tokens, and the counter all tokens are
drawn from. It uses the store's functions through an `INSTANCE` of
`PreferenceFeedback`, and implements its specification (`FeedbackSpec`) with
`HostDrops`, because the registry forgets a consumed capture or receipt, and all
of them when it knows that their epoch is over.

**`PluginInvocation`** is one plugin of the in-process registry. A call is two
threads: `caller` runs `invoke` (the checks of `begin`, the count, the push of the
token, the spawn, the wait), `worker` runs the plugin's code and owns the guard that
gives token and slot back. Quarantine flag, count and token list are separate
atomics and a mutex in the code, so each access is an action. A caller that times
out returns and quarantines the plugin; its worker goes on. Administrators disable
the plugin (and cancel every token), reset its quarantine (look at the count, then
lift the flag: two actions), unregister and register it again.

**`PluginRecord`** is the record of one plugin in the remote store's index and what
install, switch, rollback, revoke and doctor make of it. **`PluginIndex`** is the
index as callers think of it, with every operation atomic. **`RemotePluginStore`** is
what is there: processes that take `remote-store.lock`, load the index (or recover it
from the backup), copy the old file over the backup, rename the new one in place,
and unlock, each a step in which the process may be killed or a system call fail;
faults damage the index file or a package. Packages are verified outside the lock, as in
`set_enabled`. **`PluginRegistry`** is composed with the atomic index, which the store
is proved to implement: clients refresh (accept targets under `registries.lock`, then
apply revocations without it), trust new roots, and install in three steps (select,
download, install), while hosts activate the plugin and authorize each execution.

**`DocumentSession`** is `IncrementalDocumentSession`. `source`, `blocks` (kind,
content, span and identity), `bound` (the identity allocator), `revision`; `caches`
(the conversion and the render cache, in the order of use), `mapped` (rendered
formulas), `lineage` (artifact graph with the latest and the stale artifacts) and
`retained` (the history policy). `Parsed` is the parser, `Matched` the matching of a
new parse with the old blocks (`match_node_identities`), `Adjusted` the shift of spans
by an edit in place, `Invalidated` and `Compacted` what happens to the lineage. One
action per operation: `Bind`, `EditFormula`, `EditParagraph`, `ReplaceSourceRange`,
`InsertBlock`, `DeleteBlock`, `MoveBlock`, `ReconcileFull`, `Recall` and `Derive` (a hit
and a miss of `convert_formula` or `render_formula`), `SetPolicy`.

### Abstractions

- A witness is the SHA-256 of a whole record: the model compares records.
- The pair of feedback and storage keys of an epoch is one value. The code
  refuses a fresh pair that shares either key with the old one, in any
  position; two different values of `Keys` stand for pairs that share none.
- An acceptance is a value of `Feedback` that is accepted at most once. Learning
  policy, captures, event numbers and the 1024-event limit are not part of this
  `PreferenceTransactions` (they decide whether an acceptance is recorded, not what
  storage does with it); `PreferenceFeedback` has them, and no storage.
- In `PreferenceFeedback` the feedback key stands for itself, the digest of a
  candidate is a value of `Candidates`, and `None` of `last_event` and
  `last_checkpoint` is 0, which no number is. Consent to storage is left out: a
  refused export or restore changes nothing.
- A restore is given an authentic snapshot, its key and its own checkpoint number:
  the code leaves the choice of the freshest one to the host (storage.rs 207-210).
- A token of the worker is the value of its counter; the namespace before it is
  random and fixed for a process.
- A provider that unwinds tells the session what `Indeterminate` tells it: the
  fence was set before the call.
- An object file is named by the hash of a randomised ciphertext, so a new save
  makes a new name (`CreateObject` picks an absent one).
- The passing of time is a failure that every deadline check may meet.
- Encodings, size limits, key derivation, ACL and profile checks, and errors
  that change nothing are left out.
- `published` and `acceptedIn` are history variables: no guard reads them
  except the one that makes an acceptance unique. The same holds of `newcomers`
  (`PluginInvocation`), `latest` and `before` (`RemotePluginStore`), `highest` and
  `applied` (`PluginRegistry`).
- In `PluginInvocation` the plugin's code is `PluginEnds` and `PluginOverruns` at any time; a
  call slot is taken again once its caller has returned and its worker is gone. Which
  conversion is asked for, permissions and patch validation are left out: a refusal
  there is a call that returns.
- In the remote store, versions are numbers in semver order, a package directory is
  missing, whole or broken, and a file is absent, unreadable or holds an index. The
  temporary file is never read back, so it is written in the step that renames it.
- In `PluginRegistry` the metadata the registry has signed is chosen at the start, one
  targets version after the other, and a client is served any of it at any time. The
  three online roles advance together and have one number. Expiry only refuses.
- In `DocumentSession` a source is a sequence of pieces of length one, with white space of
  length zero between them; a piece is a formula with its delimiters or a run of
  text. A block of text is its pieces. Byte sizes in the caches are left open: an
  entry may be too large to be kept, or push out any number of old ones. Semantic
  patches are sequences of the edits modelled. The sources an edit or a host brings
  are such that pieces do not join (see the observations in section 6).

## 3. The runs

| Run | Instance | What it shows |
|---|---|---|
| `transactions_race` | 2 sessions, 2 stages, 1 generation, 1 acceptance, late writes | saves race, crash, are answered in doubt and may select after their call or process ended: `LedgerSpec` (every selected record follows the one before), `NoForkedHead` (nobody believes in a record that was not selected), `FenceCoversOwnPublication` (nobody saves on past a publication of its own it does not know of: a read back is safe because a load waits for late writes), `LocalFeedbackKept`, `TypeOK` (counters stop at their last value) |
| `transactions_lost` | 1 session, 2 stages, 2 generations, 3 consent levels, a sensitive acceptance; the root may vanish, the core be replaced | saves, clears, losses and withdrawals interleave: `LostHistoryStaysLost`, `HistoryBelongsToGeneration` (cleared history does not come back), `ConsentAtPublication` (a withdrawal between prepare and commit is honoured) |
| `transactions_fence` | 1 session, 2 stages, 2 generations | a counterexample, see section 6 |
| `provider_publish` | 2 processes, 3 objects, batches of 1, the credential may be deleted | two processes publish and clean up, with failures, kills and power loss: `RegisterSpec` (the provider implements the register that the sessions were checked with), `AnswersAreTrue`, `SelectedObjectSurvives` (the credential names a file whose bytes are all on the disk, always), `TypeOK` (a cleanup stops at its batch) |
| `feedback_tokens` | 2 stores, 2 policies, 2 epochs, 2 acceptances, limit of 2 events | the policy goes back and forth, history is cleared, stores are exported and restored while the host keeps every token: `CapturesDoNotCross`, `ReceiptsDenote` (a restored twin has the same event numbers and epochs), `HistoryKept`, `EventsOrdered` and `RecencyIsNewest` (ranking reads the newest surviving acceptance), `NumbersNameSnapshots` (a number of an owner's generation is one snapshot); epochs stop at the last (`TypeOK`) |
| `worker_tokens` | 1 owner at a time, 5 tokens, 2 captures, 3 policies, 2 acceptances (1 sensitive) | `FeedbackSpec`: the registry implements the store with a forgetful host; `TokensLive`: what it holds, its store still takes; `TokensNotReused` |
| `plugin_calls` | 3 calls, 2 slots, 1 administrator, with and without a timeout | timeouts, hanging plugins, failing spawns, disabling, resets and new registrations: `SlotsSpec` (a counting semaphore), `TokensFollowGuards` (a disable finds every call that executes), `CleanedUpAlone`, `ResetMissesNewcomersOnly`; `CallsReturn` and `TimedOutSlotsReturn` under fairness |
| `remote_store` | 2 processes, 2 versions, the index file damaged up to twice | installs, switches, rollbacks, revocations and repairs with kills and failures at every step: `ImplementsIndex` (each change is one operation on the index it replaces), `RecoversRecent` (a recovery loses at most one operation), `ReadableIsSound` (nothing unverified or revoked is ever switched on, in either file) |
| `registry_refresh` | 2 clients, 1 host, 2 versions, 2 signed targets | refreshes, installs, rollbacks, new roots and executions interleave: `CacheIsNewest`, `RevokedNeverRuns`, `OnlyRollbackLeadsBack` (a stale download does not downgrade), `RegistryTypeOK` (the index is sound) |
| `registry_revoked` | 1 client, 1 host, 2 versions, 3 signed targets | a counterexample, see section 6 |
| `document_session` | up to 3 pieces of 2 formulas and a text, ranges of up to 2 pieces; 2 revisions, 1 external identity, caches of 1 entry, both history policies | `LocalEditsAreRebuilds` (an edit in place leaves the document a new parse would give), `OutputsAreCurrent` (caches, rendered formulas and artifacts not marked stale are of the formula that bears their identity), `LatestComeFromLatest` (a bounded history keeps the origin of the latest outputs), `UniqueKeepIdentity` (a formula that is alone of its content keeps its identity through edits, moves and reconciles, unless a range that covers it is replaced by several pieces), `TypeOK` (no identity is given out twice) |
| `session_display` | 1 piece, inline and display | a counterexample, see section 6 |

`remote_store` alone runs without the deadlock check: with the index unreadable and no
good backup, every call of the store is refused, and nothing in the code repairs that.
In all other runs something can always happen: a session can be dropped, a call
can fail, a host can let go of what it holds, and a request can be refused.

### Bounds, and why they are enough

- `MaxU64 = 2` is the last value of the u64 counters (revision, generation,
  checkpoint). The code refuses to step past the last value and so does the
  model: the bound exercises the exhaustion paths. Two is the smallest value
  that has a save over a save.
- Two sessions suffice for a race; a third is a repetition, since the register
  keeps one publication inside its boundary at a time. Two stages are the least
  that have a stage made stale by another one, or a retry of the first after
  the second. A closed slot may be opened again, so two slots stand for any
  number of sessions one after the other.
- Two keys and two generations are the least with one clear. The runs have either two
  sessions or two generations, since both are too many states; that a clear of one
  session and the saves of others do not bring history back is proved
  (`HistoryStaysInGeneration`), not run.
- Three object files are needed to have a selected one, an orphan and a new one.
  `MaxRemoved = 1`: a cleanup that stops at its batch with work left.
- `MaxEpoch` and `MaxCheckpoint` are the last values of u64 counters as well. Two
  epochs are the least that show a policy coming back, or a clear after a change.
  One checkpoint number is enough to be used twice. `MaxEvents` is the limit of 1024
  events, reached with two acceptances.
- `HostDrops` is FALSE in `feedback_tokens`: a host that keeps everything can present
  any token it was ever given, and the properties are about all tokens it holds.
  The worker's registry has the store with `HostDrops` TRUE.
- `MaxToken` is the last value of the worker's counter: five tokens are an owner,
  two captures and the receipts of both.
- Three calls for two slots: one is refused, or admitted after a timed-out one has
  left. One administrator resets while calls come and go.
- Two versions are the least with an update and a rollback; the former one comes back
  by a rollback and the newer by an update. Two damages of the index file show one
  recovery after another. Two targets are old and new metadata; the counterexample
  needs a third, a revocation after both were installed.
- Three pieces have a block with two neighbours, which the scores of the matching look
  at; two equal formulas and a third one make identities compete. Two revisions
  are an edit and one that cuts at the spans the first one shifted. A range is
  replaced by up to two pieces (`MaxInserted`), the least for which a formula that is kept
  may lose its identity to one that is new (section 6). The run has one spacing, since white
  space in a formula changes its key in a cache and nothing else, and one output at a time
  (`MaxOutputs`); the theorems about the session have neither bound.
- Symmetry is used over slots and values that no property tells apart, in safety runs
  only, never in the run with liveness properties.

### Fairness

Only `PluginInvocation` states fairness (`FairSpec`). `CallerFairness`: the calling thread goes
on; its wait ends at the timeout (`recv_timeout`, registry.rs 735), and a call without
a timeout gets no promise while the plugin executes in its thread. `GuardFairness`: the
drop of a guard runs to its end once the plugin's code has returned.
`PluginFairness`: a plugin that was cancelled ends, which `docs/plugin.md` asks of cooperative
plugins; only `TimedOutSlotsReturn` needs it, `CallsReturn` holds for a plugin that hangs for
ever. Nothing is assumed of administrators, nor of the other modules: native IO of
the provider may hang, nothing in a session or a store retries by itself, and a host
need never call again.

## 4. What is proved

All theorems hold for every value of the constants, finite or not where no ASSUME says
so. The assumptions are the named ASSUMEs, which TLC evaluates in the runs.

`PreferenceTransactionsProofs`, with late writes, lost roots and replaced cores:

- `PublicationsFollow`: `Spec => [](TypeOK /\ Links)`. `LedgerSpec` is about one step,
  `Select`, which replaces the head by a candidate when the head is the expected
  record. It is correct because every candidate that can get there follows its
  expected record. That has to be known from the moment it is staged, hence
  `StageLinks` (every stage), `PublicationLinks` (every call, and the publication
  inside the boundary, also after its caller died), and `SessionLinks` (a
  session's core holds at least what its own head holds, so that the next export
  extends it). `Links` is inductive with `TypeOK`; there is one lemma per action.
- `LedgerImplemented`: `Spec => LedgerSpec`, by that invariant: `Select` is the ledger's
  `Publish`, `Vanish` its `Lose`, every other step stutters.
- `HistoryStaysInGeneration`: `Spec => []HistoryBelongsToGeneration`. The property is about the
  register; `Provenance` says the same of whatever can get there: records in a call
  or inside the boundary, stages, and sessions. An acceptance is new when it is made,
  so it is in none of them, and no step moves history without its generation.
- `FeedbackSurvives`: `Spec => LocalFeedbackKept`. An adopted save moves the head and
  leaves the session's core alone; only an adopted reset replaces it. So the invariant
  adds that a staged reset is ahead of its session's generation (`ResetsAhead`):
  adopting one leaves the generation.
- `ConsentIsCurrent`: `Spec => ConsentAtPublication`. A withdrawal after a save was
  staged leaves the stage as it is, but a commit judges the candidate again, and a
  reset, which it does not judge, is empty.
- `HeadsAgree`: `~RootMayVanish => (Spec => []NoForkedHead)`. A call publishes the stage its
  session commits, and a publication that was selected is the head until its answer is
  taken (`Known`), so what a session adopts is what the register holds. The
  assumption is needed: without a root, a session's own head is ahead of the register.
- `LossIsFinal`: `Spec => LostHistoryStaysLost`, with or without losses. Who publishes onto an
  empty slot never knew a record or brings an empty reset (`KnowsBase`), so a session
  that lost its root cannot write its history back.
- `FenceHolds`: `Spec => []FenceCoversOwnPublication`, when no root is lost and no clear is answered
  `NotCommitted` (`ClearNotCommitted`, the one step behind the counterexample of section
  6). An unfenced session that saved knows what it published: `OwnIsBelow` says that its
  own publication is the head it knows or an older record, and `OpenFence` that a session
  with a publication in doubt is fenced or about to be answered. `FenceHoldsForSaves` is
  the case of a single generation, where no reset can be staged (`ResetsAhead`) and the second
  hypothesis is not needed: for saves alone the fence is sound as it stands in the code.
- `Types`: `Spec => []TypeOK`. The slot's candidate is a record since publications follow
  their sessions (`PublicationsFollow`).

`WindowsPreferenceProviderProofs`, for any processes, records, files and batch size:

- `DisciplineKept`: `Spec => [](TypeOK /\ Discipline)`. Everything past the wait happens
  under the lock, an object is synced before it is selected, and a cleanup knows
  the selected one.
- `SelectedSurvives`: `Spec => []SelectedObjectSurvives`, from the same invariant: writing
  steps touch the object of the lock's holder only, and that is not the selected
  one before it is synced.
- `RegisterImplemented`: `Spec => RegisterSpec`. The register's head is the record in the
  object the credential names, its publication is that of the process that holds
  the lock in an exchange, and a record is selected by `WriteHead` alone. `Discipline`
  does not say enough for that, so `RefInv` adds that the lock is used by its holder
  only while it works (`LockUsed`), that each step belongs to its operation
  (`OperationsMatch`), that the head is still the expected record from the comparison
  to the selection (`HeadIsExpected`, what the lock is for) and that the object about
  to be selected holds the candidate (`ObjectIsCandidate`). One lemma per action: it
  keeps `RefInv` and is a step of the register or a stutter.
- `NothingFalseIsSaid`: `Spec => AnswersAreTrue`, from the same invariant: a publication is
  answered from what was selected under its own lock, and a load or a cleanup answers
  while it holds the lock, so that no publication is inside.
- `Types`: `Spec => []TypeOK`, a part of `DisciplineKept`.

`PreferenceFeedbackProofs`, for any stores, keys, generations, policies, candidates,
acceptances, event numbers and limits: `NoFeedbackCrosses` (`[]CapturesDoNotCross`),
`UndoFindsItsAcceptance` (`[]ReceiptsDenote`), `NumbersGrow` (`[]EventsOrdered`),
`NothingEvicted` (`Spec => HistoryKept`), `NumbersAreNames` (`[]NumbersNameSnapshots`),
`RecencyHolds` (`[]RecencyIsNewest`), `Types` (`[]TypeOK`).
All but `NothingEvicted` and `NumbersAreNames` follow from one inductive invariant, `Inv`. What the checks of the code
compare is the epoch, so the invariant says where epochs are: no token is ahead of
its store, and one that was crossed is behind it (`TokensFollow`). A receipt is
found again by its event number, so the invariant says what a number of the
current epoch denotes: only events of the receipt's own acceptance, and none
larger than the store's last (`ReceiptsName`), which an acceptance keeps because it
takes a number above the last (`EventsOrdered`) and a restore keeps because a new
owner has no tokens yet (`OwnersBorn`) and starts from an ordered snapshot
(`SnapshotsOrdered`). `RecencyHolds` says that the recency the ranker gets is that of the newest surviving acceptance:
a key that has one has a last one (`LastPlace`, by the well-foundedness of the naturals),
and numbers grow up to it.
The other two need to know how a store moves (`Grows`): into a
later generation, or on in its own with every event and undo kept and no smaller
checkpoint number. Exported snapshots therefore stay below their store
(`SnapshotsBelow`), and a number above the store's last names no snapshot yet.

`WorkerPreferencesProofs`, for any tokens and limit: `RegistryHoldsLiveTokens`
(`[]TokensLive`: every entry of the worker's tables is one that the store still accepts),
`NoTokenTwice` (`Spec => TokensNotReused`), `WorkerImplementsStores` (`Spec => Stores!Spec`: the
registry with its single store is an execution of `PreferenceFeedback`, which it instantiates,
so its theorems are theorems of the worker). The lemmas of the store are used through the
instance `Proved`, whose assumptions are proved first. The invariant says that entries are captures
and receipts of the current epoch, that the two tables share no token, and that the
counter is above each (`Counted`, `TokensLive`, `ReceiptsApart`): a change of policy and a clear
empty both tables exactly when they move the epoch.

`PluginInvocationProofs`, for any finite set of calls, any administrators and any limit:
`SlotsImplemented` (`Spec => SlotsSpec`), `TokensFollow` (`[](TypeOK /\ TokensFollowGuards)`),
`CleanedUp` (`Spec => CleanedUpAlone`), `ResetSound` (`Spec => ResetMissesNewcomersOnly`). The invariant
`Inv` counts: `outstanding` is the number of calls that hold a slot (`CountExact`), tokens
belong to guards (`TokensExact`), a call before its start has no worker and nobody is
inside an unregistered plugin (`PlacesAgree`), and between the two steps of a reset every
holder is a newcomer (`NewcomersCover`, because the reset began with a count of zero).
Every step is a quiet one, an admission, a release, a move of a guard, or an
administrator's; one lemma for each kind.

`RemotePluginStoreProofs` begins with the lemmas on which the store and the registry rest:
install, switch, rollback, revoke and doctor make a sound record of a sound record. Then,
for any processes, versions and number of faults: `SoundIndexes`
(`[]ReadableIsSound`), `RecoveredRecent` (`[]RecoversRecent`) and `IndexImplemented` (`Spec => ImplementsIndex`).
`IInv` says that whoever is in the middle of a write holds the lock (`LockHeld`), what the
two files are to the last two indexes at each of its steps (`FilesFollow`: while the
backup is being overwritten, the index file is still the last one, unless it was
damaged), that every index and draft is sound (`AllSound`), and that a draft is one operation
on the index it will replace (`DraftsFollow`, as long as no fault has hit the file).
Replacing the file is then that operation of `PluginIndex`, every other step stutters or
moves a package.

`PluginRegistryProofs`, for any clients, hosts and versions: `NewestCached` (`[]CacheIsNewest`),
`RevokedStaysDown` (`Spec => RevokedNeverRuns`), `OnlyRollback` (`Spec => OnlyRollbackLeadsBack`),
`RegistryTypes` (`[]RegistryTypeOK`). The
check before an execution does not look at the record's revocation. It is
enough because a sound index has no revoked record whose active version is
verified, and no operation makes one; so type correctness, with soundness in it, carries
the property through every step of the store. `MinimumKept` (the least version accepted is
the newest accepted) carries the cache.

`DocumentSessionProofs`, for any pieces, identities, formats, lengths, cache sizes and
policies: `RebuildsHold` (`[]LocalEditsAreRebuilds`), `OutputsHold` (`[]OutputsAreCurrent`),
`Types` (`[]TypeOK`), `LatestHold` (`Spec /\ [][BindsOnce]_vars => []LatestComeFromLatest`) and
`IdentitiesKept` (`Spec => UniqueKeepIdentity`).

- The parser, the matching, the removal of entries and the descendants of an artifact are
  recursive functions on an initial segment of the naturals. `Recursion` says that such a
  function exists and is a run of its step (`IsRun`); what holds along a run is proved by
  `Induction`, from the well-foundedness of the naturals with the set of good numbers as data.
- `ParsedTiles`: a parse tiles the source, that is, its blocks lie end to end, each covers its
  pieces, and no two paragraphs meet. `TilingUnique`: a source has one such tiling. An edit in
  place keeps a tiling one (`EditedTiles`), so it leaves what a parse would give. This holds
  until a paragraph is emptied; what remains true of the spans then, and what the next parse
  needs, is in `DocOK`, the inductive invariant, with the identities: distinct, and below the
  allocator or bound by a host.
- `MatchedIs`: each new block goes on an old block of its kind, and no old block is
  taken twice. Together with `AllocatedIs` (fresh identities are above all others) this
  keeps identities apart. An edit is then summed up as `Editing(ids)`: a formula whose
  identity is not among the invalidated ids has the content it had, up to white space and
  delimiters. Everything below rests on that.
- `LineageOK`: what is not stale is of the present content (`Fresh`) and reached from its latest
  source (`Covered`), which an invalidation needs in order to find what it must mark, and
  what is stale is older than the revision (`StaleBefore`), so that a new artifact is never
  born stale. `CachesOK`: entries are of the formula that bears their identity.
- `LatestHold` needs the other direction: an invalidation marks nothing else. That is so while
  edges of the lineage stay within one identity (`Inward`), which the rebinding of
  section 6 breaks and `BindsOnce` excludes.
- `IdentitiesKept` needs to know which old block the greedy matching takes for a new one
  (`AllChoose`: one of the same content when one is left, another only where the two overlap).
  `PlacedOK`, a second invariant, says that each formula block is the piece at its span,
  also after a paragraph was emptied in place, so that spans can stand for pieces. A formula
  outside the range then meets no new formula but its own (`StandsApart`), and one that a range
  covers meets at most one, as long as the range is replaced by one piece or none
  (`RangeIdentity`). A move permutes the pieces: as many old blocks as new ones have each content, so
  by counting (`NoRoom`) every formula goes on a block of its own content, and no overlap is consulted
  (`StructuralIdentity`). An edit in place keeps all identities (`LocalIdentity`).

The sessions are proved over the register of the trait, the Windows provider is
proved to implement that register with `WritesOutliveCalls = FALSE`; together they implement
the ledger. The registry is proved over the atomic index, which the store is proved
to implement while no fault hits its file.

Only model-checked: `CallsReturn` and `TimedOutSlotsReturn`, since liveness under fairness is out
of the prover's reach. Not claimed: `FenceCoversOwnPublication` and `NoForkedHead` where the root may
be lost. A session that finds no root learns that its publication is gone, not that it was
made, so both are false there by what they say; what a loss may not do is
`LostHistoryStaysLost`.

## 5. Assumptions about the environment

- A `CredWriteW` that the system completes after its process was killed and its
  lock released is not modelled: it would be a late write, which the register
  knows and the provider does not exclude.
- The credential is deleted from outside only while no publication holds the
  lock (`Vanish`).
- Power loss is modelled in the provider when no call is in progress; with `Kill` before
  it, this is a power loss at any step. Replacing the credential is atomic and durable
  when it returns. The remote store is modelled without power loss: a flushed file
  stays, a rename is atomic and lasts.
- `registries.json` is taken as written atomically under its lock; its own backup is not
  modelled. The store's index file and its backup are read in one step.

## 6. What the work found

- **The fence after a retried reset** (run `transactions_fence`). `commit` sets the
  fence before it calls the provider because "even an unwinding provider may have
  selected the record ... only a definitive outcome clears it"
  (transactions.rs 578-579). A reset stage may be committed while the session is
  fenced. If its first commit is answered `Indeterminate` after its record was
  selected, and its second one `NotCommitted` (the provider could not take its
  lock), line 590 lifts the fence although the first publication was never
  resolved. The session may then stage ordinary saves over a head that is gone.
  The compare-and-exchange still refuses them, so `LedgerSpec` and `NoForkedHead`
  hold; what is lost is the promise that doubt suspends saves until it is resolved.
- **A revoked version that is not the active one** (run `registry_revoked`). A refresh
  compares the revoked target with the active version only (registry_manager.rs 255), and
  nothing else looks at the cached metadata later. If the version before the active one is
  revoked, a rollback and an enable make it active again and it executes, although
  `docs/v3/registry-operator-guide.md` line 43 says that clients re-check revocation
  before every invocation.
- **An inline formula that becomes a display formula** (run `session_display`). Content hash and
  cache keys leave `display_mode` out (session.rs 1007, 1175-1189), so an edit from `$x$` to
  `$$x$$` invalidates nothing and the next conversion is a hit that returns the output of
  the inline formula.

Observations without a run of their own:

- A reset staged while there was no root can refound a root that was lost meanwhile, even
  after the session adopted a record. It is empty, and `LostHistoryStaysLost` is stated
  accordingly.
- "Clear is always available" (formula_completion_preferences.rs 199) has one
  exception in the code, the exhausted policy epoch (210); storage sessions replace
  the core on a reset and do not meet it.
- `reset_quarantine` (plugin/src/registry.rs 291-303) looks at the count and lifts the quarantine
  in two steps. A call admitted between them may time out, and its quarantine is lifted while
  its worker still executes. `ResetMissesNewcomersOnly` is what remains true.
- A paragraph emptied in place has an empty span that does not grow again when text is put
  back, until the next reconcile; `LocalEditsAreRebuilds` is stated for documents without such
  a paragraph.
- Edits in place are a rebuild only for text that parses as one block of its kind: a `$` in a
  paragraph, or an empty formula, changes what a new parse would give. Deleting or moving
  the middle of `$x$A$y$` joins `$x$` and `$y$` to `$x$$y$`.
- `replace_formula_source` (session.rs 403-447) edits the source before it finds that the block is not a
  formula (435) and returns an error with the document left as it was.
- After a bounded compaction the latest source of a node that was removed stays for ever
  (`latest_artifact_ids` is not purged), and edits of paragraphs alone do not compact.
- When one edit replaces a range by several formulas, the greedy matching (session.rs 1049) takes
  the new ones in their order, and one without a counterpart takes any unused old formula
  it overlaps: replacing `$x$` by `$y$$x$` gives `$y$` the identity of `$x$`, and `$x$` a fresh
  one. `UniqueKeepIdentity` names this as the only way in which a unique formula loses its identity.
- An identity that a host binds to a block, releases by binding another one to that block, and
  then binds to a second block (session.rs 158-221, allowed while there are no outputs) keeps
  its edge to the first block in the lineage. An edit of the second block then marks outputs
  of the first one stale although they are current. `LatestComeFromLatest` is checked
  with one external identity and proved for hosts that bind no identity the lineage knows
  (`BindsOnce`).

## 7. Not modelled, and candidates

- Of the modelled components: profile, ACL and token checks and the first creation of the
  private root (Windows provider); staging directories, extraction and
  verification of archives, `store.rs`, several plugin ids (remote store); several
  registries, signatures, expiry (registry manager); the order of several plugins, permissions
  (in-process registry); `host.rs` and remembered approvals (WASI host); dependency outputs, metrics,
  edits of a block of the wrong kind, stale revisions (incremental session); provenance,
  traces and crops (artifact graph).
- Not modelled at all: conversion, AST, syntax beyond the delimiters, drawing, image,
  inference and export, which are pure functions on unbounded data and most of the
  repository's lines; runtime backends, whose state is in native libraries; measurement
  tools; the process host, which is sequential around one child process.
- Candidates for further modules: the worker's session table and cancellation, the engine's
  jobs, runtime owner threads and model registry, the model manager's activation, handle tables
  of the C and WASM adapters, remembered approvals of the WASI host.
- Candidates for further theorems: which outputs may be marked stale needlessly when a host
  binds an identity again.
