--------------------------- MODULE PluginInvocation ---------------------------
(***************************************************************************)
(* Calls of one in-process plugin (plugin/src/registry.rs, execution.rs).    *)
(*                                                                         *)
(* A call runs in the thread of its caller up to the spawn of a worker        *)
(* thread, which owns the slot and outlives the caller when it overruns its   *)
(* timeout.  The runtime state of the plugin (quarantined, outstanding, the   *)
(* cancellation tokens) consists of separate atomics and a mutex: every      *)
(* access is a step of its own.  A slot of Calls is reused once the caller    *)
(* has returned and the worker is gone.                                     *)
(***************************************************************************)
EXTENDS Naturals, FiniteSets

CONSTANTS
  Calls,           \* calls that can be in progress at once
  Admins,          \* threads that disable the plugin or reset its quarantine
  MaxConcurrent    \* max_concurrent_executions, at least 1 (145, 105)

ASSUME CallsFinite == IsFiniteSet(Calls)
ASSUME SomeSlot == MaxConcurrent \in Nat \ {0}

VARIABLES
  registered,      \* the plugin has an entry in the registry
  timed,           \* its manifest sets timeout_millis
  enabled,
  quarantined,
  outstanding,
  tokens,          \* calls whose token is in cancellation_tokens
  cancelled,       \* calls whose signal is set
  caller,          \* where the calling thread is
  worker,          \* where the thread that owns the guard is
  sent,            \* the result in the channel of a call
  admin,           \* where an administrating thread is
  newcomers        \* history: calls admitted since a reset saw no one outstanding

runtime == <<quarantined, outstanding, tokens, cancelled>>
entry == <<registered, timed>>
threads == <<caller, worker, sent>>
admins == <<admin, newcomers>>
vars == <<entry, enabled, runtime, threads, admins>>

CallerPlaces ==
  {"idle", "begin", "admit", "push", "start", "wait", "inline", "quarantine"}
WorkerPlaces == {"none", "running", "untoken", "release"}
Results == {"none", "ended", "softTimeout"}
AdminPlaces == {"idle", "cancelAll", "reset"}

TypeOK ==
  /\ registered \in BOOLEAN /\ timed \in BOOLEAN
  /\ enabled \in BOOLEAN /\ quarantined \in BOOLEAN
  /\ outstanding \in 0..MaxConcurrent
  /\ tokens \subseteq Calls /\ cancelled \subseteq Calls
  /\ caller \in [Calls -> CallerPlaces]
  /\ worker \in [Calls -> WorkerPlaces]
  /\ sent \in [Calls -> Results]
  /\ admin \in [Admins -> AdminPlaces]
  /\ newcomers \in [Admins -> SUBSET Calls]

Init ==
  /\ registered = TRUE /\ timed \in BOOLEAN
  /\ enabled = TRUE /\ quarantined = FALSE
  /\ outstanding = 0
  /\ tokens = {} /\ cancelled = {}
  /\ caller = [c \in Calls |-> "idle"]
  /\ worker = [c \in Calls |-> "none"]
  /\ sent = [c \in Calls |-> "none"]
  /\ admin = [a \in Admins |-> "idle"]
  /\ newcomers = [a \in Admins |-> {}]

CallerAt(c, p) == caller[c] = p
MovesTo(c, p) == caller' = [caller EXCEPT ![c] = p]

\* A call returns.  Under the policy DisablePlugin any failure (of the plugin, of
\* its patch, of the admission) disables it without cancelling anything (442-446).
Returns(c) ==
  /\ MovesTo(c, "idle")
  /\ enabled' \in {enabled, FALSE}

\* Calls that own a slot: a guard in the caller's hands, or in the worker's.
HoldsSlot(c) == caller[c] \in {"push", "start"} \/ worker[c] # "none"
Holders == {c \in Calls : HoldsSlot(c)}
-----------------------------------------------------------------------------
(* The calling thread *)

\* handle and handle_matching: the plugin is found enabled.
Handle(c) ==
  /\ registered /\ enabled
  /\ CallerAt(c, "idle") /\ worker[c] = "none"
  /\ MovesTo(c, "begin")
  /\ UNCHANGED <<entry, enabled, runtime, worker, sent, admins>>

\* begin: the load of quarantined.
PassQuarantine(c) ==
  /\ CallerAt(c, "begin") /\ ~quarantined
  /\ MovesTo(c, "admit")
  /\ UNCHANGED <<entry, enabled, runtime, worker, sent, admins>>

RefuseQuarantined(c) ==
  /\ CallerAt(c, "begin") /\ quarantined
  /\ Returns(c)
  /\ UNCHANGED <<entry, runtime, worker, sent, admins>>

\* begin: the update of outstanding, which fails at the limit.
SlotFree == outstanding < MaxConcurrent

Admit(c) ==
  /\ CallerAt(c, "admit") /\ SlotFree
  /\ outstanding' = outstanding + 1
  /\ MovesTo(c, "push")
  /\ newcomers' = [a \in Admins |-> IF admin[a] = "reset" THEN newcomers[a] \cup {c}
                                                          ELSE newcomers[a]]
  /\ UNCHANGED <<entry, enabled, quarantined, tokens, cancelled, worker, sent, admin>>

RefuseAtLimit(c) ==
  /\ CallerAt(c, "admit") /\ ~SlotFree
  /\ Returns(c)
  /\ UNCHANGED <<entry, runtime, worker, sent, admins>>

\* begin: the token is pushed under its mutex.
PushToken(c) ==
  /\ CallerAt(c, "push")
  /\ tokens' = tokens \cup {c}
  /\ MovesTo(c, "start")
  /\ UNCHANGED <<entry, enabled, quarantined, outstanding, cancelled, worker, sent, admins>>

\* invoke_plugin: a worker thread takes the guard; without a timeout the
\* caller's own thread executes the plugin.
Start(c) ==
  /\ CallerAt(c, "start")
  /\ worker' = [worker EXCEPT ![c] = "running"]
  /\ MovesTo(c, IF timed THEN "wait" ELSE "inline")
  /\ UNCHANGED <<entry, enabled, runtime, sent, admins>>

SpawnFailsReleasingTwice(c) ==
  /\ CallerAt(c, "start") /\ timed
  /\ outstanding' = outstanding - 1
  /\ worker' = [worker EXCEPT ![c] = "untoken"]
  /\ sent' = [sent EXCEPT ![c] = "ended"]
  /\ MovesTo(c, "inline")
  /\ UNCHANGED <<entry, enabled, quarantined, tokens, cancelled, admins>>

\* The thread cannot be spawned: the closure is dropped, and the guard with it.
SpawnFails(c) ==
  /\ CallerAt(c, "start") /\ timed
  /\ worker' = [worker EXCEPT ![c] = "untoken"]
  /\ sent' = [sent EXCEPT ![c] = "ended"]
  /\ MovesTo(c, "inline")
  /\ UNCHANGED <<entry, enabled, runtime, admins>>

\* recv_timeout: the result is there.
Receive(c) ==
  /\ CallerAt(c, "wait") /\ sent[c] # "none"
  /\ IF sent[c] = "softTimeout"
     THEN MovesTo(c, "quarantine") /\ UNCHANGED enabled
     ELSE Returns(c)
  /\ sent' = [sent EXCEPT ![c] = "none"]
  /\ UNCHANGED <<entry, runtime, worker, admins>>

TimesOutNever(c) == FALSE

TimesOutSilently(c) ==
  /\ CallerAt(c, "wait") /\ sent[c] = "none"
  /\ MovesTo(c, "quarantine")
  /\ UNCHANGED <<entry, enabled, runtime, worker, sent, admins>>

\* recv_timeout: nothing came in time, the token is cancelled.
TimesOut(c) ==
  /\ CallerAt(c, "wait") /\ sent[c] = "none"
  /\ cancelled' = cancelled \cup {c}
  /\ MovesTo(c, "quarantine")
  /\ UNCHANGED <<entry, enabled, quarantined, outstanding, tokens, worker, sent, admins>>

\* The store to quarantined, for either kind of soft timeout.
Quarantine(c) ==
  /\ CallerAt(c, "quarantine")
  /\ quarantined' = TRUE
  /\ Returns(c)
  /\ UNCHANGED <<entry, outstanding, tokens, cancelled, worker, sent, admins>>

\* The guard was dropped in the caller's own thread, which now returns.
ReturnInline(c) ==
  /\ CallerAt(c, "inline") /\ worker[c] = "none"
  /\ Returns(c)
  /\ sent' = [sent EXCEPT ![c] = "none"]
  /\ UNCHANGED <<entry, runtime, worker, admins>>

CallerStep(c) ==
  \/ PassQuarantine(c) \/ RefuseQuarantined(c) \/ Admit(c) \/ RefuseAtLimit(c)
  \/ PushToken(c) \/ Start(c) \/ SpawnFails(c)
  \/ Receive(c) \/ TimesOut(c) \/ Quarantine(c) \/ ReturnInline(c)
-----------------------------------------------------------------------------
(* The thread that executes the plugin *)

\* The result goes into the channel; a caller that has given up has dropped
\* the receiving end.
Sends(c, result) ==
  sent' = [sent EXCEPT ![c] = IF caller[c] \in {"wait", "inline"} THEN result ELSE "none"]

\* The plugin returns, fails or panics; panics are caught.
PluginEnds(c) ==
  /\ worker[c] = "running"
  /\ Sends(c, "ended")
  /\ worker' = [worker EXCEPT ![c] = "untoken"]
  /\ UNCHANGED <<entry, enabled, runtime, caller, admins>>

\* check_deadline finds its deadline passed, cancels its own token and the
\* plugin hands the error up.
PluginOverruns(c) ==
  /\ worker[c] = "running" /\ timed
  /\ Sends(c, "softTimeout")
  /\ cancelled' = cancelled \cup {c}
  /\ worker' = [worker EXCEPT ![c] = "untoken"]
  /\ UNCHANGED <<entry, enabled, quarantined, outstanding, tokens, caller, admins>>

DropTokenForgotten(c) ==
  /\ worker[c] = "untoken"
  /\ worker' = [worker EXCEPT ![c] = "release"]
  /\ UNCHANGED <<entry, enabled, runtime, caller, sent, admins>>

\* PluginExecutionGuard::drop: first the token, then the slot.
DropToken(c) ==
  /\ worker[c] = "untoken"
  /\ tokens' = tokens \ {c}
  /\ worker' = [worker EXCEPT ![c] = "release"]
  /\ UNCHANGED <<entry, enabled, quarantined, outstanding, cancelled, caller, sent, admins>>

ReleaseSlot(c) ==
  /\ worker[c] = "release"
  /\ outstanding' = outstanding - 1
  /\ cancelled' = cancelled \ {c}
  /\ worker' = [worker EXCEPT ![c] = "none"]
  /\ newcomers' = [a \in Admins |-> newcomers[a] \ {c}]
  /\ UNCHANGED <<entry, enabled, quarantined, tokens, caller, sent, admin>>

GuardStep(c) == DropToken(c) \/ ReleaseSlot(c)
WorkerStep(c) == PluginEnds(c) \/ PluginOverruns(c) \/ GuardStep(c)
-----------------------------------------------------------------------------
(* Administration *)

Enable ==
  /\ registered
  /\ enabled' = TRUE
  /\ UNCHANGED <<entry, runtime, threads, admins>>

\* disable: the flag first, then the tokens.
Disable(a) ==
  /\ registered /\ admin[a] = "idle"
  /\ enabled' = FALSE
  /\ admin' = [admin EXCEPT ![a] = "cancelAll"]
  /\ UNCHANGED <<entry, runtime, threads, newcomers>>

CancelAll(a) ==
  /\ admin[a] = "cancelAll"
  /\ cancelled' = cancelled \cup tokens
  /\ admin' = [admin EXCEPT ![a] = "idle"]
  /\ UNCHANGED <<entry, enabled, quarantined, outstanding, tokens, threads, newcomers>>

OutstandingBelowLimit == outstanding < MaxConcurrent

\* reset_quarantine: the load of outstanding, then the store.
NoneOutstanding == outstanding = 0

SeeNoneOutstanding(a) ==
  /\ registered /\ admin[a] = "idle" /\ NoneOutstanding
  /\ admin' = [admin EXCEPT ![a] = "reset"]
  /\ newcomers' = [newcomers EXCEPT ![a] = {}]
  /\ UNCHANGED <<entry, enabled, runtime, threads>>

ResetQuarantine(a) ==
  /\ admin[a] = "reset"
  /\ quarantined' = FALSE
  /\ admin' = [admin EXCEPT ![a] = "idle"]
  /\ newcomers' = [newcomers EXCEPT ![a] = {}]
  /\ UNCHANGED <<entry, enabled, outstanding, tokens, cancelled, threads>>

\* register and unregister take &mut self: no thread is inside the registry,
\* but workers of timed-out calls may still be at work.
Exclusive ==
  /\ \A c \in Calls : CallerAt(c, "idle")
  /\ \A a \in Admins : admin[a] = "idle"

Unregister ==
  /\ registered /\ Exclusive /\ NoneOutstanding
  /\ registered' = FALSE
  /\ UNCHANGED <<timed, enabled, runtime, threads, admins>>

\* A fresh entry with a fresh runtime state.
Register ==
  /\ ~registered /\ Exclusive
  /\ registered' = TRUE
  /\ timed' \in BOOLEAN
  /\ enabled' = TRUE
  /\ quarantined' = FALSE /\ outstanding' = 0
  /\ tokens' = {} /\ cancelled' = {}
  /\ UNCHANGED <<threads, admins>>

AdminStep(a) == Disable(a) \/ CancelAll(a) \/ SeeNoneOutstanding(a) \/ ResetQuarantine(a)

Next ==
  \/ \E c \in Calls : Handle(c) \/ CallerStep(c) \/ WorkerStep(c)
  \/ \E a \in Admins : AdminStep(a)
  \/ Enable \/ Unregister \/ Register

Spec == Init /\ [][Next]_vars

\* The calling thread runs on; its wait has a deadline only with a timeout, so
\* nothing is assumed of the plugin's code there.  A worker whose plugin has
\* returned runs on as well.  TimesOut and Receive share their fairness: one
\* of them is possible as long as the caller waits.
CallerFairness == \A c \in Calls : WF_vars(CallerStep(c))
GuardFairness == \A c \in Calls : WF_vars(GuardStep(c))

\* A cooperative plugin checks its token, and ends once it is cancelled.
CooperativeEnd(c) == c \in cancelled /\ PluginEnds(c)
PluginFairness == \A c \in Calls : WF_vars(CooperativeEnd(c))

FairSpec == Spec /\ CallerFairness /\ GuardFairness /\ PluginFairness
-----------------------------------------------------------------------------
(* Properties *)

\* outstanding, updated before a guard exists and after it is gone, implements
\* a semaphore: never more than MaxConcurrent calls between admission and the
\* end of their guard, timed-out ones included.
Slots == INSTANCE ExecutionSlots WITH holders <- Holders
SlotsSpec == Slots!SlotsSpec

\* Plugin code never runs with a token that a disable cannot find, and no token
\* stays behind when its slot is free (cancel_all walks them for ever).
TokensFollowGuards ==
  /\ \A c \in Calls : worker[c] = "running" => c \in tokens
  /\ tokens \subseteq Holders

\* unregister looks at the counter only, yet the plugin is cleaned up alone:
\* no worker of a call that timed out is inside the plugin or its guard.
CleanedUpAlone ==
  [][registered /\ ~registered' => \A c \in Calls : worker[c] = "none"]_vars

\* When a reset lifts the quarantine, whoever is still executing was admitted
\* after the reset saw no one: no earlier execution is overlooked.
ResetMissesNewcomersOnly ==
  [][\A a \in Admins :
       admin[a] = "reset" /\ admin'[a] = "idle" => Holders \subseteq newcomers[a]]_vars

\* The host is not held up by a plugin that has a timeout: every call returns,
\* even if the plugin never does.
CallsReturn == \A c \in Calls : (timed /\ caller[c] # "idle") ~> caller[c] = "idle"

\* A call that timed out gives its slot back if the plugin heeds its token.
TimedOutSlotsReturn ==
  \A c \in Calls : (CallerAt(c, "quarantine") /\ HoldsSlot(c)) ~> ~HoldsSlot(c)
=============================================================================
