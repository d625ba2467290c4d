---------------------------- MODULE PluginRegistry ----------------------------
(***************************************************************************)
(* A trusted plugin registry, the remote plugin store behind it and the hosts *)
(* that run the plugin (plugin/src/registry_manager.rs, signed_registry.rs,    *)
(* plugin-wasi/src/activation.rs), for one plugin id and one registry.         *)
(*                                                                         *)
(* The store's operations are those of PluginIndex, one step each; what the    *)
(* manager does between them without a lock is in steps of its own.  A process *)
(* may be killed or fail in between.  Which metadata the registry has signed   *)
(* is fixed from the start, a client may be served any of it at any time: the  *)
(* latest, or older metadata from a cache on the way.  Each of the three       *)
(* online roles advances with the targets, so one number stands for their      *)
(* versions.                                                               *)
(***************************************************************************)
EXTENDS PluginIndex

CONSTANTS
  Clients,         \* processes that install, refresh and administrate
  Hosts,           \* activated components (ActivatedRemotePlugin)
  MaxTargets       \* bound on the targets versions the registry signs

ASSUME TargetsCount == MaxTargets \in Nat \ {0}

VARIABLES
  signed,          \* the signed targets, by targets version
  registry,        \* the registry in registries.json
  client,          \* what each client is doing between two locks
  host,            \* what each host has activated and whether it runs
  highest,         \* history: the newest targets accepted since the registry was added
  applied          \* history: the targets the last refresh has seen through, if it has ended

trusting == <<registry, highest>>
registryVars == <<indexVars, signed, trusting, client, host, applied>>

TargetVersions == 1..MaxTargets
Targets == [version : Versions, revoked : BOOLEAN]
Registries == [trust : {"none", "unverified", "trusted"}, minimum : 0..MaxTargets,
               cache : 0..MaxTargets]
NoRegistry == [trust |-> "none", minimum |-> 0, cache |-> 0]

ClientSteps == {"idle", "selected", "downloaded", "refreshed", "revoking"}
IdleClient == [step |-> "idle", target |-> 0]
InactiveHost == [version |-> 0, running |-> FALSE]

RegistryTypeOK ==
  /\ index \in Indexes /\ Sound(index)
  /\ packages \in [Versions -> PackageStates] /\ intact = TRUE
  /\ signed \in [TargetVersions -> Targets]
  /\ registry \in Registries
  /\ client \in [Clients -> [step : ClientSteps, target : 0..MaxTargets]]
  /\ \A c \in Clients : client[c].step # "idle" => client[c].target # 0
  /\ host \in [Hosts -> [version : Versions \cup {0}, running : BOOLEAN]]
  /\ highest \in 0..MaxTargets /\ applied \in 0..MaxTargets

RegistryInit ==
  /\ IndexInit
  /\ signed \in [TargetVersions -> Targets]
  /\ registry = NoRegistry
  /\ client = [c \in Clients |-> IdleClient]
  /\ host = [h \in Hosts |-> InactiveHost]
  /\ highest = 0 /\ applied = 0

ClientAt(c, step) == client[c].step = step
ClientGoes(c, step, target) == client' = [client EXCEPT ![c] = [step |-> step, target |-> target]]
-----------------------------------------------------------------------------
(* The registry: each operation runs under registries.lock *)

OnRegistry(new) ==
  /\ registry' = new
  /\ UNCHANGED <<indexVars, signed, client, host>>

Add ==
  /\ registry = NoRegistry
  /\ OnRegistry([NoRegistry EXCEPT !.trust = "unverified"])
  /\ UNCHANGED <<highest, applied>>

Remove ==
  /\ registry # NoRegistry
  /\ OnRegistry(NoRegistry)
  /\ highest' = 0 /\ applied' = 0

\* trust: a first root, the same root again or the next one; the cache is dropped,
\* the minimum versions stay.
TrustedAnew(r) == [NoRegistry EXCEPT !.trust = "trusted"]

Trusted(r) == [r EXCEPT !.trust = "trusted", !.cache = 0]

Trust ==
  /\ registry # NoRegistry
  /\ OnRegistry(Trusted(registry))
  /\ UNCHANGED <<highest, applied>>

\* refresh: what was accepted before is the least that is accepted; the offline
\* refresh takes the cached metadata through the same checks.
Acceptable(t) == registry.trust = "trusted" /\ t >= registry.minimum

Refresh(c, t) ==
  /\ ClientAt(c, "idle") /\ Acceptable(t)
  /\ registry' = [registry EXCEPT !.minimum = t, !.cache = t]
  /\ highest' = IF t > highest THEN t ELSE highest
  /\ applied' = 0
  /\ ClientGoes(c, "refreshed", t)
  /\ UNCHANGED <<indexVars, signed, host>>

RefreshOffline(c) ==
  /\ registry.cache # 0
  /\ Refresh(c, registry.cache)

RefreshEnds(c) ==
  /\ applied' = client[c].target
  /\ ClientGoes(c, "idle", 0)
  /\ UNCHANGED <<packages, intact, signed, trusting, host>>

\* After the lock: the active version is compared with the revoked target ...
FindsRevoked(c) ==
  LET target == signed[client[c].target]
  IN target.revoked /\ Recorded(index) /\ index.active = target.version

LooksUp(c) ==
  /\ ClientAt(c, "refreshed") /\ FindsRevoked(c)
  /\ ClientGoes(c, "revoking", client[c].target)
  /\ UNCHANGED <<indexVars, signed, trusting, host, applied>>

FindsNothing(c) ==
  /\ ClientAt(c, "refreshed") /\ ~FindsRevoked(c)
  /\ RefreshEnds(c)
  /\ UNCHANGED index

\* ... and then the plugin is revoked, whatever version is active by now.
RevokesFound(c) ==
  /\ ClientAt(c, "revoking") /\ Recorded(index)
  /\ index' = Revoked(index)
  /\ RefreshEnds(c)
-----------------------------------------------------------------------------
(* Installing from the cached metadata *)

\* select_target: a target that is cached, verified and not revoked.
Select(c) ==
  /\ ClientAt(c, "idle")
  /\ registry.trust = "trusted" /\ registry.cache # 0 /\ ~signed[registry.cache].revoked
  /\ ClientGoes(c, "selected", registry.cache)
  /\ UNCHANGED <<indexVars, signed, trusting, host, applied>>

\* The target against the installed version, which the store is asked for, and
\* the download.
Download(c) ==
  /\ ClientAt(c, "selected")
  /\ signed[client[c].target].version >= index.active
  /\ ClientGoes(c, "downloaded", client[c].target)
  /\ UNCHANGED <<indexVars, signed, trusting, host, applied>>

StoreInstall(c) ==
  LET v == signed[client[c].target].version
  IN /\ ClientAt(c, "downloaded")
     /\ Installable(index, v) /\ packages[v] # "broken"
     /\ index' = Installed(index, v)
     /\ packages' = [packages EXCEPT ![v] = "whole"]
     /\ ClientGoes(c, "idle", 0)
     /\ UNCHANGED <<intact, signed, trusting, host, applied>>

\* An error or the end of the process.
Stops(c) ==
  /\ ~ClientAt(c, "idle")
  /\ ClientGoes(c, "idle", 0)
  /\ UNCHANGED <<indexVars, signed, trusting, host, applied>>
-----------------------------------------------------------------------------
(* The store's other callers, one step each under its lock *)

Administrate ==
  /\ \/ \E on \in BOOLEAN : Switch(on)
     \/ Return /\ packages[index.lastKnownGood] # "missing"
     \/ Revoke
     \/ \E sick \in SUBSET Versions : Diagnose(sick)
     \/ \E v \in Versions : packages[v] = "whole" /\ (Damage(v) \/ Lose(v))
  /\ UNCHANGED <<signed, trusting, client, host, applied>>
-----------------------------------------------------------------------------
(* The hosts *)

\* enabled_package_directory and the verification of the package.
Activate(h) ==
  /\ ~host[h].running
  /\ Recorded(index) /\ ~index.revoked
  /\ ActiveEntry(index).active /\ ActiveEntry(index).enabled
  /\ ActiveEntry(index).trust = "verified"
  /\ packages[index.active] = "whole"
  /\ host' = [host EXCEPT ![h].version = index.active]
  /\ UNCHANGED <<indexVars, signed, trusting, client, applied>>

\* execute: ensure_still_enabled asks the store for the active version alone.
StillEnabled(h) ==
  /\ Recorded(index) /\ index.active = host[h].version
  /\ ActiveEntry(index).active /\ ActiveEntry(index).enabled
  /\ ActiveEntry(index).trust = "verified"

Execute(h) ==
  /\ ~host[h].running /\ StillEnabled(h)
  /\ host' = [host EXCEPT ![h].running = TRUE]
  /\ UNCHANGED <<indexVars, signed, trusting, client, applied>>

Finish(h) ==
  /\ host[h].running
  /\ host' = [host EXCEPT ![h].running = FALSE]
  /\ UNCHANGED <<indexVars, signed, trusting, client, applied>>

ClientStep(c) ==
  \/ \E t \in TargetVersions : Refresh(c, t)
  \/ RefreshOffline(c)
  \/ LooksUp(c) \/ FindsNothing(c) \/ RevokesFound(c)
  \/ Select(c) \/ Download(c) \/ StoreInstall(c) \/ Stops(c)

RegistryNext ==
  \/ Add \/ Remove \/ Trust
  \/ \E c \in Clients : ClientStep(c)
  \/ Administrate
  \/ \E h \in Hosts : Activate(h) \/ Execute(h) \/ Finish(h)

RegistrySpec == RegistryInit /\ [][RegistryNext]_registryVars
-----------------------------------------------------------------------------
(* Properties *)

Starts(h) == ~host[h].running /\ host'[h].running

\* A plugin that was revoked never executes again, not even through a component
\* activated before, after a rollback or with a package from another update:
\* execute does not look at the record's revocation, only at the active version
\* (activation.rs:152-177).
RevokedNeverRuns == [][\A h \in Hosts : Starts(h) => ~index.revoked]_registryVars

\* Nothing but a rollback to the version before leads to an older version, however
\* refreshes and downloads of several clients interleave (150-160, 345-381).
OnlyRollbackLeadsBack ==
  [][index'.active < index.active =>
       /\ index'.active = index.lastKnownGood
       /\ index'.lastKnownGood = index.active]_registryVars

\* A registry's cached metadata is the newest it ever had accepted, even across
\* a new trusted root (170-176, 216-243).
CacheIsNewest == registry.cache # 0 => registry.cache = highest

\* A version revoked by the newest targets does not start once a refresh has seen
\* them through and no call of before is under way (252-260).
SeenThrough(v) ==
  /\ registry.cache # 0 /\ applied = registry.cache
  /\ signed[registry.cache] = [version |-> v, revoked |-> TRUE]

RevokedTargetNeverRuns ==
  [][\A h \in Hosts : Starts(h) => ~SeenThrough(host[h].version)]_registryVars
=============================================================================
