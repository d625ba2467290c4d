------------------------- MODULE PluginRegistryProofs -------------------------
(***************************************************************************)
(* The safety of a trusted registry in front of the plugin store, for any    *)
(* number of clients, hosts, versions and signed targets.                    *)
(***************************************************************************)
EXTENDS PluginRegistry, RemotePluginStoreProofs

\* What a refresh accepted last is the least that is accepted, and what is cached.
MinimumKept == registry.minimum = highest /\ registry.cache \in {0, highest}

RegistryInv == RegistryTypeOK /\ MinimumKept

\* A version is a number, and so is what stands for none.
LEMMA ActiveIsNumber ==
  ASSUME RegistryTypeOK
  PROVE  index.active \in Versions \cup {0} /\ index.active \in Nat
<1>1. index.active \in Versions \cup {0}
  BY DEF RegistryTypeOK, Indexes
<1>2. \A v \in Versions \cup {0} : v \in Nat
  BY VersionsCount
<1> QED
  BY <1>1, <1>2

LEMMA InitRegistryInv == RegistryInit => RegistryInv
<1> SUFFICES ASSUME RegistryInit PROVE RegistryInv
  OBVIOUS
<1>1. RegistryTypeOK
  BY EmptySound, TargetsCount
  DEF RegistryInit, IndexInit, RegistryTypeOK, PackageStates, Registries, NoRegistry, ClientSteps, IdleClient,
      InactiveHost
<1>2. MinimumKept
  BY DEF RegistryInit, MinimumKept, NoRegistry
<1> QED
  BY <1>1, <1>2 DEF RegistryInv

\* What an operation of the store makes of a sound index is a sound index.
LEMMA StoreKeepsSound ==
  ASSUME RegistryTypeOK,
         \/ \E on \in BOOLEAN : Switch(on)
         \/ Return
         \/ Revoke
         \/ \E sick \in SUBSET Versions : Diagnose(sick)
  PROVE  /\ index' \in Indexes /\ Sound(index')
         /\ \/ index'.active = index.active
            \/ index'.active = index.lastKnownGood /\ index'.lastKnownGood = index.active
<1> index \in Indexes /\ Sound(index)
  BY DEF RegistryTypeOK
<1>1. CASE \E on \in BOOLEAN : Switch(on)
  <2>1. PICK on \in BOOLEAN : Switch(on)
    BY <1>1
  <2>2. index' = Switched(index, on) /\ Switchable(index, on)
    BY <2>1 DEF Switch, Becomes
  <2>3. Switched(index, on).active = index.active
    BY DEF Switched, WithEntry, Indexes
  <2> QED
    BY <2>2, <2>3, SwitchedSound
<1>2. CASE Return
  BY <1>2, ReturnedSound DEF Return, Becomes
<1>3. CASE Revoke
  BY <1>3, RevokedSound DEF Revoke, Becomes
<1>4. CASE \E sick \in SUBSET Versions : Diagnose(sick)
  <2>1. PICK sick \in SUBSET Versions : Diagnose(sick)
    BY <1>4
  <2>2. index' = Diagnosed(index, sick) /\ \A v \in sick : InIndex(index, v)
    BY <2>1 DEF Diagnose, Becomes, Broken
  <2> QED
    BY <2>2, DiagnosedSound
<1> QED
  BY <1>1, <1>2, <1>3, <1>4

\* What an administrator, or damage to a directory, does to the index.
LEMMA AdministrateKeeps ==
  ASSUME RegistryTypeOK, Administrate
  PROVE  /\ index' \in Indexes /\ Sound(index')
         /\ packages' \in [Versions -> PackageStates] /\ intact' = intact
         /\ \/ index'.active = index.active
            \/ index'.active = index.lastKnownGood /\ index'.lastKnownGood = index.active
<1>1. CASE \/ \E on \in BOOLEAN : Switch(on)
           \/ Return
           \/ Revoke
           \/ \E sick \in SUBSET Versions : Diagnose(sick)
  <2>1. UNCHANGED <<packages, intact>>
    BY <1>1 DEF Switch, Return, Revoke, Diagnose, Becomes
  <2> QED
    BY <1>1, <2>1, StoreKeepsSound DEF RegistryTypeOK
<1>2. CASE \E v \in Versions : packages[v] = "whole" /\ (Damage(v) \/ Lose(v))
  BY <1>2 DEF Damage, Lose, RegistryTypeOK, PackageStates
<1> QED
  BY <1>1, <1>2 DEF Administrate

\* A client between two locks.
LEMMA ClientTyped ==
  ASSUME NEW c \in Clients, NEW s \in ClientSteps, NEW target \in 0..MaxTargets,
         RegistryTypeOK, ClientGoes(c, s, target), s # "idle" => target # 0
  PROVE  /\ client' \in [Clients -> [step : ClientSteps, target : 0..MaxTargets]]
         /\ \A d \in Clients : client'[d].step # "idle" => client'[d].target # 0
BY DEF ClientGoes, RegistryTypeOK

LEMMA RegistrySteps ==
  ASSUME RegistryInv, Add \/ Remove \/ Trust
  PROVE  RegistryInv' /\ index' = index /\ host' = host
<1>1. CASE Add
  <2>1. RegistryTypeOK'
    BY <1>1 DEF RegistryInv, RegistryTypeOK, Add, OnRegistry, indexVars, Registries, NoRegistry
  <2>2. MinimumKept'
    BY <1>1 DEF RegistryInv, MinimumKept, Add, OnRegistry, NoRegistry
  <2> QED
    BY <1>1, <2>1, <2>2 DEF RegistryInv, Add, OnRegistry, indexVars
<1>2. CASE Remove
  <2>1. RegistryTypeOK'
    BY <1>2, TargetsCount DEF RegistryInv, RegistryTypeOK, Remove, OnRegistry, indexVars, Registries, NoRegistry
  <2>2. MinimumKept'
    BY <1>2 DEF MinimumKept, Remove, OnRegistry, NoRegistry
  <2> QED
    BY <1>2, <2>1, <2>2 DEF RegistryInv, Remove, OnRegistry, indexVars
<1>3. CASE Trust
  <2>1. RegistryTypeOK'
    <3>1. registry' = Trusted(registry) /\ registry \in Registries /\ 0 \in 0..MaxTargets
          /\ UNCHANGED <<index, packages, intact, signed, client, host, highest, applied>>
      BY <1>3, TargetsCount DEF RegistryInv, RegistryTypeOK, Trust, OnRegistry, indexVars
    <3>2. registry' \in Registries
      BY <3>1 DEF Registries, Trusted
    <3> QED
      BY <3>1, <3>2 DEF RegistryInv, RegistryTypeOK
  <2>2. MinimumKept'
    BY <1>3 DEF RegistryInv, RegistryTypeOK, Registries, MinimumKept, Trust, OnRegistry, Trusted
  <2> QED
    BY <1>3, <2>1, <2>2 DEF RegistryInv, Trust, OnRegistry, indexVars
<1> QED
  BY <1>1, <1>2, <1>3

LEMMA RefreshStep ==
  ASSUME RegistryInv, NEW c \in Clients, NEW t \in TargetVersions, Refresh(c, t)
  PROVE  RegistryInv' /\ index' = index /\ host' = host
<1>1. /\ registry' = [registry EXCEPT !.minimum = t, !.cache = t]
      /\ t \in Nat \ {0} /\ t >= registry.minimum /\ t \in 0..MaxTargets
      /\ highest' = (IF t > highest THEN t ELSE highest) /\ applied' = 0
      /\ ClientGoes(c, "refreshed", t)
      /\ UNCHANGED <<indexVars, signed, host>>
  BY TargetsCount DEF Refresh, Acceptable, TargetVersions
<1>2. registry'.minimum = t /\ registry'.cache = t /\ registry' \in Registries
  BY <1>1 DEF RegistryInv, RegistryTypeOK, Registries
<1>3. highest' = t
  <2>1. highest \in Nat /\ t \in Nat /\ t >= highest
    BY <1>1, TargetsCount DEF RegistryInv, MinimumKept, RegistryTypeOK
  <2> QED
    BY <2>1, <1>1
<1>4. RegistryTypeOK'
  <2>1. /\ client' \in [Clients -> [step : ClientSteps, target : 0..MaxTargets]]
        /\ \A d \in Clients : client'[d].step # "idle" => client'[d].target # 0
    BY <1>1, ClientTyped DEF RegistryInv, ClientSteps
  <2> QED
    BY <1>1, <1>2, <1>3, <2>1, TargetsCount DEF RegistryInv, RegistryTypeOK, indexVars
<1> QED
  BY <1>1, <1>2, <1>3, <1>4 DEF RegistryInv, MinimumKept, indexVars

\* The steps of a client that leave the registry alone.
LEMMA ClientSteps1 ==
  ASSUME RegistryInv, NEW c \in Clients,
         LooksUp(c) \/ FindsNothing(c) \/ Select(c) \/ Download(c) \/ Stops(c)
  PROVE  RegistryInv' /\ index' = index /\ host' = host
<1>1. UNCHANGED <<index, packages, intact, signed, registry, highest, host>>
  BY DEF LooksUp, FindsNothing, RefreshEnds, Select, Download, Stops, indexVars, trusting
<1>2. \E s \in ClientSteps, target \in 0..MaxTargets :
         ClientGoes(c, s, target) /\ (s # "idle" => target # 0)
  <2>1. client[c].target \in 0..MaxTargets /\ registry.cache \in 0..MaxTargets
        /\ 0 \in 0..MaxTargets
    BY TargetsCount DEF RegistryInv, RegistryTypeOK, Registries
  <2>2. client[c].step # "idle" => client[c].target # 0
    BY DEF RegistryInv, RegistryTypeOK
  <2>3. CASE LooksUp(c)
    BY <2>1, <2>2, <2>3 DEF LooksUp, ClientAt, ClientSteps
  <2>4. CASE FindsNothing(c)
    BY <2>1, <2>4 DEF FindsNothing, RefreshEnds, ClientSteps
  <2>5. CASE Select(c)
    BY <2>1, <2>5 DEF Select, ClientSteps
  <2>6. CASE Download(c)
    BY <2>1, <2>2, <2>6 DEF Download, ClientAt, ClientSteps
  <2>7. CASE Stops(c)
    BY <2>1, <2>7 DEF Stops, ClientSteps
  <2> QED
    BY <2>3, <2>4, <2>5, <2>6, <2>7
<1>3. applied' \in 0..MaxTargets
  BY DEF RegistryInv, RegistryTypeOK, LooksUp, FindsNothing, RefreshEnds, Select, Download, Stops
<1>4. RegistryTypeOK'
  BY <1>1, <1>2, <1>3, ClientTyped DEF RegistryInv, RegistryTypeOK
<1> QED
  BY <1>1, <1>4 DEF RegistryInv, MinimumKept

LEMMA RevocationStep ==
  ASSUME RegistryInv, NEW c \in Clients, RevokesFound(c)
  PROVE  RegistryInv' /\ index'.active = index.active /\ host' = host
<1>1. index' \in Indexes /\ Sound(index') /\ index'.active = index.active
  BY RevokedSound DEF RevokesFound, RegistryInv, RegistryTypeOK
<1>2. /\ UNCHANGED <<packages, intact, signed, registry, highest, host>>
      /\ ClientGoes(c, "idle", 0) /\ applied' = client[c].target
  BY DEF RevokesFound, RefreshEnds, trusting
<1>3. RegistryTypeOK'
  <2>1. 0 \in 0..MaxTargets /\ "idle" \in ClientSteps /\ client[c].target \in 0..MaxTargets
    BY TargetsCount DEF ClientSteps, RegistryInv, RegistryTypeOK
  <2>2. /\ client' \in [Clients -> [step : ClientSteps, target : 0..MaxTargets]]
        /\ \A d \in Clients : client'[d].step # "idle" => client'[d].target # 0
    BY <1>2, <2>1, ClientTyped DEF RegistryInv
  <2> QED
    BY <1>1, <1>2, <2>1, <2>2 DEF RegistryInv, RegistryTypeOK
<1> QED
  BY <1>1, <1>2, <1>3 DEF RegistryInv, MinimumKept

LEMMA InstallStep ==
  ASSUME RegistryInv, NEW c \in Clients, StoreInstall(c)
  PROVE  RegistryInv' /\ ~(index'.active < index.active) /\ host' = host
<1> DEFINE v == signed[client[c].target].version
<1>1. client[c].target \in TargetVersions
  BY DEF StoreInstall, ClientAt, RegistryInv, RegistryTypeOK, TargetVersions
<1>2. v \in Versions
  BY <1>1 DEF RegistryInv, RegistryTypeOK, Targets
<1>3. /\ index' = Installed(index, v) /\ Installable(index, v)
      /\ packages' = [packages EXCEPT ![v] = "whole"]
      /\ ClientGoes(c, "idle", 0)
      /\ UNCHANGED <<intact, signed, registry, highest, host, applied>>
  BY DEF StoreInstall, trusting
<1>4. index' \in Indexes /\ Sound(index') /\ index'.active = v
  BY <1>2, <1>3, InstalledSound DEF RegistryInv, RegistryTypeOK
<1>5. v >= index.active /\ v \in Nat /\ index.active \in Nat
  BY <1>2, <1>3, VersionsCount, ActiveIsNumber DEF Installable, RegistryInv
<1>6. RegistryTypeOK'
  <2>1. packages' \in [Versions -> PackageStates]
    BY <1>3 DEF RegistryInv, RegistryTypeOK, PackageStates
  <2>2. 0 \in 0..MaxTargets /\ "idle" \in ClientSteps
    BY TargetsCount DEF ClientSteps
  <2>3. /\ client' \in [Clients -> [step : ClientSteps, target : 0..MaxTargets]]
        /\ \A d \in Clients : client'[d].step # "idle" => client'[d].target # 0
    BY <1>3, <2>2, ClientTyped DEF RegistryInv
  <2> QED
    BY <1>3, <1>4, <2>1, <2>3 DEF RegistryInv, RegistryTypeOK
<1> QED
  BY <1>3, <1>4, <1>5, <1>6 DEF RegistryInv, MinimumKept

LEMMA HostSteps ==
  ASSUME RegistryInv, NEW h \in Hosts, Activate(h) \/ Execute(h) \/ Finish(h)
  PROVE  RegistryInv' /\ index' = index
<1>1. UNCHANGED <<index, packages, intact, signed, registry, highest, client, applied>>
  BY DEF Activate, Execute, Finish, indexVars, trusting
<1>2. host' \in [Hosts -> [version : Versions \cup {0}, running : BOOLEAN]]
  <2>1. /\ host \in [Hosts -> [version : Versions \cup {0}, running : BOOLEAN]]
        /\ index.active \in Versions \cup {0}
    BY ActiveIsNumber DEF RegistryInv, RegistryTypeOK
  <2>2. \/ host' = [host EXCEPT ![h].version = index.active]
        \/ host' = [host EXCEPT ![h].running = TRUE]
        \/ host' = [host EXCEPT ![h].running = FALSE]
    BY DEF Activate, Execute, Finish
  <2> QED
    BY <2>1, <2>2
<1>3. RegistryTypeOK'
  BY <1>1, <1>2 DEF RegistryInv, RegistryTypeOK
<1> QED
  BY <1>1, <1>3 DEF RegistryInv, MinimumKept

LEMMA AdministrateStep ==
  ASSUME RegistryInv, Administrate
  PROVE  RegistryInv' /\ host' = host
<1>1. /\ UNCHANGED <<signed, registry, highest, client, host, applied>>
  BY DEF Administrate, trusting
<1>2. RegistryTypeOK'
  BY <1>1, AdministrateKeeps DEF RegistryInv, RegistryTypeOK
<1> QED
  BY <1>1, <1>2 DEF RegistryInv, MinimumKept

LEMMA NextRegistryInv == RegistryInv /\ [RegistryNext]_registryVars => RegistryInv'
<1> SUFFICES ASSUME RegistryInv, [RegistryNext]_registryVars PROVE RegistryInv'
  OBVIOUS
<1>1. CASE Add \/ Remove \/ Trust
  BY <1>1, RegistrySteps
<1>2. ASSUME NEW c \in Clients, ClientStep(c) PROVE RegistryInv'
  <2>1. CASE \E t \in TargetVersions : Refresh(c, t)
    BY <2>1, RefreshStep
  <2>2. CASE RefreshOffline(c)
    <3>1. registry.cache \in TargetVersions
      BY <2>2 DEF RefreshOffline, RegistryInv, RegistryTypeOK, Registries, TargetVersions
    <3> QED
      BY <2>2, <3>1, RefreshStep DEF RefreshOffline
  <2>3. CASE LooksUp(c) \/ FindsNothing(c) \/ Select(c) \/ Download(c) \/ Stops(c)
    BY <2>3, ClientSteps1
  <2>4. CASE RevokesFound(c)
    BY <2>4, RevocationStep
  <2>5. CASE StoreInstall(c)
    BY <2>5, InstallStep
  <2> QED
    BY <1>2, <2>1, <2>2, <2>3, <2>4, <2>5 DEF ClientStep
<1>3. CASE Administrate
  BY <1>3, AdministrateStep
<1>4. CASE \E h \in Hosts : Activate(h) \/ Execute(h) \/ Finish(h)
  BY <1>4, HostSteps
<1>5. CASE UNCHANGED registryVars
  <2>1. UNCHANGED <<index, packages, intact, signed, registry, highest, client, host, applied>>
    BY <1>5 DEF registryVars, indexVars, trusting
  <2> QED
    BY <2>1 DEF RegistryInv, RegistryTypeOK, MinimumKept
<1> QED
  BY <1>1, <1>2, <1>3, <1>4, <1>5 DEF RegistryNext

LEMMA RegistryInvariance == RegistrySpec => []RegistryInv
BY InitRegistryInv, NextRegistryInv, PTL DEF RegistrySpec

\* Every state of the specification has the type the code gives it, and the index
\* of the store is sound.
THEOREM RegistryTypes == RegistrySpec => []RegistryTypeOK
BY RegistryInvariance, PTL DEF RegistryInv

\* Metadata older than what was accepted once is never cached again: the minimum
\* versions outlive a new trusted root.
THEOREM NewestCached == RegistrySpec => []CacheIsNewest
<1>1. RegistryInv => CacheIsNewest
  BY DEF RegistryInv, MinimumKept, CacheIsNewest
<1> QED
  BY <1>1, RegistryInvariance, PTL

LEMMA StepRunsUnrevoked ==
  ASSUME RegistryInv, [RegistryNext]_registryVars, NEW h \in Hosts, Starts(h)
  PROVE  ~index.revoked
<1>1. PICK k \in Hosts : Activate(k) \/ Execute(k) \/ Finish(k)
  <2>1. host' # host
    BY DEF Starts
  <2>2. ~UNCHANGED registryVars
    BY <2>1 DEF registryVars
  <2>3. ASSUME NEW c \in Clients PROVE ~ClientStep(c)
    BY <2>1 DEF ClientStep, Refresh, RefreshOffline, LooksUp, FindsNothing, RevokesFound,
       RefreshEnds, Select, Download, StoreInstall, Stops
  <2>4. ~Add /\ ~Remove /\ ~Trust /\ ~Administrate
    BY <2>1 DEF Add, Remove, Trust, OnRegistry, Administrate
  <2> QED
    BY <2>2, <2>3, <2>4 DEF RegistryNext
<1>2. Execute(k) /\ k = h
  BY <1>1 DEF Starts, Activate, Execute, Finish, RegistryInv, RegistryTypeOK
<1>3. Recorded(index) /\ ActiveEntry(index).trust = "verified"
  BY <1>2 DEF Execute, StillEnabled
<1> QED
  BY <1>3 DEF RegistryInv, RegistryTypeOK, Sound

\* A revoked plugin never executes again, although execute looks only at the active
\* version: every way to an index that is revoked has taken that version's trust.
THEOREM RevokedStaysDown == RegistrySpec => RevokedNeverRuns
<1>1. RegistryInv /\ [RegistryNext]_registryVars => [\A h \in Hosts : Starts(h) => ~index.revoked]_registryVars
  BY StepRunsUnrevoked
<1> QED
  BY <1>1, RegistryInvariance, PTL DEF RegistrySpec, RevokedNeverRuns

LEMMA StepLeadsBack ==
  ASSUME RegistryInv, [RegistryNext]_registryVars, index'.active < index.active
  PROVE  index'.active = index.lastKnownGood /\ index'.lastKnownGood = index.active
<1>1. index.active \in Nat
  BY ActiveIsNumber DEF RegistryInv
<1>2. index'.active # index.active
  BY <1>1
<1>3. ASSUME NEW c \in Clients PROVE ~ClientStep(c)
  BY <1>2, InstallStep, RevocationStep
  DEF ClientStep, Refresh, RefreshOffline, LooksUp, FindsNothing, Select, Download, Stops, indexVars
<1>4. ~Add /\ ~Remove /\ ~Trust /\ ~UNCHANGED registryVars
      /\ ~(\E h \in Hosts : Activate(h) \/ Execute(h) \/ Finish(h))
  BY <1>2, HostSteps, RegistrySteps DEF registryVars, indexVars
<1>5. Administrate
  BY <1>3, <1>4 DEF RegistryNext
<1> QED
  BY <1>2, <1>5, AdministrateKeeps DEF RegistryInv

\* However the downloads and refreshes of the clients interleave, only a rollback
\* leads to an older version, and to none but the version before.
THEOREM OnlyRollback == RegistrySpec => OnlyRollbackLeadsBack
<1>1. RegistryInv /\ [RegistryNext]_registryVars =>
        [index'.active < index.active =>
           /\ index'.active = index.lastKnownGood
           /\ index'.lastKnownGood = index.active]_registryVars
  BY StepLeadsBack
<1> QED
  BY <1>1, RegistryInvariance, PTL DEF RegistrySpec, OnlyRollbackLeadsBack
=============================================================================
