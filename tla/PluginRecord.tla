----------------------------- MODULE PluginRecord -----------------------------
(***************************************************************************)
(* The record of one plugin in the index of the remote plugin store, and what *)
(* the store's operations make of it (plugin/src/remote_plugin_store.rs).       *)
(*                                                                         *)
(* Versions are numbered in semver order; 0 stands for the record or the       *)
(* last-known-good version that does not exist.                              *)
(***************************************************************************)
EXTENDS Naturals

CONSTANT Versions    \* the versions of the plugin
ASSUME VersionsCount == Versions \subseteq Nat \ {0}

Trusts == {"absent", "verified", "quarantined", "revoked"}
Entries == [trust : Trusts, enabled : BOOLEAN, active : BOOLEAN]
Indexes == [active : Versions \cup {0}, lastKnownGood : Versions \cup {0},
            revoked : BOOLEAN, versions : [Versions -> Entries]]

NoEntry == [trust |-> "absent", enabled |-> FALSE, active |-> FALSE]
EmptyIndex == [active |-> 0, lastKnownGood |-> 0, revoked |-> FALSE,
               versions |-> [v \in Versions |-> NoEntry]]

PackageStates == {"missing", "whole", "broken"}

Recorded(i) == i.active # 0
InIndex(i, v) == i.versions[v].trust # "absent"
WithEntry(i, v, entry) == [i EXCEPT !.versions[v] = entry]
ActiveEntry(i) == i.versions[i.active]
-----------------------------------------------------------------------------
(* The operations on a record *)

\* install: refused once the plugin is revoked, and below the active version.
InstallableAnyVersion(i, v) == ~i.revoked

Installable(i, v) == ~i.revoked /\ v >= i.active

Installed(i, v) ==
  [i EXCEPT
     !.active = v,
     !.lastKnownGood = IF i.active \in {0, v} THEN @ ELSE i.active,
     !.versions = [w \in Versions |->
        IF w = v THEN [trust |-> "verified", enabled |-> FALSE, active |-> TRUE]
                 ELSE [@[w] EXCEPT !.active = FALSE]]]

\* set_enabled.
SwitchableUnverified(i, on) == Recorded(i) /\ ~i.revoked

Switchable(i, on) ==
  Recorded(i) /\ ~i.revoked /\ (on => ActiveEntry(i).trust = "verified")

Switched(i, on) == WithEntry(i, i.active, [ActiveEntry(i) EXCEPT !.enabled = on])

\* rollback: the former version returns with the switch and the trust it had.
ReturnableThoughRevoked(i) == Recorded(i) /\ i.lastKnownGood # 0

Returnable(i) == Recorded(i) /\ ~i.revoked /\ i.lastKnownGood # 0

Returned(i) ==
  [i EXCEPT
     !.active = i.lastKnownGood,
     !.lastKnownGood = i.active,
     !.versions[i.lastKnownGood].active = TRUE,
     !.versions[i.active].active = FALSE]

\* revoke.
RevokedInNameOnly(i) == [i EXCEPT !.revoked = TRUE]

Revoked(i) ==
  [WithEntry(i, i.active, [ActiveEntry(i) EXCEPT !.trust = "revoked", !.enabled = FALSE])
     EXCEPT !.revoked = TRUE]

\* doctor: what it finds broken is quarantined and switched off.
Broken(i, directories) == {v \in Versions : InIndex(i, v) /\ directories[v] # "whole"}

Diagnosed(i, sick) ==
  [i EXCEPT !.versions = [v \in Versions |->
     IF v \in sick THEN [@[v] EXCEPT !.trust = "quarantined", !.enabled = FALSE] ELSE @[v]]]

\* What a record may say: the flags agree with the pointer, only a verified
\* version is on, and a revoked plugin's active version is neither.
Sound(i) ==
  /\ Recorded(i) => InIndex(i, i.active)
  /\ i.lastKnownGood # 0 =>
       Recorded(i) /\ InIndex(i, i.lastKnownGood) /\ i.lastKnownGood # i.active
  /\ \A v \in Versions : i.versions[v].active <=> v = i.active
  /\ \A v \in Versions : i.versions[v].enabled => i.versions[v].trust = "verified"
  /\ i.revoked => Recorded(i) /\ ActiveEntry(i).trust \in {"revoked", "quarantined"}
=============================================================================
