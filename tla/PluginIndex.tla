------------------------------ MODULE PluginIndex ------------------------------
(***************************************************************************)
(* The index of the remote plugin store, for one plugin id, as its callers    *)
(* think of it: every operation changes it in one step, from what it is.       *)
(* RemotePluginStore implements it with a lock and two files; PluginRegistry   *)
(* is built on it.                                                          *)
(***************************************************************************)
EXTENDS PluginRecord

VARIABLES
  index,       \* the record of the plugin in the index
  packages,    \* its version directories under packages/
  intact       \* no fault has hit the index file

indexVars == <<index, packages, intact>>

IndexInit ==
  /\ index = EmptyIndex
  /\ packages = [v \in Versions |-> "missing"]
  /\ intact = TRUE

Becomes(i) == index' = i /\ UNCHANGED <<packages, intact>>

Install(v) == Installable(index, v) /\ Becomes(Installed(index, v))
Switch(on) == Switchable(index, on) /\ Becomes(Switched(index, on))
Return == Returnable(index) /\ Becomes(Returned(index))
Revoke == Recorded(index) /\ Becomes(Revoked(index))
Diagnose(sick) ==
  sick # {} /\ sick \subseteq Broken(index, packages) /\ Becomes(Diagnosed(index, sick))

\* An install puts a version's directory in place before it is in the index.
Place(v) ==
  /\ packages[v] = "missing"
  /\ packages' = [packages EXCEPT ![v] = "whole"]
  /\ UNCHANGED <<index, intact>>

\* A directory is lost, or its files do not verify any more.
Damage(v) ==
  /\ packages' = [packages EXCEPT ![v] = IF @ = "missing" THEN @ ELSE "broken"]
  /\ UNCHANGED <<index, intact>>

Lose(v) ==
  /\ packages' = [packages EXCEPT ![v] = "missing"]
  /\ UNCHANGED <<index, intact>>

\* After a fault of the index file nothing is promised here.
Fault == intact' = FALSE /\ index' \in Indexes /\ UNCHANGED packages
Beyond == ~intact /\ ~intact' /\ index' \in Indexes /\ packages' \in [Versions -> PackageStates]

IndexNext ==
  \/ \E v \in Versions : Install(v) \/ Place(v) \/ Damage(v) \/ Lose(v)
  \/ \E on \in BOOLEAN : Switch(on)
  \/ \E sick \in SUBSET Versions : Diagnose(sick)
  \/ Return \/ Revoke \/ Fault \/ Beyond

IndexSpec == IndexInit /\ [][IndexNext]_indexVars
=============================================================================
