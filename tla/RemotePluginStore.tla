--------------------------- MODULE RemotePluginStore ---------------------------
(***************************************************************************)
(* The remote plugin store (plugin/src/remote_plugin_store.rs): processes     *)
(* that change remote-index.json under remote-store.lock, with a copy of the  *)
(* former index in remote-index.json.bak.  Any process may be killed, or have *)
(* a system call fail, between two steps; the index file and the package      *)
(* directories may be damaged from outside.                                 *)
(*                                                                         *)
(* The temporary file is written and flushed in the step that renames it: it  *)
(* is never read back.  Staging directories live and die under the lock.     *)
(***************************************************************************)
EXTENDS PluginRecord

CONSTANTS
  Processes,       \* callers of the store
  NoProcess,       \* nobody holds the lock
  MaxFaults        \* bound on the faults of the index file

ASSUME NobodyIsNoProcess == NoProcess \notin Processes
ASSUME FaultsCount == MaxFaults \in Nat

VARIABLES
  primary,         \* remote-index.json
  backup,          \* remote-index.json.bak
  directories,        \* the version directories
  lock,            \* holder of remote-store.lock
  step,            \* how far the call of each process is
  draft,           \* the index each process is about to write
  faults,          \* how often the index file was damaged
  latest, before   \* history: the index last written, and the one written before it

files == <<primary, backup>>
history == <<latest, before>>
vars == <<files, directories, lock, step, draft, faults, history>>

Files == [state : {"absent", "whole", "unreadable"}, index : Indexes]
WholeFile(i) == [state |-> "whole", index |-> i]
UnreadableFile == [state |-> "unreadable", index |-> EmptyIndex]

LockedSteps == {"place", "backup", "copy", "replace", "unlock"}
Steps == {"idle", "verified"} \cup LockedSteps

TypeOK ==
  /\ primary \in Files /\ backup \in Files
  /\ directories \in [Versions -> PackageStates]
  /\ lock \in Processes \cup {NoProcess}
  /\ step \in [Processes -> Steps]
  /\ draft \in [Processes -> Indexes]
  /\ faults \in 0..MaxFaults
  /\ latest \in Indexes /\ before \in Indexes

Init ==
  /\ primary = [state |-> "absent", index |-> EmptyIndex]
  /\ backup = [state |-> "absent", index |-> EmptyIndex]
  /\ directories = [v \in Versions |-> "missing"]
  /\ lock = NoProcess
  /\ step = [p \in Processes |-> "idle"]
  /\ draft = [p \in Processes |-> EmptyIndex]
  /\ faults = 0
  /\ latest = EmptyIndex /\ before = EmptyIndex

\* load_index_with_recovery: an absent index is empty, an unreadable one is
\* looked for in the backup.
Readable == primary.state = "unreadable" => backup.state = "whole"
Loaded == IF primary.state = "unreadable" THEN backup.index ELSE primary.index

Drafts(p, i) == draft' = [draft EXCEPT ![p] = i]
At(p, s) == step[p] = s
Goes(p, s) == step' = [step EXCEPT ![p] = s]
-----------------------------------------------------------------------------
(* The calls, as far as the index their holder is to write *)

\* set_enabled verifies the active package before it takes the lock.
Verify(p) ==
  /\ At(p, "idle")
  /\ Readable /\ Recorded(Loaded) /\ directories[Loaded.active] = "whole"
  /\ Goes(p, "verified")
  /\ UNCHANGED <<files, directories, lock, draft, faults, history>>

LockIsShared == TRUE

LockIsFree == lock = NoProcess

\* The lock is taken and the index loaded; a request it does not admit ends there.
Opens(p, s) ==
  /\ LockIsFree /\ Readable
  /\ lock' = p
  /\ Goes(p, s)
  /\ UNCHANGED <<files, directories, faults, history>>

OpensInstall(p, v) ==
  /\ At(p, "idle") /\ Opens(p, "place")
  /\ Installable(Loaded, v)
  /\ Drafts(p, Installed(Loaded, v))

OpensSwitch(p, on) ==
  /\ At(p, IF on THEN "verified" ELSE "idle") /\ Opens(p, "backup")
  /\ Switchable(Loaded, on)
  /\ Drafts(p, Switched(Loaded, on))

OpensRollback(p) ==
  /\ At(p, "idle") /\ Opens(p, "backup")
  /\ Returnable(Loaded) /\ directories[Loaded.lastKnownGood] # "missing"
  /\ Drafts(p, Returned(Loaded))

OpensRevoke(p) ==
  /\ At(p, "idle") /\ Opens(p, "backup")
  /\ Recorded(Loaded)
  /\ Drafts(p, Revoked(Loaded))

\* doctor writes only if it found something broken.
OpensDoctor(p) ==
  /\ At(p, "idle") /\ Opens(p, "backup")
  /\ Broken(Loaded, directories) # {}
  /\ Drafts(p, Diagnosed(Loaded, Broken(Loaded, directories)))
-----------------------------------------------------------------------------
(* The holder of the lock writes *)

\* The rename of the staged package, or the check of the directory that is there.
PutInPlace(p) ==
  /\ At(p, "place") /\ directories[draft[p].active] # "broken"
  /\ directories' = [directories EXCEPT ![draft[p].active] = "whole"]
  /\ Goes(p, "backup")
  /\ UNCHANGED <<files, lock, draft, faults, history>>

\* write_index: fs::copy truncates the backup, fills it, and it is flushed.
BacksUp(p, needed) ==
  /\ At(p, "backup")
  /\ IF needed THEN Goes(p, "copy") /\ backup' = UnreadableFile
     ELSE Goes(p, "replace") /\ UNCHANGED backup
  /\ UNCHANGED <<primary, directories, lock, draft, faults, history>>

StartFirstBackup(p) == BacksUp(p, primary.state # "absent" /\ backup.state = "absent")

StartBackup(p) == BacksUp(p, primary.state # "absent")

CopyBackup(p) ==
  /\ At(p, "copy")
  /\ backup' = primary
  /\ Goes(p, "replace")
  /\ UNCHANGED <<primary, directories, lock, draft, faults, history>>

\* write_index: the new index is flushed and renamed over the primary file.
Replace(p) ==
  /\ At(p, "replace")
  /\ primary' = WholeFile(draft[p])
  /\ latest' = draft[p] /\ before' = latest
  /\ Goes(p, "unlock")
  /\ UNCHANGED <<backup, directories, lock, draft, faults>>

\* A call ends: its answer, an early return, a failed system call or the end of
\* its process.  The lock goes with it.
Ends(p) ==
  /\ ~At(p, "idle")
  /\ Goes(p, "idle")
  /\ lock' = IF lock = p THEN NoProcess ELSE lock
  /\ Drafts(p, EmptyIndex)
  /\ UNCHANGED <<files, directories, faults, history>>
-----------------------------------------------------------------------------
(* Outside *)

DamageIndex ==
  /\ faults < MaxFaults /\ primary.state = "whole"
  /\ primary' = UnreadableFile
  /\ faults' = faults + 1
  /\ UNCHANGED <<backup, directories, lock, step, draft, history>>

DamagePackage(v) ==
  /\ directories[v] = "whole"
  /\ \E state \in {"broken", "missing"} : directories' = [directories EXCEPT ![v] = state]
  /\ UNCHANGED <<files, lock, step, draft, faults, history>>

Step(p) ==
  \/ Verify(p)
  \/ \E v \in Versions : OpensInstall(p, v)
  \/ \E on \in BOOLEAN : OpensSwitch(p, on)
  \/ OpensRollback(p) \/ OpensRevoke(p) \/ OpensDoctor(p)
  \/ PutInPlace(p) \/ StartBackup(p) \/ CopyBackup(p) \/ Replace(p)
  \/ Ends(p)

Next == (\E p \in Processes : Step(p)) \/ DamageIndex \/ (\E v \in Versions : DamagePackage(v))

Spec == Init /\ [][Next]_vars
-----------------------------------------------------------------------------
(* Properties *)

Index == INSTANCE PluginIndex WITH
  index <- primary.index, packages <- directories, intact <- faults = 0

\* As long as the index file is not damaged, every change of the index is one
\* operation applied to the index it replaces: no process overwrites another's
\* revocation, update or switch, whoever is killed where (135-258).
ImplementsIndex == Index!IndexSpec

\* What a damaged index is recovered to is at most one operation old (553-581).
RecoversRecent == Readable => Loaded \in {latest, before}

\* No index that can be read, in either file, has a version switched on that is not
\* verified, or a revoked plugin whose active version could run (310, 464).
ReadableIsSound ==
  \A file \in {primary, backup} : file.state = "whole" => Sound(file.index)
=============================================================================
