------------------------ MODULE RemotePluginStoreProofs ------------------------
(***************************************************************************)
(* Proofs about RemotePluginStore.  The inductive invariant says who holds    *)
(* the lock, what the two files hold at each step of its holder, that every    *)
(* index in a file or a draft is sound, and that a draft is one operation on   *)
(* the index it will replace, as long as that index was not damaged.          *)
(***************************************************************************)
EXTENDS RemotePluginStore, TLAPS

-----------------------------------------------------------------------------
(* What the operations on a record return: records, and sound ones. *)

\* The entries of a record.
LEMMA EntryOf ==
  ASSUME NEW i \in Indexes, NEW v \in Versions
  PROVE  i.versions[v] \in Entries
BY DEF Indexes

\* The empty index is a sound record (Default for RemoteStoreIndex).
LEMMA EmptySound == EmptyIndex \in Indexes /\ Sound(EmptyIndex)
<1>1. EmptyIndex \in Indexes
  BY DEF EmptyIndex, Indexes, Entries, Trusts, NoEntry
<1>2. \A v \in Versions : v # 0
  BY VersionsCount
<1> QED
  BY <1>1, <1>2 DEF EmptyIndex, Sound, Recorded, InIndex, NoEntry

\* install makes one version active, and all the others not.
LEMMA InstalledSound ==
  ASSUME NEW i \in Indexes, NEW v \in Versions, Sound(i), Installable(i, v)
  PROVE  Installed(i, v) \in Indexes /\ Sound(Installed(i, v)) /\ Installed(i, v).active = v
<1> DEFINE j == Installed(i, v)
<1>1. j \in Indexes
  BY DEF Installed, Indexes, Entries, Trusts
<1>2. /\ j.active = v /\ j.revoked = i.revoked
      /\ j.lastKnownGood = IF i.active \in {0, v} THEN i.lastKnownGood ELSE i.active
      /\ j.versions[v] = [trust |-> "verified", enabled |-> FALSE, active |-> TRUE]
      /\ \A w \in Versions \ {v} : j.versions[w] = [i.versions[w] EXCEPT !.active = FALSE]
  BY DEF Installed, Indexes, Entries
<1>3. v # 0
  BY VersionsCount
<1>4. \A w \in Versions \ {v} : /\ j.versions[w].trust = i.versions[w].trust
                               /\ j.versions[w].enabled = i.versions[w].enabled
                               /\ j.versions[w].active = FALSE
  BY <1>2 DEF Indexes, Entries
<1>5. j.lastKnownGood # 0 => Recorded(j) /\ InIndex(j, j.lastKnownGood) /\ j.lastKnownGood # j.active
  <2>1. CASE i.active \in {0, v}
    BY <2>1, <1>2, <1>4, <1>3 DEF Sound, InIndex, Recorded, Indexes
  <2>2. CASE i.active \notin {0, v}
    BY <2>2, <1>2, <1>3, <1>4 DEF Sound, InIndex, Recorded, Indexes
  <2> QED
    BY <2>1, <2>2
<1>6. \A w \in Versions : j.versions[w].active <=> w = j.active
  <2>1. j.versions[v].active = TRUE
    BY <1>2
  <2> QED
    BY <2>1, <1>2, <1>4, Zenon
<1>7. \A w \in Versions : j.versions[w].enabled => j.versions[w].trust = "verified"
  BY <1>2, <1>4 DEF Sound
<1>8. ~j.revoked
  BY <1>2 DEF Installable
<1>9. Recorded(j) => InIndex(j, j.active)
  BY <1>2 DEF InIndex
<1> QED
  BY <1>1, <1>2, <1>5, <1>6, <1>7, <1>8, <1>9 DEF Sound

\* set_enabled changes the switch of the active version only.
LEMMA SwitchedSound ==
  ASSUME NEW i \in Indexes, NEW on \in BOOLEAN, Sound(i), Switchable(i, on)
  PROVE  Switched(i, on) \in Indexes /\ Sound(Switched(i, on))
<1> DEFINE j == Switched(i, on)
<1>1. i.active \in Versions
  BY DEF Switchable, Recorded, Indexes
<1>2. j \in Indexes
  BY <1>1 DEF Switched, WithEntry, ActiveEntry, Indexes, Entries
<1>3. /\ j.active = i.active /\ j.lastKnownGood = i.lastKnownGood /\ j.revoked = i.revoked
      /\ j.versions[i.active] = [i.versions[i.active] EXCEPT !.enabled = on]
      /\ \A w \in Versions \ {i.active} : j.versions[w] = i.versions[w]
  BY <1>1 DEF Switched, WithEntry, ActiveEntry, Indexes
<1>4. \A w \in Versions : /\ j.versions[w].trust = i.versions[w].trust
                           /\ j.versions[w].active = i.versions[w].active
  <2>1. i.versions[i.active] \in Entries
    BY <1>1, EntryOf
  <2>2. /\ j.versions[i.active].trust = i.versions[i.active].trust
        /\ j.versions[i.active].active = i.versions[i.active].active
    BY <2>1, <1>3 DEF Entries
  <2> QED
    BY <2>2, <1>3
<1>5. \A w \in Versions : j.versions[w].enabled => j.versions[w].trust = "verified"
  <2>1. SUFFICES ASSUME NEW w \in Versions, j.versions[w].enabled
                 PROVE  i.versions[w].trust = "verified"
    BY <1>4
  <2>2. CASE w = i.active
    <3>1. j.versions[w].enabled = on
      BY <2>2, <1>1, <1>3 DEF Indexes, Entries
    <3> QED
      BY <3>1, <2>1, <2>2 DEF Switchable, ActiveEntry
  <2>3. CASE w # i.active
    BY <2>1, <2>3, <1>3 DEF Sound
  <2> QED
    BY <2>2, <2>3
<1>6. ~j.revoked
  BY <1>3 DEF Switchable
<1>7. \A w \in Versions : j.versions[w].active <=> w = j.active
  BY <1>3, <1>4, Zenon DEF Sound
<1>8. /\ Recorded(j) => InIndex(j, j.active)
      /\ j.lastKnownGood # 0 =>
           Recorded(j) /\ InIndex(j, j.lastKnownGood) /\ j.lastKnownGood # j.active
  BY <1>1, <1>3, <1>4 DEF Sound, InIndex, Recorded, Indexes
<1> QED
  BY <1>2, <1>5, <1>6, <1>7, <1>8 DEF Sound

\* rollback exchanges the active and the last-known-good version.
LEMMA ReturnedSound ==
  ASSUME NEW i \in Indexes, Sound(i), Returnable(i)
  PROVE  /\ Returned(i) \in Indexes /\ Sound(Returned(i))
         /\ Returned(i).active = i.lastKnownGood /\ Returned(i).lastKnownGood = i.active
<1> DEFINE j == Returned(i)
<1> DEFINE a == i.active
<1> DEFINE b == i.lastKnownGood
<1>1. a \in Versions /\ b \in Versions /\ a # b /\ a # 0 /\ b # 0
  BY VersionsCount DEF Returnable, Recorded, Indexes, Sound
<1>2. j \in Indexes
  <2>1. i.versions \in [Versions -> Entries]
    BY DEF Indexes
  <2>2. /\ [i.versions[a] EXCEPT !.active = FALSE] \in Entries
        /\ [i.versions[b] EXCEPT !.active = TRUE] \in Entries
    BY <1>1, EntryOf DEF Entries
  <2> DEFINE mid == [i.versions EXCEPT ![b].active = TRUE]
  <2>3. mid \in [Versions -> Entries] /\ mid[a] = i.versions[a]
    BY <2>1, <2>2, <1>1
  <2>4. [mid EXCEPT ![a].active = FALSE] \in [Versions -> Entries]
    BY <2>2, <2>3, <1>1
  <2>5. j.versions = [mid EXCEPT ![a].active = FALSE]
    BY DEF Returned, Indexes
  <2>6. j = [i EXCEPT !.active = b, !.lastKnownGood = a, !.versions = j.versions]
    BY <2>5 DEF Returned, Indexes
  <2> HIDE DEF j, mid
  <2> QED
    BY <2>4, <2>5, <2>6, <1>1 DEF Indexes
<1>3. /\ j.active = b /\ j.lastKnownGood = a /\ j.revoked = i.revoked
      /\ j.versions[a] = [i.versions[a] EXCEPT !.active = FALSE]
      /\ j.versions[b] = [i.versions[b] EXCEPT !.active = TRUE]
      /\ \A w \in Versions \ {a, b} : j.versions[w] = i.versions[w]
  BY <1>1 DEF Returned, Indexes
<1>4. /\ j.versions[a].active = FALSE /\ j.versions[b].active = TRUE
      /\ \A w \in Versions : /\ j.versions[w].trust = i.versions[w].trust
                             /\ j.versions[w].enabled = i.versions[w].enabled
  BY <1>1, <1>3 DEF Indexes, Entries
<1>5. \A w \in Versions : j.versions[w].active <=> w = j.active
  <2>1. \A w \in Versions \ {a, b} : ~i.versions[w].active
    BY DEF Sound
  <2> HIDE DEF j, a, b
  <2> QED
    BY <2>1, <1>1, <1>3, <1>4, Zenon
<1>6. \A w \in Versions : j.versions[w].enabled => j.versions[w].trust = "verified"
  BY <1>4 DEF Sound
<1>7. ~j.revoked
  BY <1>3 DEF Returnable
<1>8. /\ Recorded(j) => InIndex(j, j.active)
      /\ j.lastKnownGood # 0 =>
           Recorded(j) /\ InIndex(j, j.lastKnownGood) /\ j.lastKnownGood # j.active
  BY <1>1, <1>3, <1>4 DEF Sound, InIndex, Recorded
<1> QED
  BY <1>2, <1>3, <1>5, <1>6, <1>7, <1>8 DEF Sound

\* revoke leaves the plugin revoked and its active version off.
LEMMA RevokedSound ==
  ASSUME NEW i \in Indexes, Sound(i), Recorded(i)
  PROVE  Revoked(i) \in Indexes /\ Sound(Revoked(i)) /\ Revoked(i).active = i.active
<1> DEFINE j == Revoked(i)
<1> DEFINE a == i.active
<1>1. a \in Versions
  BY DEF Recorded, Indexes
<1>2. j \in Indexes
  <2> DEFINE e == i.versions[a]
  <2> DEFINE off == [[e EXCEPT !.trust = "revoked"] EXCEPT !.enabled = FALSE]
  <2>1. e \in Entries
    BY <1>1, EntryOf
  <2>2. off \in Entries
    <3> HIDE DEF e
    <3> DEFINE marked == [e EXCEPT !.trust = "revoked"]
    <3>1. marked \in Entries
      BY <2>1 DEF Entries, Trusts
    <3> HIDE DEF marked
    <3>2. [marked EXCEPT !.enabled = FALSE] \in Entries
      BY <3>1 DEF Entries
    <3> QED
      BY <3>2 DEF marked
  <2> HIDE DEF off
  <2>3. WithEntry(i, a, off) \in Indexes
    BY <1>1, <2>2 DEF WithEntry, Indexes
  <2>4. [WithEntry(i, a, off) EXCEPT !.revoked = TRUE] \in Indexes
    BY <2>3 DEF Indexes
  <2> QED
    BY <2>4 DEF off, Revoked, ActiveEntry
<1>3. /\ j.active = a /\ j.lastKnownGood = i.lastKnownGood /\ j.revoked = TRUE
      /\ j.versions[a] = [i.versions[a] EXCEPT !.trust = "revoked", !.enabled = FALSE]
      /\ \A w \in Versions \ {a} : j.versions[w] = i.versions[w]
  BY <1>1 DEF Revoked, WithEntry, ActiveEntry, Indexes
<1>4. /\ j.versions[a].trust = "revoked" /\ j.versions[a].enabled = FALSE
      /\ \A w \in Versions : j.versions[w].active = i.versions[w].active
  <2>1. i.versions[a] \in Entries
    BY <1>1, EntryOf
  <2>2. /\ j.versions[a].trust = "revoked" /\ j.versions[a].enabled = FALSE
        /\ j.versions[a].active = i.versions[a].active
    BY <2>1, <1>3 DEF Entries
  <2> QED
    BY <2>2, <1>3
<1>5. \A w \in Versions : j.versions[w].active <=> w = j.active
  <2>1. \A w \in Versions : i.versions[w].active <=> w = a
    BY DEF Sound
  <2> HIDE DEF j, a
  <2> QED
    BY <2>1, <1>3, <1>4, Zenon
<1>6. \A w \in Versions : j.versions[w].enabled => j.versions[w].trust = "verified"
  <2>1. \A w \in Versions : i.versions[w].enabled => i.versions[w].trust = "verified"
    BY DEF Sound
  <2> HIDE DEF j, a
  <2>2. ~j.versions[a].enabled /\ \A w \in Versions \ {a} : j.versions[w] = i.versions[w]
    BY <1>3, <1>4
  <2> QED
    BY <2>1, <2>2, Zenon
<1>7. /\ Recorded(j) => InIndex(j, j.active)
      /\ j.lastKnownGood # 0 =>
           Recorded(j) /\ InIndex(j, j.lastKnownGood) /\ j.lastKnownGood # j.active
  BY <1>1, <1>3, <1>4 DEF Sound, InIndex, Recorded, Indexes
<1>8. j.revoked => Recorded(j) /\ ActiveEntry(j).trust \in {"revoked", "quarantined"}
  BY <1>3, <1>4 DEF Recorded, ActiveEntry
<1> QED
  BY <1>2, <1>3, <1>5, <1>6, <1>7, <1>8 DEF Sound

\* doctor takes trust away, it gives none.
LEMMA DiagnosedSound ==
  ASSUME NEW i \in Indexes, NEW sick \in SUBSET Versions, Sound(i),
         \A v \in sick : InIndex(i, v)
  PROVE  /\ Diagnosed(i, sick) \in Indexes /\ Sound(Diagnosed(i, sick))
         /\ Diagnosed(i, sick).active = i.active
<1> DEFINE j == Diagnosed(i, sick)
<1>1. j \in Indexes
  BY DEF Diagnosed, Indexes, Entries, Trusts
<1>2. /\ j.active = i.active /\ j.lastKnownGood = i.lastKnownGood /\ j.revoked = i.revoked
      /\ \A w \in sick : j.versions[w] =
           [i.versions[w] EXCEPT !.trust = "quarantined", !.enabled = FALSE]
      /\ \A w \in Versions \ sick : j.versions[w] = i.versions[w]
  BY DEF Diagnosed, Indexes
<1>3. /\ \A w \in sick : /\ j.versions[w].trust = "quarantined"
                          /\ j.versions[w].enabled = FALSE
      /\ \A w \in Versions : j.versions[w].active = i.versions[w].active
  <2>1. \A w \in sick : i.versions[w] \in Entries
    BY EntryOf
  <2>2. \A w \in sick : /\ j.versions[w].trust = "quarantined"
                        /\ j.versions[w].enabled = FALSE
                        /\ j.versions[w].active = i.versions[w].active
    BY <2>1, <1>2 DEF Entries
  <2> QED
    BY <2>2, <1>2
<1>4. \A w \in Versions : j.versions[w].active <=> w = j.active
  BY <1>2, <1>3, Zenon DEF Sound
<1>5. \A w \in Versions : j.versions[w].enabled => j.versions[w].trust = "verified"
  BY <1>2, <1>3 DEF Sound
<1>6. \A w \in Versions : InIndex(i, w) => InIndex(j, w)
  BY <1>2, <1>3 DEF InIndex
<1>7. /\ Recorded(j) => InIndex(j, j.active)
      /\ j.lastKnownGood # 0 =>
           Recorded(j) /\ InIndex(j, j.lastKnownGood) /\ j.lastKnownGood # j.active
  BY <1>2, <1>6 DEF Sound, Recorded, Indexes
<1>8. j.revoked => Recorded(j) /\ ActiveEntry(j).trust \in {"revoked", "quarantined"}
  <2>1. SUFFICES ASSUME j.revoked
                 PROVE  Recorded(j) /\ ActiveEntry(j).trust \in {"revoked", "quarantined"}
    OBVIOUS
  <2>2. i.active \in Versions /\ ActiveEntry(i).trust \in {"revoked", "quarantined"}
    BY <2>1, <1>2 DEF Sound, Recorded, Indexes
  <2>3. CASE i.active \in sick
    BY <2>2, <2>3, <1>2, <1>3, VersionsCount DEF Recorded, ActiveEntry
  <2>4. CASE i.active \notin sick
    BY <2>2, <2>4, <1>2, VersionsCount DEF Recorded, ActiveEntry
  <2> QED
    BY <2>3, <2>4
<1> QED
  BY <1>1, <1>2, <1>4, <1>5, <1>7, <1>8 DEF Sound

-----------------------------------------------------------------------------
(* The invariant *)

LockHeld == \A p \in Processes : step[p] \in LockedSteps => lock = p

\* What the files hold: an absent file is an empty index, the primary file the last
\* index written, and the backup one of the last two.
FilesFollow ==
  /\ primary.state = "absent" =>
       primary.index = EmptyIndex /\ backup.state = "absent" /\ latest = EmptyIndex
  /\ primary.state = "whole" => primary.index = latest
  /\ backup.state = "whole" => backup.index \in {latest, before}
  /\ faults = 0 => primary.state # "unreadable"
  /\ \A p \in Processes : step[p] = "replace" /\ backup.state = "whole" => backup.index = latest

AllSound ==
  /\ Sound(primary.index) /\ Sound(backup.index)
  /\ \A p \in Processes : Sound(draft[p])

\* The index j is one operation on the index i, with the directories dirs.
InstallOf(j, i) == \E v \in Versions : Installable(i, v) /\ j = Installed(i, v)

Follows(j, i, dirs) ==
  \/ InstallOf(j, i)
  \/ \E on \in BOOLEAN : Switchable(i, on) /\ j = Switched(i, on)
  \/ Returnable(i) /\ j = Returned(i)
  \/ Recorded(i) /\ j = Revoked(i)
  \/ \E sick \in SUBSET Versions :
       sick # {} /\ sick \subseteq Broken(i, dirs) /\ j = Diagnosed(i, sick)

DraftsFollow ==
  faults = 0 =>
    \A p \in Processes :
      /\ step[p] = "place" => InstallOf(draft[p], primary.index)
      /\ step[p] \in {"backup", "copy", "replace"} =>
           Follows(draft[p], primary.index, directories)

PlacingVersion == \A p \in Processes : step[p] = "place" => draft[p].active \in Versions

IInv == TypeOK /\ LockHeld /\ FilesFollow /\ AllSound /\ PlacingVersion /\ DraftsFollow

-----------------------------------------------------------------------------
LEMMA InitInv == Init => IInv
<1> SUFFICES ASSUME Init PROVE IInv
  OBVIOUS
<1>1. TypeOK
  BY EmptySound, FaultsCount DEF Init, TypeOK, Files, Steps, PackageStates
<1>2. LockHeld /\ FilesFollow /\ PlacingVersion /\ DraftsFollow
  BY DEF Init, LockHeld, FilesFollow, PlacingVersion, DraftsFollow, LockedSteps
<1>3. AllSound
  BY EmptySound DEF Init, AllSound
<1> QED
  BY <1>1, <1>2, <1>3 DEF IInv

\* What a process reads is a sound record.
LEMMA LoadedSound ==
  ASSUME IInv
  PROVE  Loaded \in Indexes /\ Sound(Loaded)
BY DEF IInv, TypeOK, AllSound, Loaded, Files

\* What every request makes of the index it read.
OpensWith(p, s, j) ==
  /\ Opens(p, s) /\ Drafts(p, j)
  /\ Sound(j) /\ Follows(j, Loaded, directories)
  /\ s = "place" => InstallOf(j, Loaded) /\ j.active \in Versions

LEMMA OpensDraft ==
  ASSUME IInv, NEW p \in Processes,
         \/ \E v \in Versions : OpensInstall(p, v)
         \/ \E on \in BOOLEAN : OpensSwitch(p, on)
         \/ OpensRollback(p) \/ OpensRevoke(p) \/ OpensDoctor(p)
  PROVE  \E j \in Indexes, s \in {"place", "backup"} : OpensWith(p, s, j)
<1>0. Loaded \in Indexes /\ Sound(Loaded)
  BY LoadedSound
<1>1. ASSUME NEW v \in Versions, OpensInstall(p, v)
      PROVE  \E j \in Indexes, s \in {"place", "backup"} : OpensWith(p, s, j)
  <2>1. /\ Installed(Loaded, v) \in Indexes /\ Sound(Installed(Loaded, v))
        /\ Installed(Loaded, v).active = v
    BY <1>0, <1>1, InstalledSound DEF OpensInstall
  <2> QED
    BY <2>1, <1>1 DEF OpensInstall, Follows, InstallOf, OpensWith
<1>2. ASSUME NEW on \in BOOLEAN, OpensSwitch(p, on)
      PROVE  \E j \in Indexes, s \in {"place", "backup"} : OpensWith(p, s, j)
  BY <1>0, <1>2, SwitchedSound DEF OpensSwitch, Follows, OpensWith
<1>3. ASSUME OpensRollback(p)
      PROVE  \E j \in Indexes, s \in {"place", "backup"} : OpensWith(p, s, j)
  BY <1>0, <1>3, ReturnedSound DEF OpensRollback, Follows, OpensWith
<1>4. ASSUME OpensRevoke(p)
      PROVE  \E j \in Indexes, s \in {"place", "backup"} : OpensWith(p, s, j)
  BY <1>0, <1>4, RevokedSound DEF OpensRevoke, Follows, OpensWith
<1>5. ASSUME OpensDoctor(p)
      PROVE  \E j \in Indexes, s \in {"place", "backup"} : OpensWith(p, s, j)
  <2> DEFINE sick == Broken(Loaded, directories)
  <2>1. sick \in SUBSET Versions /\ \A v \in sick : InIndex(Loaded, v)
    BY DEF Broken
  <2>2. Diagnosed(Loaded, sick) \in Indexes /\ Sound(Diagnosed(Loaded, sick))
    BY <1>0, <2>1, DiagnosedSound
  <2> QED
    BY <2>1, <2>2, <1>5 DEF OpensDoctor, Follows, OpensWith
<1> QED
  BY <1>1, <1>2, <1>3, <1>4, <1>5
-----------------------------------------------------------------------------
(* The invariant, action by action *)

\* A directory that was damaged since leaves a draft of doctor what it was.
LEMMA FollowsStays ==
  ASSUME NEW i, NEW j, NEW d, NEW e, Broken(i, d) \subseteq Broken(i, e), Follows(j, i, d)
  PROVE  Follows(j, i, e)
BY DEF Follows

\* With the lock free nobody is in the middle of a write.
LEMMA FreeLock ==
  ASSUME IInv, lock = NoProcess
  PROVE  \A p \in Processes : step[p] \in {"idle", "verified"}
BY NobodyIsNoProcess DEF IInv, LockHeld, TypeOK, Steps

\* The holder of the lock is the only process in the middle of a write.
LEMMA OneHolder ==
  ASSUME IInv, NEW p \in Processes, step[p] \in LockedSteps
  PROVE  lock = p /\ \A q \in Processes \ {p} : step[q] \in {"idle", "verified"}
BY DEF IInv, LockHeld, TypeOK, Steps

LEMMA OpensInv ==
  ASSUME IInv, NEW p \in Processes, NEW s \in {"place", "backup"}, NEW j \in Indexes,
         OpensWith(p, s, j)
  PROVE  IInv'
<1>1. /\ lock = NoProcess /\ lock' = p /\ Readable
      /\ step' = [step EXCEPT ![p] = s] /\ draft' = [draft EXCEPT ![p] = j]
      /\ UNCHANGED <<primary, backup, directories, faults, latest, before>>
  BY DEF OpensWith, Opens, LockIsFree, Goes, Drafts, files, history
<1>2. \A q \in Processes \ {p} : step'[q] \in {"idle", "verified"} /\ draft'[q] = draft[q]
  BY <1>1, FreeLock DEF IInv, TypeOK
<1>3. step'[p] = s /\ draft'[p] = j
  BY <1>1 DEF IInv, TypeOK
<1>4. TypeOK'
  BY <1>1 DEF IInv, TypeOK, Steps, LockedSteps
<1>5. LockHeld' /\ FilesFollow'
  BY <1>1, <1>2, <1>3 DEF IInv, LockHeld, FilesFollow, LockedSteps
<1>6. AllSound' /\ PlacingVersion'
  BY <1>1, <1>2, <1>3 DEF IInv, AllSound, PlacingVersion, OpensWith
<1>7. DraftsFollow'
  <2>1. SUFFICES ASSUME faults = 0
                 PROVE  /\ s = "place" => InstallOf(j, primary.index)
                        /\ Follows(j, primary.index, directories)
    BY <1>1, <1>2, <1>3 DEF DraftsFollow
  <2>2. Loaded = primary.index
    BY <2>1 DEF IInv, FilesFollow, Loaded
  <2> QED
    BY <2>2 DEF OpensWith
<1> QED
  BY <1>4, <1>5, <1>6, <1>7 DEF IInv

LEMMA VerifyInv ==
  ASSUME IInv, NEW p \in Processes, Verify(p)
  PROVE  IInv'
<1>1. /\ step' = [step EXCEPT ![p] = "verified"] /\ step[p] = "idle"
      /\ UNCHANGED <<primary, backup, directories, lock, draft, faults, latest, before>>
  BY DEF Verify, Goes, At, files, history
<1>2. /\ step'[p] = "verified"
      /\ \A q \in Processes \ {p} : step'[q] = step[q]
  BY <1>1 DEF IInv, TypeOK
<1> QED
  BY <1>1, <1>2 DEF IInv, TypeOK, LockHeld, FilesFollow, AllSound, PlacingVersion,
                    DraftsFollow, Steps, LockedSteps

LEMMA PlaceInv ==
  ASSUME IInv, NEW p \in Processes, PutInPlace(p)
  PROVE  IInv'
<1> DEFINE v == draft[p].active
<1>1. /\ step[p] = "place" /\ step' = [step EXCEPT ![p] = "backup"]
      /\ directories' = [directories EXCEPT ![v] = "whole"]
      /\ UNCHANGED <<primary, backup, lock, draft, faults, latest, before>>
  BY DEF PutInPlace, Goes, At, files, history
<1>2. step'[p] = "backup" /\ \A q \in Processes \ {p} : step'[q] = step[q]
  BY <1>1 DEF IInv, TypeOK
<1>3. \A q \in Processes \ {p} : step[q] \in {"idle", "verified"}
  BY <1>1, OneHolder DEF LockedSteps
<1>4. TypeOK'
  BY <1>1 DEF IInv, TypeOK, Steps, LockedSteps, PackageStates
<1>5. LockHeld' /\ FilesFollow' /\ AllSound' /\ PlacingVersion'
  BY <1>1, <1>2 DEF IInv, LockHeld, FilesFollow, AllSound, PlacingVersion, LockedSteps
<1>6. DraftsFollow'
  BY <1>1, <1>2, <1>3 DEF IInv, DraftsFollow, Follows
<1> QED
  BY <1>4, <1>5, <1>6 DEF IInv

LEMMA StartBackupInv ==
  ASSUME IInv, NEW p \in Processes, StartBackup(p)
  PROVE  IInv'
<1> DEFINE s == IF primary.state # "absent" THEN "copy" ELSE "replace"
<1>1. /\ step[p] = "backup" /\ step' = [step EXCEPT ![p] = s]
      /\ backup' = IF primary.state # "absent" THEN UnreadableFile ELSE backup
      /\ UNCHANGED <<primary, directories, lock, draft, faults, latest, before>>
  BY DEF StartBackup, BacksUp, Goes, At, files, history
<1>2. step'[p] = s /\ \A q \in Processes \ {p} : step'[q] = step[q]
  BY <1>1 DEF IInv, TypeOK
<1>3. \A q \in Processes \ {p} : step[q] \in {"idle", "verified"}
  BY <1>1, OneHolder DEF LockedSteps
<1>4. UnreadableFile \in Files /\ UnreadableFile.state = "unreadable"
      /\ Sound(UnreadableFile.index)
  BY EmptySound DEF UnreadableFile, Files
<1>5. TypeOK'
  BY <1>1, <1>4 DEF IInv, TypeOK, Steps, LockedSteps
<1>6. LockHeld' /\ AllSound' /\ PlacingVersion'
  BY <1>1, <1>2, <1>4 DEF IInv, LockHeld, AllSound, PlacingVersion, LockedSteps
<1>7. FilesFollow'
  BY <1>1, <1>2, <1>3, <1>4 DEF IInv, FilesFollow
<1>8. DraftsFollow'
  BY <1>1, <1>2, <1>3 DEF IInv, DraftsFollow
<1> QED
  BY <1>5, <1>6, <1>7, <1>8 DEF IInv

LEMMA CopyBackupInv ==
  ASSUME IInv, NEW p \in Processes, CopyBackup(p)
  PROVE  IInv'
<1>1. /\ step[p] = "copy" /\ step' = [step EXCEPT ![p] = "replace"]
      /\ backup' = primary
      /\ UNCHANGED <<primary, directories, lock, draft, faults, latest, before>>
  BY DEF CopyBackup, Goes, At, files, history
<1>2. step'[p] = "replace" /\ \A q \in Processes \ {p} : step'[q] = step[q]
  BY <1>1 DEF IInv, TypeOK
<1>3. \A q \in Processes \ {p} : step[q] \in {"idle", "verified"}
  BY <1>1, OneHolder DEF LockedSteps
<1>4. TypeOK'
  BY <1>1 DEF IInv, TypeOK, Steps, LockedSteps
<1>5. LockHeld' /\ AllSound' /\ PlacingVersion' /\ FilesFollow'
  BY <1>1, <1>2 DEF IInv, LockHeld, AllSound, PlacingVersion, FilesFollow, LockedSteps
<1>6. DraftsFollow'
  BY <1>1, <1>2, <1>3 DEF IInv, DraftsFollow
<1> QED
  BY <1>4, <1>5, <1>6 DEF IInv

LEMMA ReplaceInv ==
  ASSUME IInv, NEW p \in Processes, Replace(p)
  PROVE  IInv'
<1>1. /\ step[p] = "replace" /\ step' = [step EXCEPT ![p] = "unlock"]
      /\ primary' = [state |-> "whole", index |-> draft[p]]
      /\ latest' = draft[p] /\ before' = latest
      /\ UNCHANGED <<backup, directories, lock, draft, faults>>
  BY DEF Replace, Goes, At, WholeFile
<1>2. step'[p] = "unlock" /\ \A q \in Processes \ {p} : step'[q] = step[q]
  BY <1>1 DEF IInv, TypeOK
<1>3. \A q \in Processes \ {p} : step[q] \in {"idle", "verified"}
  BY <1>1, OneHolder DEF LockedSteps
<1>4. TypeOK'
  BY <1>1 DEF IInv, TypeOK, Steps, LockedSteps, Files
<1>5. LockHeld' /\ AllSound' /\ PlacingVersion'
  BY <1>1, <1>2 DEF IInv, LockHeld, AllSound, PlacingVersion, LockedSteps
<1>6. FilesFollow'
  BY <1>1, <1>2, <1>3 DEF IInv, FilesFollow
<1>7. DraftsFollow'
  BY <1>1, <1>2, <1>3 DEF DraftsFollow
<1> QED
  BY <1>4, <1>5, <1>6, <1>7 DEF IInv

LEMMA EndsInv ==
  ASSUME IInv, NEW p \in Processes, Ends(p)
  PROVE  IInv'
<1>1. /\ step' = [step EXCEPT ![p] = "idle"]
      /\ lock' = IF lock = p THEN NoProcess ELSE lock
      /\ draft' = [draft EXCEPT ![p] = EmptyIndex]
      /\ UNCHANGED <<primary, backup, directories, faults, latest, before>>
  BY DEF Ends, Goes, Drafts, files, history
<1>2. /\ step'[p] = "idle" /\ draft'[p] = EmptyIndex
      /\ \A q \in Processes \ {p} : step'[q] = step[q] /\ draft'[q] = draft[q]
  BY <1>1 DEF IInv, TypeOK
<1>3. TypeOK'
  BY <1>1, EmptySound DEF IInv, TypeOK, Steps
<1>4. LockHeld' /\ FilesFollow'
  BY <1>1, <1>2 DEF IInv, LockHeld, FilesFollow, LockedSteps
<1>5. AllSound' /\ PlacingVersion'
  BY <1>1, <1>2, EmptySound DEF IInv, AllSound, PlacingVersion
<1>6. DraftsFollow'
  BY <1>1, <1>2 DEF IInv, DraftsFollow
<1> QED
  BY <1>3, <1>4, <1>5, <1>6 DEF IInv

LEMMA DamageIndexInv ==
  ASSUME IInv, DamageIndex
  PROVE  IInv'
<1>1. /\ faults < MaxFaults /\ faults' = faults + 1 /\ primary' = UnreadableFile
      /\ UNCHANGED <<backup, directories, lock, step, draft, latest, before>>
  BY DEF DamageIndex, history
<1>2. UnreadableFile \in Files /\ UnreadableFile.state = "unreadable"
      /\ Sound(UnreadableFile.index)
  BY EmptySound DEF UnreadableFile, Files
<1>3. TypeOK' /\ faults' # 0
  BY <1>1, <1>2, FaultsCount DEF IInv, TypeOK
<1> QED
  BY <1>1, <1>2, <1>3 DEF IInv, LockHeld, FilesFollow, AllSound, PlacingVersion, DraftsFollow

LEMMA DamagePackageInv ==
  ASSUME IInv, NEW v \in Versions, DamagePackage(v)
  PROVE  IInv'
<1>1. PICK state \in {"broken", "missing"} :
        /\ directories[v] = "whole" /\ directories' = [directories EXCEPT ![v] = state]
        /\ UNCHANGED <<primary, backup, lock, step, draft, faults, latest, before>>
  BY DEF DamagePackage, files, history
<1>2. TypeOK'
  BY <1>1 DEF IInv, TypeOK, PackageStates
<1>3. LockHeld' /\ FilesFollow' /\ AllSound' /\ PlacingVersion'
  BY <1>1 DEF IInv, LockHeld, FilesFollow, AllSound, PlacingVersion
<1>4. \A i : Broken(i, directories) \subseteq Broken(i, directories')
  BY <1>1 DEF IInv, TypeOK, Broken
<1>5. DraftsFollow'
  BY <1>1, <1>4, FollowsStays DEF IInv, DraftsFollow
<1> QED
  BY <1>2, <1>3, <1>5 DEF IInv

LEMMA NextInv ==
  ASSUME IInv, [Next]_vars
  PROVE  IInv'
<1>1. ASSUME UNCHANGED vars PROVE IInv'
  BY <1>1 DEF vars, files, history, IInv, TypeOK, LockHeld, FilesFollow, AllSound,
              PlacingVersion, DraftsFollow
<1>2. ASSUME NEW p \in Processes, Step(p) PROVE IInv'
  <2>1. CASE \/ \E v \in Versions : OpensInstall(p, v)
             \/ \E on \in BOOLEAN : OpensSwitch(p, on)
             \/ OpensRollback(p) \/ OpensRevoke(p) \/ OpensDoctor(p)
    BY <2>1, OpensDraft, OpensInv
  <2> QED
    BY <1>2, <2>1, VerifyInv, PlaceInv, StartBackupInv, CopyBackupInv, ReplaceInv, EndsInv
       DEF Step
<1> QED
  BY <1>1, <1>2, DamageIndexInv, DamagePackageInv DEF Next

LEMMA Invariance == Spec => []IInv
BY InitInv, NextInv, PTL DEF Spec
-----------------------------------------------------------------------------
(* What follows *)

\* Every state is well typed, for any processes, versions and number of faults.
THEOREM Types == Spec => []TypeOK
BY Invariance, PTL DEF IInv

\* No index that can be read has anything unverified switched on, or a revoked
\* plugin that could run: install, set_enabled, rollback, revoke and doctor keep it
\* so, whoever is killed and whatever is recovered from the backup.
THEOREM SoundIndexes == Spec => []ReadableIsSound
<1>1. IInv => ReadableIsSound
  BY DEF IInv, AllSound, ReadableIsSound
<1> QED
  BY <1>1, Invariance, PTL

\* load_index_with_recovery never returns an index that is more than one operation
\* old, however often the file was damaged.
THEOREM RecoveredRecent == Spec => []RecoversRecent
<1>1. IInv => RecoversRecent
  BY DEF IInv, TypeOK, Files, FilesFollow, RecoversRecent, Readable, Loaded
<1> QED
  BY <1>1, Invariance, PTL

\* The instance of PluginIndex names the same records and operations.
LEMMA SameRecords ==
  Index!Indexes = Indexes /\ Index!EmptyIndex = EmptyIndex /\ Index!PackageStates = PackageStates
BY DEF Index!Indexes, Indexes, Index!EmptyIndex, EmptyIndex, Index!PackageStates,
       PackageStates, Index!Entries, Entries, Index!Trusts, Trusts, Index!NoEntry, NoEntry

LEMMA SameInstall ==
  ASSUME NEW i, NEW v
  PROVE  (Index!Installable(i, v) <=> Installable(i, v)) /\ Index!Installed(i, v) = Installed(i, v)
BY DEF Index!Installable, Installable, Index!Installed, Installed

LEMMA SameSwitch ==
  ASSUME NEW i, NEW on
  PROVE  (Index!Switchable(i, on) <=> Switchable(i, on)) /\ Index!Switched(i, on) = Switched(i, on)
BY DEF Index!Switchable, Switchable, Index!Switched, Switched, Index!Recorded, Recorded,
       Index!ActiveEntry, ActiveEntry, Index!WithEntry, WithEntry

LEMMA SameDiagnosis ==
  ASSUME NEW i, NEW s
  PROVE  Index!Broken(i, s) = Broken(i, s) /\ Index!Diagnosed(i, s) = Diagnosed(i, s)
BY DEF Index!Broken, Broken, Index!InIndex, InIndex, Index!Diagnosed, Diagnosed

LEMMA SameReturn ==
  ASSUME NEW i
  PROVE  (Index!Returnable(i) <=> Returnable(i)) /\ Index!Returned(i) = Returned(i)
BY DEF Index!Returnable, Returnable, Index!Returned, Returned, Index!Recorded, Recorded

LEMMA SameRevocation ==
  ASSUME NEW i
  PROVE  (Index!Recorded(i) <=> Recorded(i)) /\ Index!Revoked(i) = Revoked(i)
BY DEF Index!Recorded, Recorded, Index!Revoked, Revoked, Index!WithEntry, WithEntry,
       Index!ActiveEntry, ActiveEntry

\* The rename is the step in which an operation takes effect.
LEMMA ReplaceIsOneOperation ==
  ASSUME IInv, IInv', NEW p \in Processes, Replace(p)
  PROVE  Index!IndexNext
<1>1. /\ step[p] = "replace" /\ primary'.index = draft[p]
      /\ UNCHANGED <<directories, faults>>
  BY DEF Replace, At, WholeFile
<1>2. draft[p] \in Indexes
  BY DEF IInv, TypeOK
<1>3. CASE faults = 0
  <2>1. Follows(draft[p], primary.index, directories)
    BY <1>1, <1>3 DEF IInv, DraftsFollow
  <2>2. Index!Becomes(draft[p])
    BY <1>1 DEF Index!Becomes
  <2>3. CASE InstallOf(draft[p], primary.index)
    BY <2>2, <2>3, SameInstall DEF InstallOf, Index!IndexNext, Index!Install
  <2>4. CASE \E on \in BOOLEAN :
               Switchable(primary.index, on) /\ draft[p] = Switched(primary.index, on)
    BY <2>2, <2>4, SameSwitch DEF Index!IndexNext, Index!Switch
  <2>5. CASE Returnable(primary.index) /\ draft[p] = Returned(primary.index)
    BY <2>2, <2>5, SameReturn DEF Index!IndexNext, Index!Return
  <2>6. CASE Recorded(primary.index) /\ draft[p] = Revoked(primary.index)
    BY <2>2, <2>6, SameRevocation DEF Index!IndexNext, Index!Revoke
  <2>7. CASE \E sick \in SUBSET Versions :
               /\ sick # {} /\ sick \subseteq Broken(primary.index, directories)
               /\ draft[p] = Diagnosed(primary.index, sick)
    BY <2>2, <2>7, SameDiagnosis DEF Index!IndexNext, Index!Diagnose
  <2> QED
    BY <2>1, <2>3, <2>4, <2>5, <2>6, <2>7 DEF Follows
<1>4. CASE faults # 0
  <2>1. directories' \in [Versions -> PackageStates]
    BY <1>1 DEF IInv, TypeOK
  <2> QED
    BY <1>1, <1>2, <1>4, <2>1, SameRecords DEF Index!IndexNext, Index!Beyond
<1> QED
  BY <1>3, <1>4

\* What happens outside is a fault of the index or damage to a directory.
LEMMA OutsideSteps ==
  ASSUME IInv, IInv', DamageIndex \/ \E v \in Versions : DamagePackage(v)
  PROVE  Index!IndexNext
<1>1. ASSUME DamageIndex PROVE Index!IndexNext
  <2>1. faults' # 0 /\ primary'.index \in Indexes /\ UNCHANGED directories
    BY <1>1, EmptySound, FaultsCount DEF DamageIndex, UnreadableFile, IInv, TypeOK
  <2> QED
    BY <2>1, SameRecords DEF Index!IndexNext, Index!Fault
<1>2. ASSUME NEW v \in Versions, DamagePackage(v) PROVE Index!IndexNext
  <2>1. /\ directories[v] = "whole" /\ UNCHANGED <<primary, faults>>
        /\ \/ directories' = [directories EXCEPT ![v] = "broken"]
           \/ directories' = [directories EXCEPT ![v] = "missing"]
    BY <1>2 DEF DamagePackage, files
  <2> QED
    BY <2>1 DEF Index!IndexNext, Index!Damage, Index!Lose
<1> QED
  BY <1>1, <1>2

LEMMA PlaceStep ==
  ASSUME IInv, NEW p \in Processes, PutInPlace(p)
  PROVE  Index!IndexNext \/ UNCHANGED Index!indexVars
<1> DEFINE v == draft[p].active
<1>1. /\ v \in Versions /\ directories[v] # "broken" /\ directories' = [directories EXCEPT ![v] = "whole"]
      /\ UNCHANGED <<primary, faults>>
  BY DEF PutInPlace, At, files, IInv, PlacingVersion
<1>2. CASE directories[v] = "missing"
  BY <1>1, <1>2 DEF Index!IndexNext, Index!Place
<1>3. CASE directories[v] = "whole"
  BY <1>1, <1>3 DEF Index!indexVars, IInv, TypeOK
<1> QED
  BY <1>1, <1>2, <1>3 DEF IInv, TypeOK, PackageStates

LEMMA StepImplements ==
  ASSUME IInv, IInv', [Next]_vars
  PROVE  [Index!IndexNext]_Index!indexVars
<1>1. ASSUME UNCHANGED <<primary, directories, faults>> PROVE UNCHANGED Index!indexVars
  BY <1>1 DEF Index!indexVars
<1>2. ASSUME NEW p \in Processes, Step(p) PROVE [Index!IndexNext]_Index!indexVars
  <2>1. CASE \/ Verify(p) \/ StartBackup(p) \/ CopyBackup(p) \/ Ends(p)
             \/ \E v \in Versions : OpensInstall(p, v)
             \/ \E on \in BOOLEAN : OpensSwitch(p, on)
             \/ OpensRollback(p) \/ OpensRevoke(p) \/ OpensDoctor(p)
    BY <2>1, <1>1 DEF Verify, StartBackup, BacksUp, CopyBackup, Ends, OpensInstall, OpensSwitch,
         OpensRollback, OpensRevoke, OpensDoctor, Opens, files
  <2> QED
    BY <1>2, <2>1, PlaceStep, ReplaceIsOneOperation DEF Step
<1>3. ASSUME UNCHANGED vars PROVE UNCHANGED Index!indexVars
  BY <1>3, <1>1 DEF vars, files
<1> QED
  BY <1>2, <1>3, OutsideSteps DEF Next

\* The lock, the backup and the rename implement the index its callers think of: as
\* long as the file is not damaged, each change is one operation on the index it
\* replaces, for any number of processes killed anywhere.
THEOREM IndexImplemented == Spec => ImplementsIndex
<1>1. Init => Index!IndexInit
  BY SameRecords DEF Init, Index!IndexInit
<1> QED
  BY <1>1, Invariance, StepImplements, PTL DEF Spec, ImplementsIndex, Index!IndexSpec
=============================================================================
