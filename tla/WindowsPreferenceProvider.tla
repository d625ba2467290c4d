---------------------- MODULE WindowsPreferenceProvider ----------------------
(***************************************************************************)
(* WindowsPreferenceCheckpoint: the protected register as it is built from *)
(* encrypted object files, one credential that names the selected object,  *)
(* and an advisory file lock with a deadline.  Processes load, publish and *)
(* clean up; native calls fail, deadlines pass, processes are killed and   *)
(* the power is lost between any two steps.                                *)
(*                                                                         *)
(* Every failed deadline check ends its call at once, so that the passing  *)
(* of time is a failure any check may meet.  An object's name is the hash  *)
(* of a randomised ciphertext: saving a record always makes a new object.  *)
(***************************************************************************)
EXTENDS Naturals, FiniteSets

CONSTANTS
    Procs,         \* processes that share the private root
    Records,       \* protected records, with their revision and generation
    Objects,       \* names of object files
    MaxRemoved,    \* `maximum` of cleanup_unselected
    NoProc, NoRecord, NoObject, NoWrite, Absent,
    RootMayVanish  \* whether the credential may be deleted from outside

ASSUME ProcAssumption == NoProc \notin Procs
ASSUME RecordAssumption == /\ NoRecord \notin Records
                           /\ \A r \in Records : r.revision \in Nat /\ r.generation \in Nat
ASSUME ObjectAssumption == NoObject \notin Objects
ASSUME NoWriteAssumption ==
    NoWrite \notin [by: Procs, expected: Records \cup {NoRecord}, candidate: Records,
                   selected: BOOLEAN]
ASSUME CleanupAssumption == MaxRemoved \in 1..128

VARIABLES
    credential,  \* the object the protected head names, or NoObject
    objects,     \* object name -> the file, or Absent
    lock,        \* the process that holds the publication lock, or NoProc
    proc         \* process -> the call it is in

vars == <<credential, objects, lock, proc>>

-----------------------------------------------------------------------------
Operations == {"load", "exchange", "cleanup"}

(***************************************************************************)
(* Where a call is: waiting for the lock; under it, about to read, create, *)
(* write, sync or select; past CredWriteW, sure or unsure of it; removing. *)
(***************************************************************************)
Steps == {"idle", "locking", "reading", "creating", "writing", "syncing", "selecting",
          "selected", "unsure", "removing"}

Answers == {"none", "Applied", "Conflict", "NotCommitted", "Indeterminate", "Done", "Failed"}

Call == [pc: Steps, op: Operations, expected: Records \cup {NoRecord},
         candidate: Records \cup {NoRecord}, object: Objects \cup {NoObject},
         removed: 0..MaxRemoved, answer: Answers]

Idle(a) == [pc |-> "idle", op |-> "load", expected |-> NoRecord, candidate |-> NoRecord,
            object |-> NoObject, removed |-> 0, answer |-> a]

(***************************************************************************)
(* The bytes of a file: some of them written, all written, or on the disk. *)
(***************************************************************************)
File == [data: {"partial", "written", "synced"}, record: Records]

ASSUME AbsentAssumption == Absent \notin File

TypeOK ==
    /\ credential \in Objects \cup {NoObject}
    /\ objects \in [Objects -> File \cup {Absent}]
    /\ lock \in Procs \cup {NoProc}
    /\ proc \in [Procs -> Call]

-----------------------------------------------------------------------------
(***************************************************************************)
(* read_object finds all the bytes the name stands for.                    *)
(***************************************************************************)
Readable(o) == objects[o] # Absent /\ objects[o].data \in {"written", "synced"}

CurrentRecord == IF credential = NoObject THEN NoRecord ELSE objects[credential].record

(***************************************************************************)
(* load_locked succeeds; any of its native calls or checks may also fail.  *)
(***************************************************************************)
LoadLocked == credential # NoObject => Readable(credential)

ValidRevision(candidate) ==
    IF CurrentRecord = NoRecord THEN candidate.revision = 1
    ELSE /\ candidate.revision = CurrentRecord.revision + 1
         /\ candidate.generation >= CurrentRecord.generation

At(p, step) == proc[p].pc = step

Goto(p, step) == proc' = [proc EXCEPT ![p].pc = step]

(***************************************************************************)
(* The call returns; dropping the PublicationLock unlocks the file.        *)
(***************************************************************************)
Unlock(p) == lock' = IF lock = p THEN NoProc ELSE lock

Return(p, answer) ==
    /\ proc' = [proc EXCEPT ![p] = Idle(answer)]
    /\ Unlock(p)

Refusal(p) == IF proc[p].op = "exchange" THEN "NotCommitted" ELSE "Failed"

-----------------------------------------------------------------------------
Init ==
    /\ credential = NoObject
    /\ objects = [o \in Objects |-> Absent]
    /\ lock = NoProc
    /\ proc = [p \in Procs |-> Idle("none")]

Begin(p, op, expected, candidate) ==
    /\ At(p, "idle")
    /\ proc' = [proc EXCEPT ![p] = [pc |-> "locking", op |-> op, expected |-> expected,
                                    candidate |-> candidate, object |-> NoObject,
                                    removed |-> 0, answer |-> "none"]]
    /\ UNCHANGED <<credential, objects, lock>>

Call_(p) ==
    \/ \E e \in Records \cup {NoRecord}, c \in Records : Begin(p, "exchange", e, c)
    \/ \E op \in {"load", "cleanup"} : Begin(p, op, NoRecord, NoRecord)

-----------------------------------------------------------------------------
(***************************************************************************)
(* lock: try, sleep and try again until the deadline.                      *)
(***************************************************************************)
LockShared == TRUE

LockFree == lock = NoProc

TakeLock(p) ==
    /\ At(p, "locking")
    /\ LockFree
    /\ lock' = p
    /\ Goto(p, "reading")
    /\ UNCHANGED <<credential, objects>>

GiveUpLock(p) ==
    /\ At(p, "locking")
    /\ Return(p, Refusal(p))
    /\ UNCHANGED <<credential, objects>>

(***************************************************************************)
(* read_current_record                                                     *)
(***************************************************************************)
Load(p) ==
    /\ At(p, "reading")
    /\ proc[p].op = "load"
    /\ \/ LoadLocked /\ Return(p, "Done")
       \/ Return(p, "Failed")
    /\ UNCHANGED <<credential, objects>>

-----------------------------------------------------------------------------
(***************************************************************************)
(* compare_exchange, one action per stretch between two of its failures.   *)
(***************************************************************************)
ExchangeReadFails(p) ==
    /\ At(p, "reading")
    /\ proc[p].op = "exchange"
    /\ Return(p, "Indeterminate")
    /\ UNCHANGED <<credential, objects>>

Compare(p) ==
    /\ At(p, "reading")
    /\ proc[p].op = "exchange"
    /\ LoadLocked
    /\ IF CurrentRecord # proc[p].expected THEN Return(p, "Conflict")
       ELSE IF ~ValidRevision(proc[p].candidate) THEN Return(p, "NotCommitted")
       ELSE Goto(p, "creating") /\ UNCHANGED lock
    /\ UNCHANGED <<credential, objects>>

CreateObject(p) ==
    /\ At(p, "creating")
    /\ \E o \in Objects :
          /\ objects[o] = Absent
          /\ objects' = [objects EXCEPT ![o] = [data |-> "partial",
                                                record |-> proc[p].candidate]]
          /\ proc' = [proc EXCEPT ![p].pc = "writing", ![p].object = o]
    /\ UNCHANGED <<credential, lock>>

WriteObject(p) ==
    /\ At(p, "writing")
    /\ objects' = [objects EXCEPT ![proc[p].object].data = "written"]
    /\ Goto(p, "syncing")
    /\ UNCHANGED <<credential, lock>>

(***************************************************************************)
(* sync_all and the read back that follows it.                             *)
(***************************************************************************)
SyncObject(p) ==
    /\ At(p, "syncing")
    /\ Readable(proc[p].object)
    /\ objects' = [objects EXCEPT ![proc[p].object].data = "synced"]
    /\ Goto(p, "selecting")
    /\ UNCHANGED <<credential, lock>>

(***************************************************************************)
(* Encryption, save_object and the last deadline check fail before the     *)
(* selection; whatever was written stays behind as an orphan.              *)
(***************************************************************************)
SaveFails(p) ==
    /\ proc[p].pc \in {"creating", "writing", "syncing", "selecting"}
    /\ Return(p, "NotCommitted")
    /\ UNCHANGED <<credential, objects>>

(***************************************************************************)
(* CredWriteW: it may select and still report a failure.                   *)
(***************************************************************************)
WriteHead(p) ==
    /\ At(p, "selecting")
    /\ \/ /\ credential' = proc[p].object
          /\ Goto(p, "selected") \/ Goto(p, "unsure")
          /\ UNCHANGED lock
       \/ /\ Return(p, "Indeterminate")
          /\ UNCHANGED credential
    /\ UNCHANGED objects

ReportNotCommitted(p) ==
    /\ At(p, "unsure")
    /\ Return(p, "NotCommitted")
    /\ UNCHANGED <<credential, objects>>

ReportUnsure(p) ==
    /\ At(p, "unsure")
    /\ Return(p, "Indeterminate")
    /\ UNCHANGED <<credential, objects>>

Verify(p) ==
    /\ At(p, "selected")
    /\ \/ /\ LoadLocked
          /\ CurrentRecord = proc[p].candidate
          /\ Return(p, "Applied")
       \/ Return(p, "Indeterminate")
    /\ UNCHANGED <<credential, objects>>

-----------------------------------------------------------------------------
(***************************************************************************)
(* cleanup_unselected: only with a readable selected record.  It notes the *)
(* selected name and removes other objects, in the directory's order.      *)
(***************************************************************************)
StartCleanup(p) ==
    /\ At(p, "reading")
    /\ proc[p].op = "cleanup"
    /\ credential # NoObject
    /\ LoadLocked
    /\ proc' = [proc EXCEPT ![p].pc = "removing", ![p].object = credential]
    /\ UNCHANGED <<credential, objects, lock>>

BatchUnbounded(p) == TRUE

BatchLeft(p) == proc[p].removed < MaxRemoved

AllObjects(p) == Objects

UnselectedObjects(p) == Objects \ {proc[p].object}

RemoveObject(p) ==
    /\ At(p, "removing")
    /\ BatchLeft(p)
    /\ \E o \in UnselectedObjects(p) :
          /\ objects[o] # Absent
          /\ objects' = [objects EXCEPT ![o] = Absent]
    /\ proc' = [proc EXCEPT ![p].removed = @ + 1]
    /\ UNCHANGED <<credential, lock>>

CleanupDone(p) ==
    /\ At(p, "removing")
    /\ \/ proc[p].removed = MaxRemoved
       \/ \A o \in Objects \ {proc[p].object} : objects[o] = Absent
    /\ Return(p, "Done")
    /\ UNCHANGED <<credential, objects>>

CleanupFails(p) ==
    /\ \/ At(p, "removing")
       \/ At(p, "reading") /\ proc[p].op = "cleanup"
    /\ Return(p, "Failed")
    /\ UNCHANGED <<credential, objects>>

-----------------------------------------------------------------------------
(***************************************************************************)
(* The process is killed: the system closes its handles and the lock.      *)
(***************************************************************************)
Kill(p) ==
    /\ ~At(p, "idle")
    /\ Return(p, "none")
    /\ UNCHANGED <<credential, objects>>

(***************************************************************************)
(* The power is lost (no process survives it): what was not synced may be  *)
(* gone.                                                                   *)
(***************************************************************************)
PowerLoss ==
    /\ \A p \in Procs : At(p, "idle")
    /\ \E o \in Objects :
          /\ objects[o] # Absent
          /\ objects[o].data = "written"
          /\ objects' = [objects EXCEPT ![o].data = "partial"]
    /\ UNCHANGED <<credential, lock, proc>>

Inside(p) == lock = p /\ proc[p].op = "exchange"

(***************************************************************************)
(* The credential is deleted from outside, not amid a publication.         *)
(***************************************************************************)
Vanish ==
    /\ RootMayVanish
    /\ credential # NoObject
    /\ \A p \in Procs : ~Inside(p)
    /\ credential' = NoObject
    /\ UNCHANGED <<objects, lock, proc>>

-----------------------------------------------------------------------------
Exchange(p) ==
    \/ ExchangeReadFails(p) \/ Compare(p) \/ CreateObject(p) \/ WriteObject(p)
    \/ SyncObject(p) \/ SaveFails(p) \/ WriteHead(p) \/ ReportUnsure(p) \/ Verify(p)

Cleanup(p) == StartCleanup(p) \/ RemoveObject(p) \/ CleanupDone(p) \/ CleanupFails(p)

Run(p) == TakeLock(p) \/ GiveUpLock(p) \/ Load(p) \/ Exchange(p) \/ Cleanup(p)

Next ==
    \/ \E p \in Procs : Call_(p) \/ Run(p) \/ Kill(p)
    \/ PowerLoss
    \/ Vanish

Spec == Init /\ [][Next]_vars

-----------------------------------------------------------------------------
(***************************************************************************)
(* It is the register that the sessions were promised: the publication in  *)
(* progress is the one of the lock's holder, selected by CredWriteW alone. *)
(***************************************************************************)
CallOf(p) ==
    [phase |-> IF proc[p].op # "exchange" THEN "idle"
               ELSE IF lock = p THEN "inside" ELSE "called",
     expected |-> proc[p].expected, candidate |-> proc[p].candidate]

PublicationOf(p) ==
    [by |-> p, expected |-> proc[p].expected, candidate |-> proc[p].candidate,
     selected |-> proc[p].pc \in {"selected", "unsure"}]

RegisterCall == [p \in Procs |-> CallOf(p)]

RegisterWrite == IF \E p \in Procs : Inside(p) THEN PublicationOf(lock) ELSE NoWrite

Register == INSTANCE PreferenceRegister WITH
    Callers <- Procs, NoCaller <- NoProc, WritesOutliveCalls <- FALSE,
    head <- CurrentRecord, call <- RegisterCall, write <- RegisterWrite

RegisterSpec == Register!RegSpec

(***************************************************************************)
(* Each answer of compare_exchange is one the register may give: Applied   *)
(* only after its own selection, Conflict and NotCommitted only when there *)
(* was none; and a load returns only when no publication can still select. *)
(***************************************************************************)
AnswersAreTrue ==
    [][\A p \in Procs :
          ~At(p, "idle") /\ proc'[p].pc = "idle" /\ proc'[p].answer # "none" =>
             /\ proc[p].op = "exchange" => Register!Answer(p, proc'[p].answer)
             /\ proc'[p].answer = "Done" => Register!CanLoad]_vars

(***************************************************************************)
(* The credential always names an object with all its bytes on the disk,   *)
(* through kills, power loss and concurrent cleanups: the last committed   *)
(* record can be read again.                                               *)
(***************************************************************************)
SelectedObjectSurvives ==
    credential # NoObject => objects[credential] # Absent /\ objects[credential].data = "synced"

(***************************************************************************)
(* Why it does: everything past the wait happens under the lock, an object *)
(* is on the disk before it is selected and never touched once it is, and  *)
(* a cleanup knows the selected object.                                    *)
(***************************************************************************)
Working == Steps \ {"idle", "locking"}

LockHeld == \A p \in Procs : proc[p].pc \in Working => lock = p

ExchangesHaveCandidates ==
    \A p \in Procs :
       /\ At(p, "creating") => proc[p].op = "exchange"
       /\ proc[p].op = "exchange" => proc[p].candidate \in Records

SavedBeforeSelected ==
    \A p \in Procs :
       /\ proc[p].pc \in {"writing", "syncing", "selecting"} =>
             proc[p].object # NoObject /\ objects[proc[p].object] # Absent
       /\ proc[p].pc \in {"writing", "syncing"} => credential # proc[p].object
       /\ At(p, "selecting") => objects[proc[p].object].data = "synced"

CleanupKnowsSelected ==
    \A p \in Procs : At(p, "removing") => credential \in {proc[p].object, NoObject}

Discipline ==
    LockHeld /\ ExchangesHaveCandidates /\ SavedBeforeSelected /\ CleanupKnowsSelected
=============================================================================
