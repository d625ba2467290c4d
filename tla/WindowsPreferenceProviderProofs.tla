-------------------- MODULE WindowsPreferenceProviderProofs --------------------
(***************************************************************************)
(* Theorems about WindowsPreferenceProvider for any number of processes,   *)
(* records and object files.                                               *)
(***************************************************************************)
EXTENDS WindowsPreferenceProvider, TLAPS

Inv == TypeOK /\ Discipline /\ SelectedObjectSurvives

(***************************************************************************)
(* A call that ends, by an answer or by a kill, gives up its lock and      *)
(* leaves head and files as they are.                                      *)
(***************************************************************************)
LEMMA IdleIsCall ==
  ASSUME NEW a \in Answers
  PROVE  Idle(a) \in Call /\ Idle(a).pc = "idle" /\ Idle(a).op = "load"
  BY CleanupAssumption DEF Idle, Call, Steps, Operations

LEMMA ReturnPreserves ==
  ASSUME Inv, NEW p \in Procs, NEW a \in Answers, Return(p, a),
         UNCHANGED <<credential, objects>>
  PROVE  Inv'
  <1> USE DEF Inv, Discipline
  <1>1. /\ proc' = [proc EXCEPT ![p] = Idle(a)]
        /\ lock' = IF lock = p THEN NoProc ELSE lock
    BY DEF Return, Unlock
  <1>2. \A q \in Procs : proc'[q] = IF q = p THEN Idle(a) ELSE proc[q]
    BY <1>1 DEF TypeOK
  <1>3. Idle(a) \in Call /\ Idle(a).pc = "idle" /\ Idle(a).op = "load"
    BY IdleIsCall
  <1>4. TypeOK'
    BY <1>1, <1>3 DEF TypeOK
  <1>5. LockHeld'
    BY <1>1, <1>2, <1>3 DEF LockHeld, Working
  <1>6. ExchangesHaveCandidates' /\ SavedBeforeSelected' /\ CleanupKnowsSelected'
    BY <1>2, <1>3 DEF ExchangesHaveCandidates, SavedBeforeSelected, CleanupKnowsSelected, At
  <1>7. SelectedObjectSurvives'
    BY DEF SelectedObjectSurvives
  <1>8. QED BY <1>4, <1>5, <1>6, <1>7

(***************************************************************************)
(* A step of the lock's holder p that changes only its own call, or also   *)
(* the head or the files: the other calls are outside the lock.            *)
(***************************************************************************)
LEMMA HolderAlone ==
  ASSUME Inv, NEW p \in Procs, proc[p].pc \in Working, NEW q \in Procs, q # p
  PROVE  proc[q].pc \notin Working
  BY DEF Inv, Discipline, LockHeld

LEMMA HolderMoves ==
  ASSUME Inv, NEW p \in Procs, lock' = p, NEW x \in Call, x.pc \in Working,
         proc' = [proc EXCEPT ![p] = x],
         \A q \in Procs \ {p} : proc[q].pc \notin Working,
         credential' \in Objects \cup {NoObject},
         objects' \in [Objects -> File \cup {Absent}],
         x.pc = "creating" => x.op = "exchange",
         x.op = "exchange" => x.candidate \in Records,
         x.pc \in {"writing", "syncing", "selecting"} =>
            x.object # NoObject /\ objects'[x.object] # Absent,
         x.pc \in {"writing", "syncing"} => credential' # x.object,
         x.pc = "selecting" => objects'[x.object].data = "synced",
         x.pc = "removing" => credential' \in {x.object, NoObject},
         SelectedObjectSurvives'
  PROVE  Inv'
  <1>1. \A q \in Procs : proc'[q] = IF q = p THEN x ELSE proc[q]
    BY DEF Inv, TypeOK
  <1>2. TypeOK'
    BY DEF Inv, TypeOK
  <1>3. LockHeld'
    BY <1>1 DEF LockHeld
  <1>4. SavedBeforeSelected'
    BY <1>1 DEF SavedBeforeSelected, At, Working, Steps
  <1>5. CleanupKnowsSelected'
    BY <1>1 DEF CleanupKnowsSelected, At, Working, Steps
  <1>6. ExchangesHaveCandidates'
    BY <1>1 DEF Inv, Discipline, ExchangesHaveCandidates, At
  <1>7. QED BY <1>2, <1>3, <1>4, <1>5, <1>6 DEF Inv, Discipline

-----------------------------------------------------------------------------
LEMMA BeginPreserves ==
  ASSUME Inv, NEW p \in Procs, Call_(p)
  PROVE  Inv'
  <1> USE DEF Inv, Discipline
  <1>1. PICK op \in Operations, e \in Records \cup {NoRecord}, c \in Records \cup {NoRecord} :
          /\ Begin(p, op, e, c)
          /\ op = "exchange" => c \in Records
    BY DEF Call_, Operations
  <1> DEFINE x == [pc |-> "locking", op |-> op, expected |-> e, candidate |-> c,
                   object |-> NoObject, removed |-> 0, answer |-> "none"]
  <1>2. /\ proc' = [proc EXCEPT ![p] = x]
        /\ UNCHANGED <<credential, objects, lock>>
    BY <1>1 DEF Begin
  <1>3. x \in Call
    BY CleanupAssumption DEF Call, Steps, Answers
  <1>4. x.pc = "locking" /\ x.op = op /\ x.candidate = c
    OBVIOUS
  <1> HIDE DEF x
  <1>5. \A q \in Procs : proc'[q] = IF q = p THEN x ELSE proc[q]
    BY <1>2 DEF TypeOK
  <1>6. TypeOK'
    BY <1>2, <1>3 DEF TypeOK
  <1>7. LockHeld'
    BY <1>2, <1>4, <1>5 DEF LockHeld, Working
  <1>8. ExchangesHaveCandidates' /\ SavedBeforeSelected' /\ CleanupKnowsSelected'
    BY <1>1, <1>2, <1>4, <1>5
    DEF ExchangesHaveCandidates, SavedBeforeSelected, CleanupKnowsSelected, At
  <1>9. SelectedObjectSurvives'
    BY <1>2 DEF SelectedObjectSurvives
  <1>10. QED BY <1>6, <1>7, <1>8, <1>9

LEMMA TakeLockPreserves ==
  ASSUME Inv, NEW p \in Procs, TakeLock(p)
  PROVE  Inv'
  <1> DEFINE x == [proc[p] EXCEPT !.pc = "reading"]
  <1>1. /\ proc[p] \in Call /\ lock' = p /\ proc' = [proc EXCEPT ![p] = x]
        /\ UNCHANGED <<credential, objects>>
    BY DEF TakeLock, Goto, Inv, TypeOK
  <1>2. x \in Call /\ x.pc = "reading" /\ x.op = proc[p].op /\ x.candidate = proc[p].candidate
    BY <1>1 DEF Call, Steps
  <1>3. \A q \in Procs : proc[q].pc \notin Working
    BY ProcAssumption DEF TakeLock, LockFree, Inv, Discipline, LockHeld
  <1> HIDE DEF x
  <1>4. QED
    BY <1>1, <1>2, <1>3, HolderMoves
    DEF Working, Steps, Inv, TypeOK, Discipline, ExchangesHaveCandidates, SelectedObjectSurvives

(***************************************************************************)
(* The steps of a publication or a cleanup that keep the lock, one by one. *)
(***************************************************************************)
LEMMA ComparePreserves ==
  ASSUME Inv, NEW p \in Procs, Compare(p)
  PROVE  Inv'
  <1>1. proc[p] \in Call /\ At(p, "reading") /\ proc[p].op = "exchange"
        /\ UNCHANGED <<credential, objects>>
    BY DEF Compare, Inv, TypeOK
  <1>2. CASE Return(p, "Conflict") \/ Return(p, "NotCommitted")
    BY <1>1, <1>2, ReturnPreserves DEF Answers
  <1>3. CASE Goto(p, "creating") /\ UNCHANGED lock
    <2> DEFINE x == [proc[p] EXCEPT !.pc = "creating"]
    <2>1. x \in Call /\ x.pc = "creating" /\ x.op = "exchange" /\ x.candidate = proc[p].candidate
      BY <1>1 DEF Call, Steps
    <2>2. proc' = [proc EXCEPT ![p] = x] /\ lock' = p /\ x.candidate \in Records
          /\ proc[p].pc \in Working
      BY <1>1, <1>3, <2>1
      DEF Goto, At, Working, Steps, Inv, Discipline, LockHeld, ExchangesHaveCandidates
    <2> HIDE DEF x
    <2>3. \A q \in Procs \ {p} : proc[q].pc \notin Working
      BY <2>2, HolderAlone
    <2>4. QED
      BY <1>1, <2>1, <2>2, <2>3, HolderMoves
      DEF Working, Steps, Inv, TypeOK, SelectedObjectSurvives
  <1>4. QED BY <1>2, <1>3 DEF Compare

LEMMA CreateObjectPreserves ==
  ASSUME Inv, NEW p \in Procs, CreateObject(p)
  PROVE  Inv'
  <1>1. /\ proc[p] \in Call /\ At(p, "creating") /\ proc[p].candidate \in Records
        /\ UNCHANGED <<credential, lock>> /\ lock' = p /\ proc[p].pc \in Working
    BY DEF CreateObject, Inv, TypeOK, Discipline, ExchangesHaveCandidates, LockHeld,
           Working, Steps, At
  <1>2. PICK o \in Objects :
          /\ objects[o] = Absent
          /\ objects' = [objects EXCEPT ![o] = [data |-> "partial",
                                                record |-> proc[p].candidate]]
          /\ proc' = [proc EXCEPT ![p].pc = "writing", ![p].object = o]
    BY DEF CreateObject
  <1> DEFINE x == [proc[p] EXCEPT !.pc = "writing", !.object = o]
             f == [data |-> "partial", record |-> proc[p].candidate]
  <1>3. x \in Call /\ x.pc = "writing" /\ x.op = proc[p].op /\ x.object = o
        /\ x.candidate = proc[p].candidate
    BY <1>1 DEF Call, Steps
  <1>4. f \in File
    BY <1>1 DEF File
  <1>5. proc' = [proc EXCEPT ![p] = x] /\ objects' = [objects EXCEPT ![o] = f]
    BY <1>2
  <1> HIDE DEF x, f
  <1>6. /\ objects' \in [Objects -> File \cup {Absent}]
        /\ \A u \in Objects : objects'[u] = IF u = o THEN f ELSE objects[u]
    BY <1>4, <1>5 DEF Inv, TypeOK
  <1>7. credential # o /\ (credential # NoObject => credential \in Objects)
    BY <1>2, ObjectAssumption DEF Inv, TypeOK, SelectedObjectSurvives
  <1>8. SelectedObjectSurvives'
    BY <1>1, <1>6, <1>7 DEF Inv, SelectedObjectSurvives
  <1>9. \A q \in Procs \ {p} : proc[q].pc \notin Working
    BY <1>1, HolderAlone
  <1>10. o # NoObject /\ f # Absent
    BY <1>4, ObjectAssumption, AbsentAssumption
  <1>11. QED
    BY <1>1, <1>3, <1>5, <1>6, <1>7, <1>8, <1>9, <1>10, HolderMoves
    DEF Working, Steps, Inv, TypeOK

(***************************************************************************)
(* The holder at step `from` goes on to step `to`.                         *)
(***************************************************************************)
LEMMA HolderGoesOn ==
  ASSUME Inv, NEW p \in Procs, proc[p].pc \in Working, NEW step \in Working, Goto(p, step)
  PROVE  /\ proc' = [proc EXCEPT ![p] = [proc[p] EXCEPT !.pc = step]]
         /\ [proc[p] EXCEPT !.pc = step] \in Call
         /\ [proc[p] EXCEPT !.pc = step].pc = step
         /\ [proc[p] EXCEPT !.pc = step].op = proc[p].op
         /\ [proc[p] EXCEPT !.pc = step].candidate = proc[p].candidate
         /\ [proc[p] EXCEPT !.pc = step].object = proc[p].object
         /\ proc[p].op = "exchange" => proc[p].candidate \in Records
         /\ lock = p
         /\ \A q \in Procs \ {p} : proc[q].pc \notin Working
  <1>1. proc[p] \in Call
    BY DEF Inv, TypeOK
  <1>2. \A q \in Procs \ {p} : proc[q].pc \notin Working
    BY HolderAlone
  <1>3. QED
    BY <1>1, <1>2 DEF Goto, Call, Working, Inv, Discipline, LockHeld, ExchangesHaveCandidates

LEMMA FileAdvances ==
  ASSUME Inv, NEW p \in Procs, proc[p].pc \in {"writing", "syncing"},
         NEW d \in {"written", "synced"},
         objects' = [objects EXCEPT ![proc[p].object].data = d]
  PROVE  /\ proc[p].object \in Objects /\ proc[p].object # NoObject
         /\ objects' \in [Objects -> File \cup {Absent}]
         /\ objects'[proc[p].object] # Absent
         /\ objects'[proc[p].object].data = d
         /\ \A u \in Objects : u # proc[p].object => objects'[u] = objects[u]
  <1> DEFINE o == proc[p].object
             f == [objects[o] EXCEPT !.data = d]
  <1>1. proc[p] \in Call
    BY DEF Inv, TypeOK
  <1>2. o # NoObject /\ o \in Objects
    BY <1>1 DEF Inv, Discipline, SavedBeforeSelected, Call
  <1>3. objects[o] \in File
    BY <1>1, <1>2 DEF Inv, TypeOK, Discipline, SavedBeforeSelected
  <1>4. f \in File /\ f.data = d
    BY <1>3 DEF File
  <1>5. objects' = [objects EXCEPT ![o] = f]
    OBVIOUS
  <1> HIDE DEF f, o
  <1>6. objects' \in [Objects -> File \cup {Absent}] /\ objects'[o] = f
        /\ \A u \in Objects : u # o => objects'[u] = objects[u]
    BY <1>2, <1>4, <1>5 DEF Inv, TypeOK
  <1>7. QED BY <1>2, <1>4, <1>6, AbsentAssumption DEF o

LEMMA WriteObjectPreserves ==
  ASSUME Inv, NEW p \in Procs, WriteObject(p)
  PROVE  Inv'
  <1> DEFINE x == [proc[p] EXCEPT !.pc = "syncing"]
  <1>1. /\ proc[p].pc = "writing" /\ Goto(p, "syncing") /\ UNCHANGED <<credential, lock>>
        /\ objects' = [objects EXCEPT ![proc[p].object].data = "written"]
        /\ proc[p].pc \in Working /\ "syncing" \in Working
    BY DEF WriteObject, At, Working, Steps
  <1>2. /\ proc' = [proc EXCEPT ![p] = x] /\ x \in Call /\ x.pc = "syncing"
        /\ x.op = proc[p].op /\ x.candidate = proc[p].candidate /\ x.object = proc[p].object
        /\ proc[p].op = "exchange" => proc[p].candidate \in Records
        /\ lock = p /\ \A q \in Procs \ {p} : proc[q].pc \notin Working
    BY <1>1, HolderGoesOn
  <1>3. /\ proc[p].object \in Objects /\ proc[p].object # NoObject
        /\ objects' \in [Objects -> File \cup {Absent}]
        /\ objects'[proc[p].object] # Absent
        /\ \A u \in Objects : u # proc[p].object => objects'[u] = objects[u]
    BY <1>1, FileAdvances
  <1>4. credential # proc[p].object
    BY <1>1 DEF Inv, Discipline, SavedBeforeSelected
  <1>5. SelectedObjectSurvives'
    BY <1>1, <1>3, <1>4 DEF Inv, TypeOK, SelectedObjectSurvives
  <1> HIDE DEF x
  <1>6. QED BY <1>1, <1>2, <1>3, <1>4, <1>5, HolderMoves DEF Inv, TypeOK

LEMMA SyncObjectPreserves ==
  ASSUME Inv, NEW p \in Procs, SyncObject(p)
  PROVE  Inv'
  <1> DEFINE x == [proc[p] EXCEPT !.pc = "selecting"]
  <1>1. /\ proc[p].pc = "syncing" /\ Goto(p, "selecting") /\ UNCHANGED <<credential, lock>>
        /\ objects' = [objects EXCEPT ![proc[p].object].data = "synced"]
        /\ proc[p].pc \in Working /\ "selecting" \in Working
    BY DEF SyncObject, At, Working, Steps
  <1>2. /\ proc' = [proc EXCEPT ![p] = x] /\ x \in Call /\ x.pc = "selecting"
        /\ x.op = proc[p].op /\ x.candidate = proc[p].candidate /\ x.object = proc[p].object
        /\ proc[p].op = "exchange" => proc[p].candidate \in Records
        /\ lock = p /\ \A q \in Procs \ {p} : proc[q].pc \notin Working
    BY <1>1, HolderGoesOn
  <1>3. /\ proc[p].object \in Objects /\ proc[p].object # NoObject
        /\ objects' \in [Objects -> File \cup {Absent}]
        /\ objects'[proc[p].object] # Absent
        /\ objects'[proc[p].object].data = "synced"
        /\ \A u \in Objects : u # proc[p].object => objects'[u] = objects[u]
    BY <1>1, FileAdvances
  <1>4. SelectedObjectSurvives'
    BY <1>1, <1>3 DEF Inv, TypeOK, SelectedObjectSurvives
  <1> HIDE DEF x
  <1>5. QED BY <1>1, <1>2, <1>3, <1>4, HolderMoves DEF Inv, TypeOK

LEMMA WriteHeadPreserves ==
  ASSUME Inv, NEW p \in Procs, WriteHead(p)
  PROVE  Inv'
  <1>1. /\ proc[p].pc = "selecting" /\ objects' = objects /\ proc[p].pc \in Working
        /\ proc[p] \in Call
    BY DEF WriteHead, At, Working, Steps, Inv, TypeOK
  <1>2. CASE Return(p, "Indeterminate") /\ UNCHANGED credential
    BY <1>1, <1>2, ReturnPreserves DEF Answers
  <1>3. ASSUME NEW step \in {"selected", "unsure"}, Goto(p, step),
               credential' = proc[p].object, UNCHANGED lock
        PROVE  Inv'
    <2> DEFINE x == [proc[p] EXCEPT !.pc = step]
    <2>1. step \in Working
      BY DEF Working, Steps
    <2>2. /\ proc' = [proc EXCEPT ![p] = x] /\ x \in Call /\ x.pc = step
          /\ x.op = proc[p].op /\ x.candidate = proc[p].candidate
          /\ proc[p].op = "exchange" => proc[p].candidate \in Records
          /\ lock = p /\ \A q \in Procs \ {p} : proc[q].pc \notin Working
      BY <1>1, <1>3, <2>1, HolderGoesOn
    <2>3. /\ proc[p].object \in Objects /\ objects[proc[p].object] # Absent
          /\ objects[proc[p].object].data = "synced"
      BY <1>1 DEF Inv, Discipline, SavedBeforeSelected, At, Call
    <2>4. SelectedObjectSurvives'
      BY <1>1, <1>3, <2>3 DEF SelectedObjectSurvives
    <2> HIDE DEF x
    <2>5. QED BY <1>1, <1>3, <2>1, <2>2, <2>3, <2>4, HolderMoves DEF Inv, TypeOK
  <1>4. QED BY <1>2, <1>3 DEF WriteHead

LEMMA StartCleanupPreserves ==
  ASSUME Inv, NEW p \in Procs, StartCleanup(p)
  PROVE  Inv'
  <1> DEFINE x == [proc[p] EXCEPT !.pc = "removing", !.object = credential]
  <1>1. /\ proc[p].pc = "reading" /\ proc[p].op = "cleanup" /\ proc[p] \in Call
        /\ UNCHANGED <<credential, objects, lock>> /\ proc[p].pc \in Working
        /\ proc' = [proc EXCEPT ![p] = x]
    BY DEF StartCleanup, At, Working, Steps, Inv, TypeOK
  <1>2. x \in Call /\ x.pc = "removing" /\ x.op = "cleanup" /\ x.object = credential
    BY <1>1 DEF Call, Steps, Inv, TypeOK
  <1>3. lock' = p /\ \A q \in Procs \ {p} : proc[q].pc \notin Working
    BY <1>1, HolderAlone DEF Inv, Discipline, LockHeld
  <1>4. SelectedObjectSurvives'
    BY <1>1 DEF Inv, SelectedObjectSurvives
  <1> HIDE DEF x
  <1>5. QED BY <1>1, <1>2, <1>3, <1>4, HolderMoves DEF Inv, TypeOK, Working, Steps

LEMMA RemoveObjectPreserves ==
  ASSUME Inv, NEW p \in Procs, RemoveObject(p)
  PROVE  Inv'
  <1> DEFINE x == [proc[p] EXCEPT !.removed = @ + 1]
  <1>1. /\ proc[p].pc = "removing" /\ proc[p] \in Call /\ proc[p].removed < MaxRemoved
        /\ UNCHANGED <<credential, lock>> /\ proc[p].pc \in Working
        /\ proc' = [proc EXCEPT ![p] = x]
    BY DEF RemoveObject, UnselectedObjects, BatchLeft, At, Working, Steps, Inv, TypeOK
  <1>2. proc[p].removed + 1 \in 0..MaxRemoved
    BY <1>1, CleanupAssumption DEF Call
  <1>3. x \in Call /\ x.pc = "removing" /\ x.op = proc[p].op /\ x.object = proc[p].object
        /\ x.candidate = proc[p].candidate
    BY <1>1, <1>2 DEF Call
  <1>4. lock' = p /\ \A q \in Procs \ {p} : proc[q].pc \notin Working
    BY <1>1, HolderAlone DEF Inv, Discipline, LockHeld
  <1>5. PICK o \in Objects \ {proc[p].object} : objects' = [objects EXCEPT ![o] = Absent]
    BY DEF RemoveObject, UnselectedObjects
  <1>6. proc[p].op = "exchange" => proc[p].candidate \in Records
    BY DEF Inv, Discipline, ExchangesHaveCandidates
  <1>7. credential \in {proc[p].object, NoObject}
    BY <1>1 DEF Inv, Discipline, CleanupKnowsSelected, At
  <1>8. objects' \in [Objects -> File \cup {Absent}]
    BY <1>5 DEF Inv, TypeOK
  <1>9. SelectedObjectSurvives'
    BY <1>1, <1>5, <1>7 DEF Inv, TypeOK, SelectedObjectSurvives
  <1> HIDE DEF x
  <1>10. QED
    BY <1>1, <1>3, <1>4, <1>6, <1>7, <1>8, <1>9, HolderMoves DEF Inv, TypeOK

-----------------------------------------------------------------------------
LEMMA PowerLossPreserves == Inv /\ PowerLoss => Inv'
  <1> SUFFICES ASSUME Inv, PowerLoss PROVE Inv'
    OBVIOUS
  <1>1. \A q \in Procs : proc[q].pc = "idle"
    BY DEF PowerLoss, At
  <1>2. PICK o \in Objects :
          /\ objects[o] # Absent
          /\ objects[o].data = "written"
          /\ objects' = [objects EXCEPT ![o].data = "partial"]
    BY DEF PowerLoss
  <1>3. UNCHANGED <<credential, lock, proc>>
    BY DEF PowerLoss
  <1> DEFINE f == [objects[o] EXCEPT !.data = "partial"]
  <1>4. f \in File /\ objects' = [objects EXCEPT ![o] = f]
    BY <1>2 DEF Inv, TypeOK, File
  <1> HIDE DEF f
  <1>5. TypeOK'
    BY <1>3, <1>4 DEF Inv, TypeOK
  <1>6. credential # o \/ credential = NoObject
    BY <1>2 DEF Inv, SelectedObjectSurvives
  <1>7. SelectedObjectSurvives'
    BY <1>2, <1>3, <1>4, <1>6, ObjectAssumption DEF Inv, TypeOK, SelectedObjectSurvives
  <1>8. Discipline'
    BY <1>1, <1>3
    DEF Inv, Discipline, LockHeld, Working, ExchangesHaveCandidates, SavedBeforeSelected,
        CleanupKnowsSelected, At
  <1>9. QED BY <1>5, <1>7, <1>8 DEF Inv

LEMMA VanishPreserves == Inv /\ Vanish => Inv'
  <1> SUFFICES ASSUME Inv, Vanish PROVE Inv'
    OBVIOUS
  <1>1. credential' = NoObject /\ UNCHANGED <<objects, lock, proc>>
    BY DEF Vanish
  <1>2. TypeOK' /\ SelectedObjectSurvives'
    BY <1>1 DEF Inv, TypeOK, SelectedObjectSurvives
  <1>3. LockHeld' /\ ExchangesHaveCandidates' /\ CleanupKnowsSelected'
    BY <1>1
    DEF Inv, Discipline, LockHeld, ExchangesHaveCandidates, CleanupKnowsSelected, At
  <1>4. SavedBeforeSelected'
    BY <1>1 DEF Inv, Discipline, SavedBeforeSelected, At
  <1>5. QED BY <1>2, <1>3, <1>4 DEF Inv, Discipline

LEMMA RunPreserves ==
  ASSUME Inv, NEW p \in Procs, Run(p)
  PROVE  Inv'
  <1>1. ASSUME NEW a \in Answers, Return(p, a), UNCHANGED <<credential, objects>>
        PROVE  Inv'
    BY <1>1, ReturnPreserves
  <1>2. /\ Refusal(p) \in Answers
        /\ {"Done", "Failed", "Applied", "NotCommitted", "Indeterminate"} \subseteq Answers
    BY DEF Refusal, Answers
  <1>3. CASE TakeLock(p)
    BY <1>3, TakeLockPreserves
  <1>4. CASE GiveUpLock(p)
    BY <1>1, <1>2, <1>4 DEF GiveUpLock
  <1>5. CASE Load(p)
    BY <1>1, <1>2, <1>5 DEF Load
  <1>6. CASE Exchange(p)
    <2>1. CASE ExchangeReadFails(p) \/ SaveFails(p) \/ ReportUnsure(p) \/ Verify(p)
      BY <1>1, <1>2, <2>1 DEF ExchangeReadFails, SaveFails, ReportUnsure, Verify
    <2>2. QED
      BY <1>6, <2>1, ComparePreserves, CreateObjectPreserves, WriteObjectPreserves,
         SyncObjectPreserves, WriteHeadPreserves DEF Exchange
  <1>7. CASE Cleanup(p)
    <2>1. CASE CleanupDone(p) \/ CleanupFails(p)
      BY <1>1, <1>2, <2>1 DEF CleanupDone, CleanupFails
    <2>2. QED BY <1>7, <2>1, StartCleanupPreserves, RemoveObjectPreserves DEF Cleanup
  <1>8. QED BY <1>3, <1>4, <1>5, <1>6, <1>7 DEF Run

LEMMA InitEstablishes == Init => Inv
  <1> SUFFICES ASSUME Init PROVE Inv
    OBVIOUS
  <1>1. Idle("none") \in Call /\ Idle("none").pc = "idle" /\ Idle("none").op = "load"
    BY IdleIsCall DEF Answers
  <1>2. TypeOK
    BY <1>1 DEF Init, TypeOK
  <1>3. \A p \in Procs : proc[p].pc = "idle" /\ proc[p].op = "load"
    BY <1>1 DEF Init
  <1>4. Discipline
    BY <1>3 DEF Discipline, LockHeld, Working, ExchangesHaveCandidates, SavedBeforeSelected,
                CleanupKnowsSelected, At
  <1>5. SelectedObjectSurvives
    BY DEF Init, SelectedObjectSurvives
  <1>6. QED BY <1>2, <1>4, <1>5 DEF Inv

LEMMA NextPreserves == Inv /\ [Next]_vars => Inv'
  <1> SUFFICES ASSUME Inv, [Next]_vars PROVE Inv'
    OBVIOUS
  <1>1. CASE UNCHANGED vars
    <2>1. UNCHANGED <<credential, objects, lock, proc>>
      BY <1>1 DEF vars
    <2>2. TypeOK' /\ SelectedObjectSurvives'
      BY <2>1 DEF Inv, TypeOK, SelectedObjectSurvives
    <2>3. Discipline'
      BY <2>1 DEF Inv, Discipline, LockHeld, ExchangesHaveCandidates, SavedBeforeSelected,
                  CleanupKnowsSelected, At
    <2>4. QED BY <2>2, <2>3 DEF Inv
  <1>2. ASSUME NEW p \in Procs, Kill(p)
        PROVE  Inv'
    BY <1>2, ReturnPreserves DEF Kill, Answers
  <1>3. QED
    BY <1>1, <1>2, BeginPreserves, RunPreserves, PowerLossPreserves, VanishPreserves DEF Next

(***************************************************************************)
(* Whatever is killed, fails, loses power or is cleaned up, the credential *)
(* names an object that is completely on the disk (windows.rs save_object, *)
(* write_head, cleanup_unselected under the publication lock).             *)
(***************************************************************************)
THEOREM SelectedSurvives == Spec => []SelectedObjectSurvives
  <1>1. Inv => SelectedObjectSurvives
    BY DEF Inv
  <1>2. QED BY <1>1, InitEstablishes, NextPreserves, PTL DEF Spec

(***************************************************************************)
(* The variables keep their types; a cleanup removes at most MaxRemoved    *)
(* objects (the loop of cleanup_unselected stops at its maximum).          *)
(***************************************************************************)
THEOREM Types == Spec => []TypeOK
  <1>1. Inv => TypeOK
    BY DEF Inv
  <1>2. QED BY <1>1, InitEstablishes, NextPreserves, PTL DEF Spec

(***************************************************************************)
(* Everything past the wait is under the lock, objects are synced before   *)
(* they are selected, and a cleanup knows the selected one.                *)
(***************************************************************************)
THEOREM DisciplineKept == Spec => [](TypeOK /\ Discipline)
  <1>1. Inv => TypeOK /\ Discipline
    BY DEF Inv
  <1>2. QED BY <1>1, InitEstablishes, NextPreserves, PTL DEF Spec

-----------------------------------------------------------------------------
(***************************************************************************)
(* What the register needs to know of a publication: it is the only one    *)
(* under the lock, the head stays the expected record from the comparison  *)
(* to the selection, and the object it selects holds its candidate.        *)
(***************************************************************************)
Publishing == {"creating", "writing", "syncing", "selecting", "selected", "unsure"}

LockUsed == \A p \in Procs : lock = p => proc[p].pc \in Working

OperationsMatch ==
    \A p \in Procs :
       /\ proc[p].pc \in Publishing => proc[p].op = "exchange"
       /\ At(p, "removing") => proc[p].op # "exchange"
       /\ At(p, "idle") => proc[p].op # "exchange"
       /\ proc[p].op # "exchange" =>
             proc[p].expected = NoRecord /\ proc[p].candidate = NoRecord

HeadIsExpected ==
    \A p \in Procs :
       proc[p].pc \in {"creating", "writing", "syncing", "selecting"} =>
          CurrentRecord = proc[p].expected

ObjectIsCandidate ==
    \A p \in Procs :
       proc[p].pc \in {"writing", "syncing", "selecting"} =>
          objects[proc[p].object].record = proc[p].candidate

RefInv == Inv /\ LockUsed /\ OperationsMatch /\ HeadIsExpected /\ ObjectIsCandidate

RegisterStep == [Register!RegNext]_(Register!regVars)

(***************************************************************************)
(* The mapped call and publication of a process.                           *)
(***************************************************************************)
LEMMA OnlyHolderInside ==
  ASSUME NEW p \in Procs, Inside(p)
  PROVE  RegisterWrite = PublicationOf(p)
  BY DEF RegisterWrite, Inside

LEMMA InsideIsWrite ==
  ASSUME Inv, NEW p \in Procs, Inside(p)
  PROVE  RegisterWrite # NoWrite
  <1>1. proc[p] \in Call /\ proc[p].candidate \in Records
    BY DEF Inv, TypeOK, Discipline, ExchangesHaveCandidates, Inside
  <1>2. PublicationOf(p) \in [by: Procs, expected: Records \cup {NoRecord}, candidate: Records,
                              selected: BOOLEAN]
    BY <1>1 DEF PublicationOf, Call
  <1>3. QED BY <1>2, OnlyHolderInside, NoWriteAssumption

(***************************************************************************)
(* A call that ends.                                                       *)
(***************************************************************************)
LEMMA ReturnMaps ==
  ASSUME RefInv, NEW p \in Procs, NEW a \in Answers, Return(p, a),
         UNCHANGED <<credential, objects>>
  PROVE  /\ RefInv'
         /\ CurrentRecord' = CurrentRecord
         /\ RegisterCall' = [RegisterCall EXCEPT ![p] = Register!IdleCall]
         /\ RegisterWrite' = IF Inside(p) THEN NoWrite ELSE RegisterWrite
  <1>1. Inv'
    BY ReturnPreserves DEF RefInv
  <1>2. /\ proc' = [proc EXCEPT ![p] = Idle(a)]
        /\ lock' = IF lock = p THEN NoProc ELSE lock
    BY DEF Return, Unlock
  <1>3. \A q \in Procs : proc'[q] = IF q = p THEN Idle(a) ELSE proc[q]
    BY <1>2 DEF RefInv, Inv, TypeOK
  <1>4. /\ Idle(a).pc = "idle" /\ Idle(a).op = "load"
        /\ Idle(a).expected = NoRecord /\ Idle(a).candidate = NoRecord
    BY DEF Idle
  <1>5. CurrentRecord' = CurrentRecord
    BY DEF CurrentRecord
  <1>6. LockUsed'
    BY <1>2, <1>3, ProcAssumption DEF RefInv, LockUsed
  <1>7. OperationsMatch'
    BY <1>3, <1>4 DEF RefInv, OperationsMatch, Publishing, At
  <1>8. HeadIsExpected' /\ ObjectIsCandidate'
    BY <1>3, <1>4, <1>5 DEF RefInv, HeadIsExpected, ObjectIsCandidate
  <1>9. \A q \in Procs : q # p => lock' = q <=> lock = q
    BY <1>2, ProcAssumption
  <1>10. RegisterCall' = [RegisterCall EXCEPT ![p] = Register!IdleCall]
    <2>1. CallOf(p)' = Register!IdleCall
      BY <1>3, <1>4 DEF CallOf, Register!IdleCall
    <2>2. \A q \in Procs : q # p => CallOf(q)' = CallOf(q)
      BY <1>3, <1>9 DEF CallOf
    <2>3. QED BY <2>1, <2>2 DEF RegisterCall
  <1>11. RegisterWrite' = IF Inside(p) THEN NoWrite ELSE RegisterWrite
    <2>1. ~Inside(p)'
      BY <1>3, <1>4 DEF Inside
    <2>2. \A q \in Procs : q # p => Inside(q)' = Inside(q)
      BY <1>3, <1>9 DEF Inside
    <2>3. CASE \E q \in Procs : q # p /\ Inside(q)
      <3>1. PICK q \in Procs : q # p /\ Inside(q)
        BY <2>3
      <3>2. lock = q /\ lock' = q /\ proc'[q] = proc[q] /\ Inside(q)' /\ ~Inside(p)
        BY <1>2, <1>3, <2>2, <3>1 DEF Inside
      <3>3. PublicationOf(q)' = PublicationOf(q)
        BY <3>2 DEF PublicationOf
      <3>4. RegisterWrite' = PublicationOf(q)' /\ RegisterWrite = PublicationOf(q)
        BY <3>1, <3>2 DEF RegisterWrite
      <3>5. QED BY <3>2, <3>3, <3>4
    <2>4. CASE \A q \in Procs : q # p => ~Inside(q)
      BY <2>1, <2>2, <2>4 DEF RegisterWrite
    <2>5. QED BY <2>3, <2>4
  <1>12. QED BY <1>1, <1>5, <1>6, <1>7, <1>8, <1>10, <1>11 DEF RefInv

(***************************************************************************)
(* The lock's holder goes on with the same operation.                      *)
(***************************************************************************)
LEMMA HolderMaps ==
  ASSUME RefInv, Inv', NEW p \in Procs, proc[p].pc \in Working, NEW x \in Call, x.pc \in Working,
         x.op = proc[p].op, x.expected = proc[p].expected, x.candidate = proc[p].candidate,
         proc' = [proc EXCEPT ![p] = x], UNCHANGED lock,
         x.pc \in Publishing => x.op = "exchange",
         x.pc = "removing" => x.op # "exchange",
         x.pc \in {"creating", "writing", "syncing", "selecting"} => CurrentRecord' = x.expected,
         x.pc \in {"writing", "syncing", "selecting"} => objects'[x.object].record = x.candidate
  PROVE  /\ RefInv'
         /\ RegisterCall' = RegisterCall
         /\ Inside(p)' = Inside(p)
         /\ Inside(p) => RegisterWrite' = [by |-> p, expected |-> x.expected,
                                           candidate |-> x.candidate,
                                           selected |-> x.pc \in {"selected", "unsure"}]
         /\ ~Inside(p) => RegisterWrite' = NoWrite /\ RegisterWrite = NoWrite
  <1>1. \A q \in Procs : proc'[q] = IF q = p THEN x ELSE proc[q]
    BY DEF RefInv, Inv, TypeOK
  <1>2. lock = p /\ \A q \in Procs \ {p} : proc[q].pc \notin Working
    BY HolderAlone DEF RefInv, Inv, Discipline, LockHeld
  <1>3. LockUsed'
    BY <1>1 DEF RefInv, LockUsed
  <1>4. OperationsMatch'
    BY <1>1 DEF RefInv, OperationsMatch, At, Working
  <1>5. HeadIsExpected'
    <2>1. ASSUME NEW q \in Procs,
                 proc'[q].pc \in {"creating", "writing", "syncing", "selecting"}
          PROVE  CurrentRecord' = proc'[q].expected
      BY <1>1, <1>2, <2>1 DEF Working, Steps
    <2>2. QED BY <2>1 DEF HeadIsExpected
  <1>6. ObjectIsCandidate'
    <2>1. ASSUME NEW q \in Procs, proc'[q].pc \in {"writing", "syncing", "selecting"}
          PROVE  objects'[proc'[q].object].record = proc'[q].candidate
      BY <1>1, <1>2, <2>1 DEF Working, Steps
    <2>2. QED BY <2>1 DEF ObjectIsCandidate
  <1>7. RegisterCall' = RegisterCall
    <2>1. \A q \in Procs : CallOf(q)' = CallOf(q)
      BY <1>1 DEF CallOf
    <2>2. QED BY <2>1 DEF RegisterCall
  <1>8. \A q \in Procs : q # p => ~Inside(q) /\ ~Inside(q)'
    BY <1>2 DEF Inside
  <1>9. Inside(p)' = Inside(p)
    BY <1>1 DEF Inside
  <1>10. ASSUME Inside(p)
         PROVE  RegisterWrite' = [by |-> p, expected |-> x.expected,
                                  candidate |-> x.candidate,
                                  selected |-> x.pc \in {"selected", "unsure"}]
    <2>1. RegisterWrite' = PublicationOf(p)'
      BY <1>2, <1>9, <1>10 DEF RegisterWrite
    <2>2. QED BY <1>1, <2>1 DEF PublicationOf
  <1>11. ASSUME ~Inside(p)
         PROVE  RegisterWrite' = NoWrite /\ RegisterWrite = NoWrite
    BY <1>8, <1>9, <1>11 DEF RegisterWrite
  <1>12. QED BY <1>3, <1>4, <1>5, <1>6, <1>7, <1>9, <1>10, <1>11 DEF RefInv

-----------------------------------------------------------------------------
(***************************************************************************)
(* Each step of the provider is one of the register, or a stutter.         *)
(***************************************************************************)
LEMMA Stutter ==
  ASSUME UNCHANGED <<CurrentRecord, RegisterCall, RegisterWrite>>
  PROVE  RegisterStep
  BY DEF RegisterStep, Register!regVars

LEMMA AnswerStep ==
  ASSUME NEW p \in Procs, NEW a \in Register!Outcomes, Register!Answer(p, a)
  PROVE  RegisterStep
  BY DEF RegisterStep, Register!RegNext

(***************************************************************************)
(* What a process may say when it stops inside, or outside, the boundary.  *)
(***************************************************************************)
Honest(p, a) ==
    /\ proc[p].op = "exchange" /\ ~Inside(p) => a \in {"NotCommitted", "Indeterminate"}
    /\ Inside(p) =>
         \/ a = "Indeterminate"
         \/ a = "Applied" /\ proc[p].pc \in {"selected", "unsure"}
         \/ a = "NotCommitted" /\ proc[p].pc \notin {"selected", "unsure"}
         \/ /\ a = "Conflict" /\ proc[p].pc \notin {"selected", "unsure"}
            /\ CurrentRecord # proc[p].expected

LEMMA ReturnAnswers ==
  ASSUME RefInv, NEW p \in Procs, NEW a \in Answers, Return(p, a),
         UNCHANGED <<credential, objects>>, Honest(p, a), proc[p].op = "exchange"
  PROVE  a \in Register!Outcomes /\ Register!Answer(p, a)
  <1>1. /\ CurrentRecord' = CurrentRecord
        /\ RegisterCall' = [RegisterCall EXCEPT ![p] = Register!IdleCall]
        /\ RegisterWrite' = IF Inside(p) THEN NoWrite ELSE RegisterWrite
    BY ReturnMaps
  <1>2. RegisterCall[p] = CallOf(p)
    BY DEF RegisterCall
  <1>3. CASE ~Inside(p)
    <2>1. RegisterCall[p].phase = "called"
      BY <1>2, <1>3 DEF CallOf, Inside
    <2>2. a \in Register!Outcomes /\ Register!AnswerOutside(p, a)
      BY <1>1, <1>3, <2>1 DEF Honest, Register!Outcomes, Register!AnswerOutside
    <2>3. QED BY <1>1, <2>2 DEF Register!Answer
  <1>4. CASE Inside(p)
    <2>1. RegisterCall[p].phase = "inside"
      BY <1>2, <1>4 DEF CallOf, Inside
    <2>2. RegisterWrite.selected = (proc[p].pc \in {"selected", "unsure"})
          /\ RegisterWrite.expected = proc[p].expected
      BY <1>4, OnlyHolderInside DEF PublicationOf
    <2>3. RegisterWrite' = NoWrite
      BY <1>1, <1>4
    <2>4. a \in Register!Outcomes /\ Register!AnswerInside(p, a)
      BY <1>4, <2>1, <2>2, <2>3
      DEF Honest, Register!Outcomes, Register!AnswerInside, Register!LeaveBoundary
    <2>5. QED BY <1>1, <2>4 DEF Register!Answer
  <1>5. QED BY <1>3, <1>4

LEMMA ReturnRefines ==
  ASSUME RefInv, NEW p \in Procs, NEW a \in Answers, Return(p, a),
         UNCHANGED <<credential, objects>>, Honest(p, a)
  PROVE  RefInv' /\ RegisterStep
  <1>1. /\ RefInv'
        /\ CurrentRecord' = CurrentRecord
        /\ RegisterCall' = [RegisterCall EXCEPT ![p] = Register!IdleCall]
        /\ RegisterWrite' = IF Inside(p) THEN NoWrite ELSE RegisterWrite
    BY ReturnMaps
  <1>2. RegisterCall[p] = CallOf(p)
    BY DEF RegisterCall
  <1>3. CASE proc[p].op # "exchange"
    <2>1. CallOf(p) = Register!IdleCall
      BY <1>3 DEF RefInv, OperationsMatch, CallOf, Register!IdleCall
    <2>2. RegisterCall' = RegisterCall
      BY <1>1, <1>2, <2>1 DEF RegisterCall
    <2>3. RegisterWrite' = RegisterWrite
      BY <1>1, <1>3 DEF Inside
    <2>4. QED BY <1>1, <2>2, <2>3, Stutter
  <1>4. CASE proc[p].op = "exchange"
    <2>1. a \in Register!Outcomes /\ Register!Answer(p, a)
      BY <1>4, ReturnAnswers
    <2>2. QED BY <1>1, <2>1, AnswerStep
  <1>5. QED BY <1>3, <1>4

LEMMA KillRefines ==
  ASSUME RefInv, NEW p \in Procs, Kill(p)
  PROVE  RefInv' /\ RegisterStep
  <1>1. /\ RefInv'
        /\ CurrentRecord' = CurrentRecord
        /\ RegisterCall' = [RegisterCall EXCEPT ![p] = Register!IdleCall]
        /\ RegisterWrite' = IF Inside(p) THEN NoWrite ELSE RegisterWrite
    BY ReturnMaps DEF Kill, Answers
  <1>2. CASE Inside(p)
    <2>1. Register!LeaveBoundary(NoProc)
      BY <1>1, <1>2 DEF Register!LeaveBoundary
    <2>2. RegisterWrite # NoWrite /\ RegisterWrite.by = p
      BY <1>2, InsideIsWrite, OnlyHolderInside DEF RefInv, PublicationOf
    <2>3. Register!Kill(p)
      BY <1>1, <2>1, <2>2 DEF Register!Kill
    <2>4. QED BY <1>1, <2>3 DEF RegisterStep, Register!RegNext
  <1>3. CASE ~Inside(p)
    <2>1. ~(RegisterWrite # NoWrite /\ RegisterWrite.by = p)
      <3>1. CASE \E q \in Procs : Inside(q)
        <4>1. PICK q \in Procs : Inside(q)
          BY <3>1
        <4>2. RegisterWrite.by = q
          BY <4>1, OnlyHolderInside DEF PublicationOf
        <4>3. QED BY <1>3, <4>1, <4>2
      <3>2. CASE ~\E q \in Procs : Inside(q)
        BY <3>2 DEF RegisterWrite
      <3>3. QED BY <3>1, <3>2
    <2>2. Register!Kill(p)
      BY <1>1, <1>3, <2>1 DEF Register!Kill
    <2>3. QED BY <1>1, <2>2 DEF RegisterStep, Register!RegNext
  <1>4. QED BY <1>2, <1>3

(***************************************************************************)
(* A call begins; only an exchange is one of the register.                 *)
(***************************************************************************)
LEMMA BeginRefines ==
  ASSUME RefInv, NEW p \in Procs, Call_(p)
  PROVE  RefInv' /\ RegisterStep
  <1>1. Inv'
    BY BeginPreserves DEF RefInv
  <1>2. PICK op \in Operations, e \in Records \cup {NoRecord}, c \in Records \cup {NoRecord} :
          /\ Begin(p, op, e, c)
          /\ op # "exchange" => e = NoRecord /\ c = NoRecord
    BY DEF Call_, Operations
  <1> DEFINE x == [pc |-> "locking", op |-> op, expected |-> e, candidate |-> c,
                   object |-> NoObject, removed |-> 0, answer |-> "none"]
  <1>3. /\ proc' = [proc EXCEPT ![p] = x] /\ UNCHANGED <<credential, objects, lock>>
        /\ proc[p].pc = "idle"
    BY <1>2 DEF Begin, At
  <1>4. x.pc = "locking" /\ x.op = op /\ x.expected = e /\ x.candidate = c
    OBVIOUS
  <1> HIDE DEF x
  <1>5. \A q \in Procs : proc'[q] = IF q = p THEN x ELSE proc[q]
    BY <1>3 DEF RefInv, Inv, TypeOK
  <1>6. lock # p
    BY <1>3 DEF RefInv, LockUsed, Working
  <1>7. CurrentRecord' = CurrentRecord
    BY <1>3 DEF CurrentRecord
  <1>8. LockUsed'
    BY <1>3, <1>5, <1>6 DEF RefInv, LockUsed
  <1>9. OperationsMatch'
    BY <1>2, <1>4, <1>5 DEF RefInv, OperationsMatch, At, Publishing
  <1>10. HeadIsExpected' /\ ObjectIsCandidate'
    BY <1>3, <1>4, <1>5, <1>7 DEF RefInv, HeadIsExpected, ObjectIsCandidate
  <1>11. RefInv'
    BY <1>1, <1>8, <1>9, <1>10 DEF RefInv
  <1>12. RegisterWrite' = RegisterWrite
    <2>1. \A q \in Procs : Inside(q)' = Inside(q)
      BY <1>3, <1>5, <1>6 DEF Inside
    <2>2. \A q \in Procs : Inside(q) => q = lock /\ q # p
      BY <1>6 DEF Inside
    <2>3. \A q \in Procs : q # p => PublicationOf(q)' = PublicationOf(q)
      BY <1>5 DEF PublicationOf
    <2>4. CASE \E q \in Procs : Inside(q)
      <3>1. lock \in Procs /\ lock # p /\ lock' = lock
        BY <1>3, <2>2, <2>4
      <3>2. PublicationOf(lock)' = PublicationOf(lock)
        BY <1>5, <3>1 DEF PublicationOf
      <3>3. QED BY <2>1, <2>4, <3>2 DEF RegisterWrite
    <2>5. CASE ~\E q \in Procs : Inside(q)
      BY <2>1, <2>5 DEF RegisterWrite
    <2>6. QED BY <2>4, <2>5
  <1>13. \A q \in Procs : q # p => CallOf(q)' = CallOf(q)
    BY <1>3, <1>5 DEF CallOf
  <1>14. CASE op = "exchange"
    <2>1. CallOf(p)' = [phase |-> "called", expected |-> e, candidate |-> c]
      BY <1>3, <1>4, <1>5, <1>6, <1>14 DEF CallOf
    <2>2. RegisterCall' = [RegisterCall EXCEPT ![p] = [phase |-> "called", expected |-> e,
                                                       candidate |-> c]]
      BY <1>13, <2>1 DEF RegisterCall
    <2>3. RegisterCall'[p].expected = e /\ RegisterCall'[p].candidate = c
      BY <2>1 DEF RegisterCall
    <2>4. RegisterCall[p].phase = "idle"
      BY <1>3 DEF RegisterCall, CallOf, RefInv, OperationsMatch, At
    <2>5. Register!Invoke(p, RegisterCall'[p].expected, RegisterCall'[p].candidate)
      BY <1>7, <1>12, <2>2, <2>3, <2>4 DEF Register!Invoke
    <2>6. QED BY <1>11, <2>5 DEF RegisterStep, Register!RegNext
  <1>15. CASE op # "exchange"
    <2>1. CallOf(p)' = CallOf(p)
      BY <1>2, <1>3, <1>4, <1>5, <1>15 DEF CallOf, RefInv, OperationsMatch, At
    <2>2. RegisterCall' = RegisterCall
      BY <1>13, <2>1 DEF RegisterCall
    <2>3. QED BY <1>7, <1>11, <1>12, <2>2, Stutter
  <1>16. QED BY <1>14, <1>15

LEMMA TakeLockRefines ==
  ASSUME RefInv, NEW p \in Procs, TakeLock(p)
  PROVE  RefInv' /\ RegisterStep
  <1> DEFINE x == [proc[p] EXCEPT !.pc = "reading"]
  <1>1. Inv'
    BY TakeLockPreserves DEF RefInv
  <1>2. /\ proc[p] \in Call /\ proc[p].pc = "locking" /\ lock = NoProc /\ lock' = p
        /\ proc' = [proc EXCEPT ![p] = x] /\ UNCHANGED <<credential, objects>>
    BY DEF TakeLock, LockFree, Goto, At, RefInv, Inv, TypeOK
  <1>3. /\ x.pc = "reading" /\ x.op = proc[p].op /\ x.expected = proc[p].expected
        /\ x.candidate = proc[p].candidate
    BY <1>2 DEF Call
  <1> HIDE DEF x
  <1>4. \A q \in Procs : proc'[q] = IF q = p THEN x ELSE proc[q]
    BY <1>2 DEF RefInv, Inv, TypeOK
  <1>5. CurrentRecord' = CurrentRecord
    BY <1>2 DEF CurrentRecord
  <1>6. LockUsed'
    BY <1>2, <1>3, <1>4 DEF LockUsed, Working, Steps
  <1>7. OperationsMatch'
    BY <1>3, <1>4 DEF RefInv, OperationsMatch, At, Publishing
  <1>8. HeadIsExpected' /\ ObjectIsCandidate'
    BY <1>2, <1>3, <1>4, <1>5 DEF RefInv, HeadIsExpected, ObjectIsCandidate
  <1>9. RefInv'
    BY <1>1, <1>6, <1>7, <1>8 DEF RefInv
  <1>10. \A q \in Procs : lock # q /\ (q # p => lock' # q) /\ ~Inside(q)
    BY <1>2, ProcAssumption DEF Inside
  <1>11. RegisterWrite = NoWrite
    BY <1>10 DEF RegisterWrite
  <1>12. \A q \in Procs : q # p => CallOf(q)' = CallOf(q) /\ ~Inside(q)'
    BY <1>4, <1>10 DEF CallOf, Inside
  <1>13. CASE proc[p].op = "exchange"
    <2>1. CallOf(p) = [phase |-> "called", expected |-> proc[p].expected,
                       candidate |-> proc[p].candidate]
      BY <1>10, <1>13 DEF CallOf
    <2>2. CallOf(p)' = [phase |-> "inside", expected |-> proc[p].expected,
                        candidate |-> proc[p].candidate]
      BY <1>2, <1>3, <1>4, <1>13 DEF CallOf
    <2>3. CallOf(p)' = [CallOf(p) EXCEPT !.phase = "inside"]
      BY <2>1, <2>2
    <2>4. RegisterCall' = [RegisterCall EXCEPT ![p].phase = "inside"]
      BY <1>12, <2>3 DEF RegisterCall
    <2>5. RegisterWrite' = [by |-> p, expected |-> proc[p].expected,
                            candidate |-> proc[p].candidate, selected |-> FALSE]
      <3>1. Inside(p)'
        BY <1>2, <1>3, <1>4, <1>13 DEF Inside
      <3>2. RegisterWrite' = PublicationOf(p)'
        BY <1>2, <3>1 DEF RegisterWrite
      <3>3. (x.pc \in {"selected", "unsure"}) = FALSE
        BY <1>3
      <3>4. QED BY <1>3, <1>4, <3>2, <3>3 DEF PublicationOf
    <2>6. /\ RegisterCall[p].phase = "called"
          /\ RegisterCall[p].expected = proc[p].expected
          /\ RegisterCall[p].candidate = proc[p].candidate
      BY <2>1 DEF RegisterCall
    <2>7. Register!Enter(p)
      BY <1>5, <1>11, <2>4, <2>5, <2>6 DEF Register!Enter
    <2>8. QED BY <1>9, <2>7 DEF RegisterStep, Register!RegNext
  <1>14. CASE proc[p].op # "exchange"
    <2>1. CallOf(p)' = CallOf(p) /\ ~Inside(p)'
      BY <1>3, <1>4, <1>14 DEF CallOf, Inside
    <2>2. RegisterCall' = RegisterCall
      BY <1>12, <2>1 DEF RegisterCall
    <2>3. RegisterWrite' = RegisterWrite
      BY <1>11, <1>12, <2>1 DEF RegisterWrite
    <2>4. QED BY <1>5, <1>9, <2>2, <2>3, Stutter
  <1>15. QED BY <1>13, <1>14

(***************************************************************************)
(* The holder goes on and selects nothing: the register stutters.          *)
(***************************************************************************)
LEMMA HolderStutters ==
  ASSUME RefInv, Inv', NEW p \in Procs, proc[p].pc \in Working, NEW x \in Call, x.pc \in Working,
         x.op = proc[p].op, x.expected = proc[p].expected, x.candidate = proc[p].candidate,
         proc' = [proc EXCEPT ![p] = x], UNCHANGED lock,
         x.pc \in Publishing => x.op = "exchange",
         x.pc = "removing" => x.op # "exchange",
         x.pc \in {"creating", "writing", "syncing", "selecting"} => CurrentRecord' = x.expected,
         x.pc \in {"writing", "syncing", "selecting"} => objects'[x.object].record = x.candidate,
         proc[p].pc \notin {"selected", "unsure"}, x.pc \notin {"selected", "unsure"},
         CurrentRecord' = CurrentRecord
  PROVE  RefInv' /\ RegisterStep
  <1>1. /\ RefInv'
        /\ RegisterCall' = RegisterCall
        /\ Inside(p) => RegisterWrite' = [by |-> p, expected |-> x.expected,
                                          candidate |-> x.candidate,
                                          selected |-> x.pc \in {"selected", "unsure"}]
        /\ ~Inside(p) => RegisterWrite' = NoWrite /\ RegisterWrite = NoWrite
    BY HolderMaps
  <1>2. RegisterWrite' = RegisterWrite
    <2>1. CASE Inside(p)
      BY <1>1, <2>1, OnlyHolderInside DEF PublicationOf
    <2>2. CASE ~Inside(p)
      BY <1>1, <2>2
    <2>3. QED BY <2>1, <2>2
  <1>3. QED BY <1>1, <1>2, Stutter

LEMMA CompareRefines ==
  ASSUME RefInv, NEW p \in Procs, Compare(p)
  PROVE  RefInv' /\ RegisterStep
  <1>1. /\ proc[p].pc = "reading" /\ proc[p].op = "exchange" /\ proc[p] \in Call
        /\ UNCHANGED <<credential, objects>> /\ proc[p].pc \in Working
    BY DEF Compare, At, RefInv, Inv, TypeOK, Working, Steps
  <1>2. Inside(p)
    BY <1>1 DEF RefInv, Inv, Discipline, LockHeld, Inside
  <1>3. CASE CurrentRecord # proc[p].expected
    <2>1. Return(p, "Conflict")
      BY <1>3 DEF Compare
    <2>2. QED BY <1>1, <1>2, <1>3, <2>1, ReturnRefines DEF Honest, Answers
  <1>4. CASE CurrentRecord = proc[p].expected /\ ~ValidRevision(proc[p].candidate)
    <2>1. Return(p, "NotCommitted")
      BY <1>4 DEF Compare
    <2>2. QED BY <1>1, <1>2, <2>1, ReturnRefines DEF Honest, Answers
  <1>5. CASE CurrentRecord = proc[p].expected /\ ValidRevision(proc[p].candidate)
    <2> DEFINE x == [proc[p] EXCEPT !.pc = "creating"]
    <2>1. proc' = [proc EXCEPT ![p] = x] /\ UNCHANGED lock
      BY <1>5 DEF Compare, Goto
    <2>2. /\ x \in Call /\ x.pc = "creating" /\ x.op = proc[p].op
          /\ x.expected = proc[p].expected /\ x.candidate = proc[p].candidate
      BY <1>1 DEF Call, Steps
    <2>3. CurrentRecord' = CurrentRecord
      BY <1>1 DEF CurrentRecord
    <2>4. Inv'
      BY ComparePreserves DEF RefInv
    <2> HIDE DEF x
    <2>5. QED
      BY <1>1, <1>5, <2>1, <2>2, <2>3, <2>4, HolderStutters DEF Working, Steps
  <1>6. QED BY <1>3, <1>4, <1>5

LEMMA CreateObjectRefines ==
  ASSUME RefInv, NEW p \in Procs, CreateObject(p)
  PROVE  RefInv' /\ RegisterStep
  <1>1. /\ proc[p].pc = "creating" /\ proc[p] \in Call /\ proc[p].pc \in Working
        /\ UNCHANGED <<credential, lock>> /\ proc[p].op = "exchange"
        /\ CurrentRecord = proc[p].expected
    BY DEF CreateObject, At, RefInv, Inv, TypeOK, OperationsMatch, Publishing, HeadIsExpected,
           Working, Steps
  <1>2. PICK o \in Objects :
          /\ objects[o] = Absent
          /\ objects' = [objects EXCEPT ![o] = [data |-> "partial",
                                                record |-> proc[p].candidate]]
          /\ proc' = [proc EXCEPT ![p].pc = "writing", ![p].object = o]
    BY DEF CreateObject
  <1> DEFINE x == [proc[p] EXCEPT !.pc = "writing", !.object = o]
  <1>3. /\ x \in Call /\ x.pc = "writing" /\ x.op = proc[p].op /\ x.object = o
        /\ x.expected = proc[p].expected /\ x.candidate = proc[p].candidate
    BY <1>1 DEF Call, Steps
  <1>4. proc' = [proc EXCEPT ![p] = x]
    BY <1>2
  <1>5. objects'[o].record = proc[p].candidate
    BY <1>2 DEF RefInv, Inv, TypeOK
  <1>6. credential # NoObject => credential # o /\ objects'[credential] = objects[credential]
    BY <1>2 DEF RefInv, Inv, TypeOK, SelectedObjectSurvives
  <1>7. CurrentRecord' = CurrentRecord
    BY <1>1, <1>6 DEF CurrentRecord
  <1>8. Inv'
    BY CreateObjectPreserves DEF RefInv
  <1> HIDE DEF x
  <1>9. QED
    BY <1>1, <1>3, <1>4, <1>5, <1>7, <1>8, HolderStutters DEF Working, Steps

(***************************************************************************)
(* The bytes of the new object are not the head's yet.                     *)
(***************************************************************************)
LEMMA FileAdvancesRefines ==
  ASSUME RefInv, Inv', NEW p \in Procs, proc[p].pc \in {"writing", "syncing"},
         NEW d \in {"written", "synced"}, NEW step \in {"syncing", "selecting"},
         objects' = [objects EXCEPT ![proc[p].object].data = d], Goto(p, step),
         UNCHANGED <<credential, lock>>
  PROVE  RefInv' /\ RegisterStep
  <1> DEFINE x == [proc[p] EXCEPT !.pc = step]
             o == proc[p].object
  <1>1. /\ proc[p].pc \in Working /\ step \in Working /\ proc[p].op = "exchange"
        /\ proc[p] \in Call /\ CurrentRecord = proc[p].expected
        /\ objects[o].record = proc[p].candidate /\ credential # o
    BY DEF Working, Steps, RefInv, Inv, TypeOK, OperationsMatch, Publishing, HeadIsExpected,
           ObjectIsCandidate, Discipline, SavedBeforeSelected
  <1>2. /\ x \in Call /\ x.pc = step /\ x.op = proc[p].op /\ x.object = o
        /\ x.expected = proc[p].expected /\ x.candidate = proc[p].candidate
        /\ proc' = [proc EXCEPT ![p] = x]
    BY <1>1 DEF Call, Working, Goto
  <1>3. o \in Objects /\ \A u \in Objects : u # o => objects'[u] = objects[u]
    BY FileAdvances DEF RefInv
  <1>4. objects'[o].record = objects[o].record
    BY <1>3 DEF RefInv, Inv, TypeOK
  <1>5. CurrentRecord' = CurrentRecord
    BY <1>1, <1>3 DEF CurrentRecord, RefInv, Inv, TypeOK
  <1> HIDE DEF x, o
  <1>6. x.pc \in Working /\ x.pc \notin {"selected", "unsure"}
        /\ proc[p].pc \notin {"selected", "unsure"}
    BY <1>1, <1>2
  <1>7. objects'[x.object].record = x.candidate
    BY <1>1, <1>2, <1>4
  <1>8. QED BY <1>1, <1>2, <1>5, <1>6, <1>7, HolderStutters

(***************************************************************************)
(* CredWriteW is the register's selection.                                 *)
(***************************************************************************)
LEMMA SelectedRecord ==
  ASSUME NEW a, NEW e, NEW c, NEW s, NEW t
  PROVE  [by |-> a, expected |-> e, candidate |-> c, selected |-> t]
            = [[by |-> a, expected |-> e, candidate |-> c, selected |-> s] EXCEPT !.selected = t]
  OBVIOUS

LEMMA WriteHeadRefines ==
  ASSUME RefInv, NEW p \in Procs, WriteHead(p)
  PROVE  RefInv' /\ RegisterStep
  <1>1. /\ proc[p].pc = "selecting" /\ objects' = objects /\ proc[p].pc \in Working
        /\ proc[p] \in Call /\ proc[p].op = "exchange" /\ CurrentRecord = proc[p].expected
        /\ objects[proc[p].object].record = proc[p].candidate
        /\ proc[p].object # NoObject
    BY DEF WriteHead, At, Working, Steps, RefInv, Inv, TypeOK, OperationsMatch, Publishing,
           HeadIsExpected, ObjectIsCandidate, Discipline, SavedBeforeSelected
  <1>2. Inside(p)
    BY <1>1 DEF RefInv, Inv, Discipline, LockHeld, Inside
  <1>3. CASE Return(p, "Indeterminate") /\ UNCHANGED credential
    BY <1>1, <1>2, <1>3, ReturnRefines DEF Honest, Answers
  <1>4. ASSUME NEW step \in {"selected", "unsure"}, Goto(p, step),
               credential' = proc[p].object, UNCHANGED lock
        PROVE  RefInv' /\ RegisterStep
    <2> DEFINE x == [proc[p] EXCEPT !.pc = step]
    <2>1. /\ x \in Call /\ x.pc = step /\ x.op = proc[p].op
          /\ x.expected = proc[p].expected /\ x.candidate = proc[p].candidate
          /\ proc' = [proc EXCEPT ![p] = x]
      BY <1>1, <1>4 DEF Call, Steps, Goto
    <2>2. Inv'
      BY WriteHeadPreserves DEF RefInv
    <2>3. CurrentRecord' = proc[p].candidate
      BY <1>1, <1>4 DEF CurrentRecord
    <2>4. x.pc \in Working
      BY <2>1 DEF Working, Steps
    <2> HIDE DEF x
    <2>5. /\ RefInv'
          /\ RegisterCall' = RegisterCall
          /\ RegisterWrite' = [by |-> p, expected |-> x.expected, candidate |-> x.candidate,
                               selected |-> x.pc \in {"selected", "unsure"}]
      BY <1>1, <1>2, <1>4, <2>1, <2>2, <2>4, HolderMaps
    <2>6. RegisterWrite = [by |-> p, expected |-> proc[p].expected,
                           candidate |-> proc[p].candidate, selected |-> FALSE]
      <3>1. (proc[p].pc \in {"selected", "unsure"}) = FALSE
        BY <1>1
      <3>2. QED BY <1>2, <3>1, OnlyHolderInside DEF PublicationOf
    <2>7. RegisterWrite' = [by |-> p, expected |-> proc[p].expected,
                            candidate |-> proc[p].candidate, selected |-> TRUE]
      <3>1. (x.pc \in {"selected", "unsure"}) = TRUE
        BY <2>1
      <3>2. QED BY <2>1, <2>5, <3>1
    <2>8. RegisterWrite' = [RegisterWrite EXCEPT !.selected = TRUE]
      <3> DEFINE R(s) == [by |-> p, expected |-> proc[p].expected,
                          candidate |-> proc[p].candidate, selected |-> s]
      <3>1. \A s, t : R(t) = [R(s) EXCEPT !.selected = t]
        BY SelectedRecord
      <3>2. RegisterWrite = R(FALSE) /\ RegisterWrite' = R(TRUE)
        BY <2>6, <2>7
      <3> HIDE DEF R
      <3>3. R(TRUE) = [R(FALSE) EXCEPT !.selected = TRUE]
        BY <3>1, Zenon
      <3>4. QED BY <3>2, <3>3, Zenon
    <2>9. RegisterWrite # NoWrite
      BY <1>2, InsideIsWrite DEF RefInv
    <2>10. Register!Select
      BY <1>1, <2>3, <2>5, <2>6, <2>8, <2>9 DEF Register!Select, Register!Compares
    <2>11. QED BY <2>5, <2>10 DEF RegisterStep, Register!RegNext
  <1>5. QED BY <1>3, <1>4 DEF WriteHead

LEMMA WriteObjectRefines ==
  ASSUME RefInv, NEW p \in Procs, WriteObject(p)
  PROVE  RefInv' /\ RegisterStep
  <1>1. Inv'
    BY WriteObjectPreserves DEF RefInv
  <1>2. /\ proc[p].pc = "writing" /\ Goto(p, "syncing") /\ UNCHANGED <<credential, lock>>
        /\ objects' = [objects EXCEPT ![proc[p].object].data = "written"]
    BY DEF WriteObject, At
  <1>3. QED BY <1>1, <1>2, FileAdvancesRefines

LEMMA SyncObjectRefines ==
  ASSUME RefInv, NEW p \in Procs, SyncObject(p)
  PROVE  RefInv' /\ RegisterStep
  <1>1. Inv'
    BY SyncObjectPreserves DEF RefInv
  <1>2. /\ proc[p].pc = "syncing" /\ Goto(p, "selecting") /\ UNCHANGED <<credential, lock>>
        /\ objects' = [objects EXCEPT ![proc[p].object].data = "synced"]
    BY DEF SyncObject, At
  <1>3. QED BY <1>1, <1>2, FileAdvancesRefines

(***************************************************************************)
(* A cleanup never touches the object that holds the head.                 *)
(***************************************************************************)
LEMMA StartCleanupRefines ==
  ASSUME RefInv, NEW p \in Procs, StartCleanup(p)
  PROVE  RefInv' /\ RegisterStep
  <1> DEFINE x == [proc[p] EXCEPT !.pc = "removing", !.object = credential]
  <1>1. /\ proc[p].pc = "reading" /\ proc[p].op = "cleanup" /\ proc[p] \in Call
        /\ UNCHANGED <<credential, objects, lock>> /\ proc' = [proc EXCEPT ![p] = x]
    BY DEF StartCleanup, At, RefInv, Inv, TypeOK
  <1>2. /\ x \in Call /\ x.pc = "removing" /\ x.op = proc[p].op
        /\ x.expected = proc[p].expected /\ x.candidate = proc[p].candidate
    BY <1>1 DEF Call, Steps, RefInv, Inv, TypeOK
  <1>3. CurrentRecord' = CurrentRecord
    BY <1>1 DEF CurrentRecord
  <1>4. Inv'
    BY StartCleanupPreserves DEF RefInv
  <1> HIDE DEF x
  <1>5. proc[p].pc \in Working /\ x.pc \in Working /\ x.pc \notin Publishing
    BY <1>1, <1>2 DEF Working, Steps, Publishing
  <1>6. QED
    BY <1>1, <1>2, <1>3, <1>4, <1>5, HolderStutters DEF Publishing

LEMMA RemoveObjectRefines ==
  ASSUME RefInv, NEW p \in Procs, RemoveObject(p)
  PROVE  RefInv' /\ RegisterStep
  <1> DEFINE x == [proc[p] EXCEPT !.removed = @ + 1]
  <1>1. /\ proc[p].pc = "removing" /\ proc[p] \in Call /\ proc[p].removed < MaxRemoved
        /\ UNCHANGED <<credential, lock>> /\ proc' = [proc EXCEPT ![p] = x]
        /\ proc[p].op # "exchange"
    BY DEF RemoveObject, BatchLeft, At, RefInv, Inv, TypeOK, OperationsMatch
  <1>2. proc[p].removed + 1 \in 0..MaxRemoved
    BY <1>1, CleanupAssumption DEF Call
  <1>3. /\ x \in Call /\ x.pc = "removing" /\ x.op = proc[p].op
        /\ x.expected = proc[p].expected /\ x.candidate = proc[p].candidate
    BY <1>1, <1>2 DEF Call
  <1>4. PICK o \in Objects \ {proc[p].object} : objects' = [objects EXCEPT ![o] = Absent]
    BY DEF RemoveObject, UnselectedObjects
  <1>5. credential \in {proc[p].object, NoObject}
    BY <1>1 DEF RefInv, Inv, Discipline, CleanupKnowsSelected, At
  <1>6. CurrentRecord' = CurrentRecord
    BY <1>1, <1>4, <1>5 DEF CurrentRecord, RefInv, Inv, TypeOK
  <1>7. Inv'
    BY RemoveObjectPreserves DEF RefInv
  <1> HIDE DEF x
  <1>8. proc[p].pc \in Working /\ x.pc \in Working /\ x.pc \notin Publishing
    BY <1>1, <1>3 DEF Working, Steps, Publishing
  <1>9. QED
    BY <1>1, <1>3, <1>6, <1>7, <1>8, HolderStutters DEF Publishing

(***************************************************************************)
(* The steps that end a call.                                              *)
(***************************************************************************)
LEMMA AnswerRefines ==
  ASSUME RefInv, NEW p \in Procs,
         \/ GiveUpLock(p) \/ Load(p) \/ ExchangeReadFails(p) \/ SaveFails(p)
         \/ ReportUnsure(p) \/ Verify(p) \/ CleanupDone(p) \/ CleanupFails(p)
  PROVE  RefInv' /\ RegisterStep
  <1>1. CASE GiveUpLock(p)
    <2>1. ~Inside(p)
      BY <1>1 DEF GiveUpLock, At, RefInv, LockUsed, Inside, Working
    <2>2. Refusal(p) \in Answers /\ (proc[p].op = "exchange" => Refusal(p) = "NotCommitted")
      BY DEF Refusal, Answers
    <2>3. QED BY <1>1, <2>1, <2>2, ReturnRefines DEF Honest, GiveUpLock
  <1>2. CASE Load(p) \/ CleanupDone(p) \/ CleanupFails(p)
    <2>1. proc[p].op # "exchange" /\ ~Inside(p) /\ UNCHANGED <<credential, objects>>
      BY <1>2 DEF Load, CleanupDone, CleanupFails, At, RefInv, OperationsMatch, Inside
    <2>2. Return(p, "Done") \/ Return(p, "Failed")
      BY <1>2 DEF Load, CleanupDone, CleanupFails
    <2>3. QED BY <2>1, <2>2, ReturnRefines DEF Honest, Answers
  <1>3. CASE ExchangeReadFails(p) \/ SaveFails(p) \/ ReportUnsure(p) \/ Verify(p)
    <2>1. proc[p].pc \in Working /\ proc[p].op = "exchange" /\ UNCHANGED <<credential, objects>>
      BY <1>3 DEF ExchangeReadFails, SaveFails, ReportUnsure, Verify, At, RefInv,
                  OperationsMatch, Publishing, Working, Steps
    <2>2. Inside(p)
      BY <2>1 DEF RefInv, Inv, Discipline, LockHeld, Inside
    <2>3. CASE Return(p, "Indeterminate")
      BY <2>1, <2>2, <2>3, ReturnRefines DEF Honest, Answers
    <2>4. CASE SaveFails(p)
      BY <2>1, <2>2, <2>4, ReturnRefines DEF Honest, SaveFails, Answers
    <2>5. CASE Verify(p) /\ Return(p, "Applied")
      BY <2>1, <2>2, <2>5, ReturnRefines DEF Honest, Verify, At, Answers
    <2>6. QED BY <1>3, <2>3, <2>4, <2>5 DEF ExchangeReadFails, ReportUnsure, Verify
  <1>4. QED BY <1>1, <1>2, <1>3

LEMMA RunRefines ==
  ASSUME RefInv, NEW p \in Procs, Run(p)
  PROVE  RefInv' /\ RegisterStep
  BY AnswerRefines, TakeLockRefines, CompareRefines, CreateObjectRefines, WriteObjectRefines,
     SyncObjectRefines, WriteHeadRefines, StartCleanupRefines, RemoveObjectRefines
  DEF Run, Exchange, Cleanup

-----------------------------------------------------------------------------
(***************************************************************************)
(* What the environment does.                                              *)
(***************************************************************************)
LEMMA NobodyInside ==
  ASSUME RefInv, RefInv', UNCHANGED <<lock, proc>>, \A q \in Procs : ~Inside(q)
  PROVE  UNCHANGED RegisterCall /\ RegisterWrite = NoWrite /\ RegisterWrite' = NoWrite
  <1>1. \A q \in Procs : ~Inside(q)' /\ CallOf(q)' = CallOf(q)
    BY DEF Inside, CallOf
  <1>2. QED BY <1>1 DEF RegisterCall, RegisterWrite

LEMMA PowerLossRefines ==
  ASSUME RefInv, PowerLoss
  PROVE  RefInv' /\ RegisterStep
  <1>1. \A q \in Procs : proc[q].pc = "idle"
    BY DEF PowerLoss, At
  <1>2. PICK o \in Objects :
          objects[o] # Absent /\ objects' = [objects EXCEPT ![o].data = "partial"]
    BY DEF PowerLoss
  <1>3. UNCHANGED <<credential, lock, proc>>
    BY DEF PowerLoss
  <1>4. \A u \in Objects : objects[u] # Absent => objects'[u].record = objects[u].record
    BY <1>2 DEF RefInv, Inv, TypeOK, File
  <1>5. CurrentRecord' = CurrentRecord
    BY <1>3, <1>4 DEF CurrentRecord, RefInv, Inv, TypeOK, SelectedObjectSurvives
  <1>6. Inv'
    BY PowerLossPreserves DEF RefInv
  <1>7. LockUsed' /\ OperationsMatch'
    BY <1>3 DEF RefInv, LockUsed, OperationsMatch, At
  <1>8. HeadIsExpected' /\ ObjectIsCandidate'
    BY <1>1, <1>3 DEF HeadIsExpected, ObjectIsCandidate
  <1>9. RefInv'
    BY <1>6, <1>7, <1>8 DEF RefInv
  <1>10. \A q \in Procs : ~Inside(q)
    BY <1>1 DEF Inside, RefInv, LockUsed, Working
  <1>11. QED BY <1>3, <1>5, <1>9, <1>10, NobodyInside, Stutter

LEMMA VanishRefines ==
  ASSUME RefInv, Vanish
  PROVE  RefInv' /\ RegisterStep
  <1>1. /\ RootMayVanish /\ credential # NoObject /\ credential' = NoObject
        /\ \A q \in Procs : ~Inside(q)
        /\ UNCHANGED <<objects, lock, proc>>
    BY DEF Vanish
  <1>2. Inv'
    BY VanishPreserves DEF RefInv
  <1>3. LockUsed' /\ OperationsMatch' /\ ObjectIsCandidate'
    BY <1>1 DEF RefInv, LockUsed, OperationsMatch, ObjectIsCandidate, At
  <1>4. HeadIsExpected'
    <2>1. \A q \in Procs :
             proc'[q].pc \notin {"creating", "writing", "syncing", "selecting"}
      BY <1>1 DEF RefInv, Inv, Discipline, LockHeld, OperationsMatch, Publishing, Working,
                  Steps, Inside
    <2>2. QED BY <2>1 DEF HeadIsExpected
  <1>5. RefInv'
    BY <1>2, <1>3, <1>4 DEF RefInv
  <1>6. objects[credential] \in File
    BY <1>1 DEF RefInv, Inv, TypeOK, SelectedObjectSurvives
  <1>7. CurrentRecord # NoRecord /\ CurrentRecord' = NoRecord
    BY <1>1, <1>6, RecordAssumption DEF CurrentRecord, File
  <1>8. UNCHANGED RegisterCall /\ RegisterWrite = NoWrite /\ RegisterWrite' = NoWrite
    BY <1>1, <1>5, NobodyInside
  <1>9. Register!Vanish
    BY <1>1, <1>7, <1>8 DEF Register!Vanish
  <1>10. QED BY <1>5, <1>9 DEF RegisterStep, Register!RegNext

LEMMA NextRefines == RefInv /\ [Next]_vars => RefInv' /\ RegisterStep
  <1> SUFFICES ASSUME RefInv, [Next]_vars PROVE RefInv' /\ RegisterStep
    OBVIOUS
  <1>1. CASE UNCHANGED vars
    <2>1. UNCHANGED <<credential, objects, lock, proc>>
      BY <1>1 DEF vars
    <2>2. Inv'
      BY <1>1, NextPreserves DEF RefInv
    <2>3. UNCHANGED CurrentRecord
      BY <2>1 DEF CurrentRecord
    <2>4. RefInv'
      BY <2>1, <2>2, <2>3
      DEF RefInv, LockUsed, OperationsMatch, HeadIsExpected, ObjectIsCandidate, At
    <2>5. \A q \in Procs : CallOf(q)' = CallOf(q) /\ Inside(q)' = Inside(q)
      BY <2>1 DEF CallOf, Inside
    <2>6. PublicationOf(lock)' = PublicationOf(lock)
      BY <2>1 DEF PublicationOf
    <2>7. UNCHANGED RegisterCall /\ UNCHANGED RegisterWrite
      BY <2>5, <2>6 DEF RegisterCall, RegisterWrite
    <2>8. QED BY <2>3, <2>4, <2>7, Stutter
  <1>2. QED
    BY <1>1, BeginRefines, RunRefines, KillRefines, PowerLossRefines, VanishRefines DEF Next

LEMMA InitRefines == Init => RefInv /\ Register!RegInit
  <1> SUFFICES ASSUME Init PROVE RefInv /\ Register!RegInit
    OBVIOUS
  <1>1. Inv
    BY InitEstablishes
  <1>2. \A q \in Procs : proc[q] = Idle("none")
    BY DEF Init
  <1>3. \A q \in Procs : /\ proc[q].pc = "idle" /\ proc[q].op = "load"
                         /\ proc[q].expected = NoRecord /\ proc[q].candidate = NoRecord
    BY <1>2 DEF Idle
  <1>4. \A q \in Procs : lock # q
    BY ProcAssumption DEF Init
  <1>5. RefInv
    BY <1>1, <1>3, <1>4
    DEF RefInv, LockUsed, OperationsMatch, HeadIsExpected, ObjectIsCandidate, Publishing, At
  <1>6. CurrentRecord = NoRecord
    BY DEF Init, CurrentRecord
  <1>7. RegisterWrite = NoWrite
    BY <1>4 DEF RegisterWrite, Inside
  <1>8. RegisterCall = [q \in Procs |-> Register!IdleCall]
    BY <1>3 DEF RegisterCall, CallOf, Register!IdleCall
  <1>9. QED BY <1>5, <1>6, <1>7, <1>8 DEF Register!RegInit

(***************************************************************************)
(* WindowsPreferenceCheckpoint is the register that PreferenceTransactions *)
(* was promised (PreferenceCheckpoint's contract): whatever native call    *)
(* fails, whoever is killed, the head changes only by CredWriteW under the *)
(* lock, from the expected record to the candidate, and every answer of    *)
(* compare_exchange is one the register may give.                          *)
(***************************************************************************)
THEOREM RegisterImplemented == Spec => RegisterSpec
  <1>1. Init => RefInv /\ Register!RegInit
    BY InitRefines
  <1>2. RefInv /\ [Next]_vars => RefInv' /\ [Register!RegNext]_(Register!regVars)
    BY NextRefines DEF RegisterStep
  <1>3. QED BY <1>1, <1>2, PTL DEF Spec, RegisterSpec, Register!RegSpec
-----------------------------------------------------------------------------
(***************************************************************************)
(* What a step tells the caller: a call that ends with an answer.          *)
(***************************************************************************)
Ends(p) == ~At(p, "idle") /\ proc'[p].pc = "idle" /\ proc'[p].answer # "none"

Truthful(p) ==
    /\ proc[p].op = "exchange" => Register!Answer(p, proc'[p].answer)
    /\ proc'[p].answer = "Done" => Register!CanLoad

Truth == \A p \in Procs : Ends(p) => Truthful(p)

LEMMA NobodyEnds ==
  ASSUME \A q \in Procs : proc'[q].pc = "idle" => proc[q].pc = "idle" \/ proc'[q].answer = "none"
  PROVE  Truth
  BY DEF Truth, Ends, At

(***************************************************************************)
(* A step of p within its call ends no call.                               *)
(***************************************************************************)
LEMMA GoesOn ==
  ASSUME RefInv, NEW p \in Procs, NEW x, proc' = [proc EXCEPT ![p] = x],
         x.pc # "idle" \/ x.answer = "none"
  PROVE  Truth
  <1>1. \A q \in Procs : proc'[q] = IF q = p THEN x ELSE proc[q]
    BY DEF RefInv, Inv, TypeOK
  <1>2. QED BY <1>1, NobodyEnds

(***************************************************************************)
(* A load or a cleanup that is done had the lock, so no publication did.   *)
(***************************************************************************)
LEMMA ReturnIsTrue ==
  ASSUME RefInv, NEW p \in Procs, NEW a \in Answers, Return(p, a),
         UNCHANGED <<credential, objects>>, Honest(p, a),
         a = "Done" => lock = p /\ proc[p].op # "exchange"
  PROVE  Truth
  <1>1. /\ \A q \in Procs : proc'[q] = IF q = p THEN Idle(a) ELSE proc[q]
        /\ Idle(a).answer = a
    BY DEF Return, Idle, RefInv, Inv, TypeOK
  <1>2. proc[p].op = "exchange" => Register!Answer(p, a)
    BY ReturnAnswers
  <1>3. a = "Done" => Register!CanLoad
    <2>1. lock = p /\ proc[p].op # "exchange" => \A q \in Procs : ~Inside(q)
      BY DEF Inside
    <2>2. QED BY <2>1 DEF RegisterWrite, Register!CanLoad
  <1>4. Truthful(p)
    BY <1>1, <1>2, <1>3 DEF Truthful
  <1>5. \A q \in Procs : q # p => ~Ends(q)
    BY <1>1 DEF Ends, At
  <1>6. QED BY <1>4, <1>5 DEF Truth

LEMMA ExchangeIsTrue ==
  ASSUME RefInv, NEW p \in Procs, Exchange(p)
  PROVE  Truth
  <1>1. /\ proc[p].pc \in Working /\ proc[p].op = "exchange" /\ proc[p] \in Call
    BY DEF Exchange, ExchangeReadFails, Compare, CreateObject, WriteObject, SyncObject, SaveFails,
           WriteHead, ReportUnsure, Verify, At, RefInv, Inv, TypeOK, OperationsMatch,
           Publishing, Working, Steps
  <1>2. Inside(p)
    BY <1>1 DEF RefInv, Inv, Discipline, LockHeld, Inside
  <1>3. CASE Return(p, "Indeterminate") /\ UNCHANGED <<credential, objects>>
    BY <1>2, <1>3, ReturnIsTrue DEF Honest, Answers
  <1>4. CASE SaveFails(p)
    BY <1>2, <1>4, ReturnIsTrue DEF SaveFails, Honest, Answers
  <1>5. CASE Verify(p) /\ Return(p, "Applied")
    BY <1>2, <1>5, ReturnIsTrue DEF Verify, At, Honest, Answers
  <1>6. CASE Compare(p) /\ CurrentRecord # proc[p].expected
    BY <1>2, <1>6, ReturnIsTrue DEF Compare, At, Honest, Answers
  <1>7. CASE Compare(p) /\ Return(p, "NotCommitted")
    BY <1>2, <1>7, ReturnIsTrue DEF Compare, At, Honest, Answers
  <1>8. ASSUME NEW step \in Steps \ {"idle"}, Goto(p, step)
        PROVE  Truth
    <2>1. [proc[p] EXCEPT !.pc = step].pc # "idle"
      BY <1>1 DEF Call
    <2>2. QED BY <1>8, <2>1, GoesOn DEF Goto
  <1>9. CASE CreateObject(p)
    <2>1. PICK o \in Objects : proc' = [proc EXCEPT ![p].pc = "writing", ![p].object = o]
      BY <1>9 DEF CreateObject
    <2>2. [proc[p] EXCEPT !.pc = "writing", !.object = o].pc # "idle"
      BY <1>1 DEF Call
    <2>3. proc' = [proc EXCEPT ![p] = [proc[p] EXCEPT !.pc = "writing", !.object = o]]
      BY <2>1
    <2>4. QED BY <2>2, <2>3, GoesOn
  <1>10. CASE ExchangeReadFails(p) \/ ReportUnsure(p)
    BY <1>3, <1>10 DEF ExchangeReadFails, ReportUnsure
  <1>11. CASE Verify(p)
    BY <1>3, <1>5, <1>11 DEF Verify
  <1>12. CASE Compare(p)
    BY <1>6, <1>7, <1>8, <1>12 DEF Compare, Steps
  <1>13. CASE WriteObject(p) \/ SyncObject(p) \/ WriteHead(p)
    BY <1>3, <1>8, <1>13 DEF WriteObject, SyncObject, WriteHead, Steps
  <1>14. QED BY <1>4, <1>9, <1>10, <1>11, <1>12, <1>13 DEF Exchange

LEMMA OthersAreTrue ==
  ASSUME RefInv, NEW p \in Procs, TakeLock(p) \/ GiveUpLock(p) \/ Load(p) \/ Cleanup(p)
  PROVE  Truth
  <1>1. proc[p] \in Call
    BY DEF RefInv, Inv, TypeOK
  <1>2. CASE TakeLock(p)
    <2>1. [proc[p] EXCEPT !.pc = "reading"].pc # "idle"
      BY <1>1 DEF Call
    <2>2. QED BY <1>2, <2>1, GoesOn DEF TakeLock, Goto
  <1>3. CASE GiveUpLock(p)
    <2>1. ~Inside(p)
      BY <1>3 DEF GiveUpLock, At, RefInv, LockUsed, Inside, Working
    <2>2. /\ Refusal(p) \in Answers /\ Refusal(p) # "Done"
          /\ proc[p].op = "exchange" => Refusal(p) = "NotCommitted"
      BY DEF Refusal, Answers
    <2>3. QED BY <1>3, <2>1, <2>2, ReturnIsTrue DEF Honest, GiveUpLock
  <1>4. CASE Load(p) \/ CleanupDone(p) \/ CleanupFails(p)
    <2>1. proc[p].op # "exchange" /\ ~Inside(p) /\ UNCHANGED <<credential, objects>>
      BY <1>4 DEF Load, CleanupDone, CleanupFails, At, RefInv, OperationsMatch, Inside
    <2>2. proc[p].pc \in Working
      BY <1>4 DEF Load, CleanupDone, CleanupFails, At, Working, Steps
    <2>3. lock = p
      BY <2>2 DEF RefInv, Inv, Discipline, LockHeld
    <2>4. Return(p, "Done") \/ Return(p, "Failed")
      BY <1>4 DEF Load, CleanupDone, CleanupFails
    <2>5. QED BY <2>1, <2>3, <2>4, ReturnIsTrue DEF Honest, Answers
  <1>5. CASE StartCleanup(p)
    <2>1. [proc[p] EXCEPT !.pc = "removing", !.object = credential].pc # "idle"
      BY <1>1 DEF Call
    <2>2. proc' = [proc EXCEPT ![p] = [proc[p] EXCEPT !.pc = "removing", !.object = credential]]
      BY <1>5 DEF StartCleanup
    <2>3. QED BY <2>1, <2>2, GoesOn
  <1>6. CASE RemoveObject(p)
    <2>1. proc' = [proc EXCEPT ![p] = [proc[p] EXCEPT !.removed = @ + 1]]
      BY <1>6 DEF RemoveObject
    <2>2. [proc[p] EXCEPT !.removed = @ + 1].pc # "idle"
      BY <1>1, <1>6 DEF RemoveObject, At, Call
    <2>3. QED BY <2>1, <2>2, GoesOn
  <1>7. QED BY <1>2, <1>3, <1>4, <1>5, <1>6 DEF Cleanup

LEMMA NextIsTrue == RefInv /\ [Next]_vars => Truth
  <1> SUFFICES ASSUME RefInv, [Next]_vars PROVE Truth
    OBVIOUS
  <1>1. CASE UNCHANGED vars \/ PowerLoss \/ Vanish
    <2>1. proc' = proc
      BY <1>1 DEF vars, PowerLoss, Vanish
    <2>2. QED BY <2>1, NobodyEnds
  <1>2. ASSUME NEW p \in Procs, Call_(p)
        PROVE  Truth
    <2>1. PICK op, e, c : Begin(p, op, e, c)
      BY <1>2 DEF Call_
    <2>2. QED BY <2>1, GoesOn DEF Begin
  <1>3. ASSUME NEW p \in Procs, Kill(p)
        PROVE  Truth
    <2>1. Idle("none").answer = "none" /\ proc' = [proc EXCEPT ![p] = Idle("none")]
      BY <1>3 DEF Kill, Return, Idle
    <2>2. QED BY <2>1, GoesOn
  <1>4. ASSUME NEW p \in Procs, Run(p)
        PROVE  Truth
    BY <1>4, ExchangeIsTrue, OthersAreTrue DEF Run
  <1>5. QED BY <1>1, <1>2, <1>3, <1>4 DEF Next

(***************************************************************************)
(* No answer of compare_exchange claims what did not happen: Applied only  *)
(* after its own selection, Conflict and NotCommitted only when there was  *)
(* none, everything else is Indeterminate; and a load (or a cleanup) that  *)
(* succeeds overlaps no publication.                                       *)
(***************************************************************************)
THEOREM NothingFalseIsSaid == Spec => AnswersAreTrue
  <1>1. Init => RefInv
    BY InitRefines
  <1>2. RefInv /\ [Next]_vars => RefInv'
    BY NextRefines
  <1>3. RefInv /\ [Next]_vars =>
          [\A p \in Procs :
             ~At(p, "idle") /\ proc'[p].pc = "idle" /\ proc'[p].answer # "none" =>
                /\ proc[p].op = "exchange" => Register!Answer(p, proc'[p].answer)
                /\ proc'[p].answer = "Done" => Register!CanLoad]_vars
    BY NextIsTrue DEF Truth, Ends, Truthful
  <1>4. QED BY <1>1, <1>2, <1>3, PTL DEF Spec, AnswersAreTrue
=============================================================================
