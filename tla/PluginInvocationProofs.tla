------------------------ MODULE PluginInvocationProofs ------------------------
(***************************************************************************)
(* Proofs about PluginInvocation, for any set of calls and administrators     *)
(* and any limit.  The invariant says what the separate atomics stand for:    *)
(* outstanding counts the guards, tokens lists those whose signal can still   *)
(* be found, and the newcomers of a reset are all who hold a slot.            *)
(***************************************************************************)
EXTENDS PluginInvocation, FiniteSetTheorems, TLAPS

CountExact == outstanding = Cardinality(Holders)

TokensExact ==
  tokens = {c \in Calls : caller[c] = "start" \/ worker[c] \in {"running", "untoken"}}

\* A call has no worker before it starts, and an entry that is gone has no calls.
PlacesAgree ==
  /\ \A c \in Calls :
       caller[c] \in {"begin", "admit", "push", "start"} => worker[c] = "none"
  /\ ~registered => \A c \in Calls : caller[c] = "idle" /\ worker[c] = "none"

NewcomersCover == \A a \in Admins : admin[a] = "reset" => Holders \subseteq newcomers[a]

Inv == TypeOK /\ CountExact /\ TokensExact /\ PlacesAgree /\ NewcomersCover

LEMMA HoldersFinite == IsFiniteSet(Holders) /\ Cardinality(Holders) \in Nat
  BY CallsFinite, FS_Subset, FS_CardinalityType DEF Holders

LEMMA InitInv == Init => Inv
  <1>1. SUFFICES ASSUME Init PROVE Inv
    OBVIOUS
  <1>2. Holders = {}
    BY <1>1 DEF Init, Holders, HoldsSlot
  <1>3. CountExact
    BY <1>1, <1>2, FS_EmptySet DEF Init, CountExact
  <1>4. TypeOK
    <2>1. registered \in BOOLEAN /\ timed \in BOOLEAN /\ enabled \in BOOLEAN
          /\ quarantined \in BOOLEAN
      BY <1>1, Zenon DEF Init
    <2>2. outstanding \in 0..MaxConcurrent
      BY <1>1, SomeSlot DEF Init
    <2>3. QED
      BY <1>1, <2>1, <2>2 DEF Init, TypeOK, CallerPlaces, WorkerPlaces, Results, AdminPlaces
  <1>5. QED
    BY <1>1, <1>3, <1>4 DEF Init, Inv, TokensExact, PlacesAgree, NewcomersCover

-----------------------------------------------------------------------------
(* Steps of a call that move no slot. *)

QuietStep(c) ==
  \/ Handle(c) \/ PassQuarantine(c) \/ RefuseQuarantined(c) \/ RefuseAtLimit(c)
  \/ Receive(c) \/ TimesOut(c) \/ Quarantine(c) \/ ReturnInline(c)

LEMMA QuietType ==
  ASSUME TypeOK, NEW c \in Calls, QuietStep(c)
  PROVE  TypeOK'
  <1> USE DEF TypeOK, CallerPlaces, Results, Returns, MovesTo, CallerAt,
              entry, runtime, threads, admins
  <1>1. CASE Handle(c)
    BY <1>1 DEF Handle
  <1>2. CASE PassQuarantine(c)
    BY <1>2 DEF PassQuarantine
  <1>3. CASE RefuseQuarantined(c)
    BY <1>3 DEF RefuseQuarantined
  <1>4. CASE RefuseAtLimit(c)
    BY <1>4 DEF RefuseAtLimit
  <1>5. CASE Receive(c)
    BY <1>5 DEF Receive
  <1>6. CASE TimesOut(c)
    BY <1>6 DEF TimesOut
  <1>7. CASE Quarantine(c)
    BY <1>7 DEF Quarantine
  <1>8. CASE ReturnInline(c)
    BY <1>8 DEF ReturnInline
  <1>9. QED
    BY <1>1, <1>2, <1>3, <1>4, <1>5, <1>6, <1>7, <1>8 DEF QuietStep

\* What these steps have in common.
LEMMA QuietFacts ==
  ASSUME TypeOK, NEW c \in Calls, QuietStep(c)
  PROVE  /\ UNCHANGED <<worker, outstanding, tokens, registered, admin, newcomers>>
         /\ \E p \in CallerPlaces \ {"push", "start"} :
              /\ caller[c] \notin {"push", "start"}
              /\ caller' = [caller EXCEPT ![c] = p]
              /\ p \in {"begin", "admit"} => worker[c] = "none" \/ caller[c] = "begin"
              /\ ~registered => caller[c] # "idle"
  BY DEF QuietStep, Handle, PassQuarantine, RefuseQuarantined, RefuseAtLimit, Receive,
         TimesOut, Quarantine, ReturnInline, Returns, MovesTo, CallerAt, TypeOK,
         CallerPlaces, entry, runtime, threads, admins

LEMMA QuietKeeps ==
  ASSUME Inv, NEW c \in Calls, QuietStep(c)
  PROVE  Inv' /\ Holders' = Holders
  <1>1. TypeOK'
    BY QuietType DEF Inv
  <1>2. PICK p \in CallerPlaces \ {"push", "start"} :
              /\ caller[c] \notin {"push", "start"}
              /\ caller' = [caller EXCEPT ![c] = p]
              /\ p \in {"begin", "admit"} => worker[c] = "none" \/ caller[c] = "begin"
              /\ ~registered => caller[c] # "idle"
    BY QuietFacts DEF Inv
  <1>3. UNCHANGED <<worker, outstanding, tokens, registered, admin, newcomers>>
    BY QuietFacts DEF Inv
  <1>4. Holders' = Holders
    BY <1>2, <1>3 DEF Inv, TypeOK, Holders, HoldsSlot
  <1>5. TokensExact'
    BY <1>2, <1>3 DEF Inv, TypeOK, TokensExact
  <1>6. PlacesAgree'
    BY <1>2, <1>3 DEF Inv, TypeOK, PlacesAgree
  <1>7. CountExact' /\ NewcomersCover'
    BY <1>3, <1>4 DEF Inv, CountExact, NewcomersCover
  <1>8. QED
    BY <1>1, <1>4, <1>5, <1>6, <1>7 DEF Inv

-----------------------------------------------------------------------------
(* Steps of a slot. *)

LEMMA AdmitKeeps ==
  ASSUME Inv, NEW c \in Calls, Admit(c)
  PROVE  Inv' /\ c \notin Holders /\ Cardinality(Holders) < MaxConcurrent
              /\ Holders' = Holders \cup {c}
  <1> USE DEF Inv, Admit, CallerAt, MovesTo, SlotFree
  <1>1. c \notin Holders
    BY DEF Holders, HoldsSlot, PlacesAgree
  <1>2. Holders' = Holders \cup {c}
    BY DEF Holders, HoldsSlot, TypeOK
  <1>3. CountExact'
    BY <1>1, <1>2, HoldersFinite, FS_AddElement DEF CountExact
  <1>4. Cardinality(Holders) < MaxConcurrent
    BY DEF CountExact
  <1>5. TypeOK'
    BY SomeSlot DEF TypeOK, CallerPlaces, entry
  <1>6. TokensExact' /\ PlacesAgree'
    BY DEF TokensExact, PlacesAgree, TypeOK, entry
  <1>7. NewcomersCover'
    BY <1>2 DEF NewcomersCover, TypeOK
  <1>8. QED
    BY <1>1, <1>2, <1>3, <1>4, <1>5, <1>6, <1>7

LEMMA ReleaseKeeps ==
  ASSUME Inv, NEW c \in Calls, ReleaseSlot(c)
  PROVE  Inv' /\ c \in Holders /\ Holders' = Holders \ {c}
  <1> USE DEF Inv, ReleaseSlot
  <1>1. c \in Holders
    BY DEF Holders, HoldsSlot
  <1>2. Holders' = Holders \ {c}
    BY DEF Holders, HoldsSlot, TypeOK, PlacesAgree
  <1>3. CountExact' /\ Cardinality(Holders) # 0
    BY <1>1, <1>2, HoldersFinite, FS_RemoveElement, FS_EmptySet DEF CountExact
  <1>4. TypeOK'
    BY <1>3, SomeSlot, HoldersFinite DEF TypeOK, CountExact, WorkerPlaces, entry
  <1>5. TokensExact' /\ PlacesAgree'
    BY DEF TokensExact, PlacesAgree, TypeOK, entry
  <1>6. NewcomersCover'
    BY <1>2 DEF NewcomersCover, TypeOK
  <1>7. QED
    BY <1>1, <1>2, <1>3, <1>4, <1>5, <1>6

\* From the guard in the caller's hands to the last step before it is gone.
GuardMoves(c) ==
  \/ PushToken(c) \/ Start(c) \/ SpawnFails(c)
  \/ PluginEnds(c) \/ PluginOverruns(c) \/ DropToken(c)

LEMMA GuardKeeps ==
  ASSUME Inv, NEW c \in Calls, GuardMoves(c)
  PROVE  Inv' /\ Holders' = Holders
  <1> USE DEF Inv, CallerAt, MovesTo, Sends, TypeOK, CallerPlaces, WorkerPlaces, Results,
              entry, runtime, threads, admins
  <1>1. TypeOK' /\ UNCHANGED <<outstanding, admin, newcomers>>
    <2>1. CASE PushToken(c)
      BY <2>1 DEF PushToken
    <2>2. CASE Start(c)
      BY <2>2 DEF Start
    <2>3. CASE SpawnFails(c)
      BY <2>3 DEF SpawnFails
    <2>4. CASE PluginEnds(c)
      BY <2>4 DEF PluginEnds
    <2>5. CASE PluginOverruns(c)
      BY <2>5 DEF PluginOverruns
    <2>6. CASE DropToken(c)
      BY <2>6 DEF DropToken
    <2>7. QED
      BY <2>1, <2>2, <2>3, <2>4, <2>5, <2>6 DEF GuardMoves
  <1>2. TokensExact' /\ PlacesAgree' /\ Holders' = Holders
    <2> USE DEF TokensExact, PlacesAgree, Holders, HoldsSlot
    <2>1. CASE PushToken(c)
      BY <2>1 DEF PushToken
    <2>2. CASE Start(c)
      BY <2>2 DEF Start
    <2>3. CASE SpawnFails(c)
      BY <2>3 DEF SpawnFails
    <2>4. CASE PluginEnds(c)
      BY <2>4 DEF PluginEnds
    <2>5. CASE PluginOverruns(c)
      BY <2>5 DEF PluginOverruns
    <2>6. CASE DropToken(c)
      BY <2>6 DEF DropToken
    <2>7. QED
      BY <2>1, <2>2, <2>3, <2>4, <2>5, <2>6 DEF GuardMoves
  <1>3. CountExact' /\ NewcomersCover'
    BY <1>1, <1>2 DEF CountExact, NewcomersCover
  <1>4. QED
    BY <1>1, <1>2, <1>3

-----------------------------------------------------------------------------
(* Administration. *)

LEMMA NoneMeansNone ==
  ASSUME Inv, NoneOutstanding
  PROVE  Holders = {}
  BY HoldersFinite, FS_EmptySet DEF Inv, CountExact, NoneOutstanding

LEMMA AdminKeeps ==
  ASSUME Inv, NEW a \in Admins, AdminStep(a)
  PROVE  Inv' /\ Holders' = Holders
  <1> USE DEF Inv, TypeOK, AdminPlaces, entry, runtime, threads, admins
  <1>1. UNCHANGED <<caller, worker, sent, outstanding, tokens, entry>>
    BY DEF AdminStep, Disable, CancelAll, SeeNoneOutstanding, ResetQuarantine
  <1>2. TokensExact' /\ PlacesAgree' /\ Holders' = Holders /\ CountExact'
    BY <1>1 DEF TokensExact, PlacesAgree, Holders, HoldsSlot, CountExact
  <1>3. CASE Disable(a)
    BY <1>1, <1>2, <1>3 DEF Disable, NewcomersCover
  <1>4. CASE CancelAll(a)
    BY <1>1, <1>2, <1>4 DEF CancelAll, NewcomersCover
  <1>5. CASE SeeNoneOutstanding(a)
    BY <1>1, <1>2, <1>5, NoneMeansNone DEF SeeNoneOutstanding, NewcomersCover
  <1>6. CASE ResetQuarantine(a)
    BY <1>1, <1>2, <1>6 DEF ResetQuarantine, NewcomersCover
  <1>7. QED
    BY <1>3, <1>4, <1>5, <1>6 DEF AdminStep

LEMMA EntryKeeps ==
  ASSUME Inv, Enable \/ Unregister \/ Register
  PROVE  Inv' /\ Holders' = Holders
  <1> USE DEF Inv, TypeOK, entry, runtime, threads, admins, PlacesAgree, Holders, HoldsSlot
  <1>1. CASE Enable
    BY <1>1 DEF Enable, CountExact, TokensExact, NewcomersCover
  <1>2. CASE Unregister
    <2>1. Holders = {}
      BY <1>2, NoneMeansNone DEF Unregister
    <2>2. QED
      BY <1>2, <2>1 DEF Unregister, Exclusive, CallerAt, CountExact, TokensExact,
                        NewcomersCover
  <1>3. CASE Register
    <2>1. Holders = {} /\ Holders' = {}
      BY <1>3 DEF Register
    <2>2. TypeOK'
      <3>1. registered' \in BOOLEAN /\ timed' \in BOOLEAN /\ enabled' \in BOOLEAN
            /\ quarantined' \in BOOLEAN
        BY <1>3, Zenon DEF Register
      <3>2. outstanding' \in 0..MaxConcurrent
        BY <1>3, SomeSlot DEF Register
      <3>3. QED
        BY <1>3, <3>1, <3>2 DEF Register
    <2>3. TokensExact' /\ PlacesAgree' /\ NewcomersCover'
      BY <1>3, <2>1 DEF Register, TokensExact, NewcomersCover
    <2>4. CountExact'
      BY <1>3, <2>1, FS_EmptySet DEF Register, CountExact
    <2>5. QED
      BY <2>1, <2>2, <2>3, <2>4
  <1>4. QED
    BY <1>1, <1>2, <1>3

-----------------------------------------------------------------------------
\* The invariant, and how a step moves the slots.
LEMMA StepKeeps ==
  ASSUME Inv, [Next]_vars
  PROVE  /\ Inv'
         /\ [Slots!SlotsNext]_Holders
  <1>1. CASE \E c \in Calls : QuietStep(c) \/ GuardMoves(c)
    BY <1>1, QuietKeeps, GuardKeeps
  <1>2. CASE \E c \in Calls : Admit(c)
    <2>1. Slots!Cardinality(Holders) = Cardinality(Holders)
      BY Zenon DEF Slots!Cardinality, Cardinality
    <2>2. QED
      BY <1>2, <2>1, AdmitKeeps DEF Slots!SlotsNext, Slots!Acquire
  <1>3. CASE \E c \in Calls : ReleaseSlot(c)
    BY <1>3, ReleaseKeeps DEF Slots!SlotsNext, Slots!Release
  <1>4. CASE \E a \in Admins : AdminStep(a)
    BY <1>4, AdminKeeps
  <1>5. CASE Enable \/ Unregister \/ Register
    BY <1>5, EntryKeeps
  <1>6. CASE UNCHANGED vars
    BY <1>6 DEF vars, entry, runtime, threads, admins, Inv, TypeOK, CountExact, TokensExact,
                PlacesAgree, NewcomersCover, Holders, HoldsSlot
  <1>7. ASSUME NEW c \in Calls, Handle(c) \/ CallerStep(c) \/ WorkerStep(c)
        PROVE  QuietStep(c) \/ GuardMoves(c) \/ Admit(c) \/ ReleaseSlot(c)
    BY <1>7, Zenon DEF CallerStep, WorkerStep, GuardStep, QuietStep, GuardMoves
  <1>8. Next \/ UNCHANGED vars
    OBVIOUS
  <1>9. CASE \E c \in Calls : Handle(c) \/ CallerStep(c) \/ WorkerStep(c)
    BY <1>1, <1>2, <1>3, <1>7, <1>9
  <1>10. QED
    BY <1>4, <1>5, <1>6, <1>8, <1>9, Zenon DEF Next

LEMMA InvKept == Spec => []Inv
  <1>1. Inv /\ [Next]_vars => Inv'
    BY StepKeeps
  <1>2. QED
    BY InitInv, <1>1, PTL DEF Spec

\* outstanding is updated before a guard exists and after it is gone, in threads
\* that outlive their callers; it still implements a semaphore of
\* max_concurrent_executions slots (registry.rs 110-171).
THEOREM SlotsImplemented == Spec => SlotsSpec
  <1>1. Init => Slots!SlotsInit
    BY DEF Init, Slots!SlotsInit, Holders, HoldsSlot
  <1>2. Inv /\ [Next]_vars => [Slots!SlotsNext]_Holders
    BY StepKeeps
  <1>3. QED
    BY <1>1, <1>2, InvKept, PTL DEF Spec, SlotsSpec, Slots!SlotsSpec

\* A disable finds the token of whatever executes, and no token stays behind.
THEOREM TokensFollow == Spec => [](TypeOK /\ TokensFollowGuards)
  <1>1. Inv => TypeOK /\ TokensFollowGuards
    BY DEF Inv, TokensExact, TokensFollowGuards, Holders, HoldsSlot
  <1>2. QED
    BY <1>1, InvKept, PTL

\* unregister reads the counter only, and no worker is left in the plugin.
THEOREM CleanedUp == Spec => CleanedUpAlone
  <1>1. Inv /\ [Next]_vars
        => [registered /\ ~registered' => \A c \in Calls : worker[c] = "none"]_vars
    <2>1. SUFFICES ASSUME Inv, Next, registered, ~registered'
                   PROVE  \A c \in Calls : worker[c] = "none"
      BY DEF Inv
    <2>2. Unregister
      BY <2>1 DEF Next, CallerStep, WorkerStep, GuardStep, AdminStep, Handle, PassQuarantine,
           RefuseQuarantined, Admit, RefuseAtLimit, PushToken, Start, SpawnFails, Receive,
           TimesOut, Quarantine, ReturnInline, PluginEnds, PluginOverruns, DropToken,
           ReleaseSlot, Enable, Disable, CancelAll, SeeNoneOutstanding, ResetQuarantine,
           Register, entry
    <2>3. Holders = {}
      BY <2>1, <2>2, NoneMeansNone DEF Unregister
    <2>4. QED
      BY <2>3 DEF Holders, HoldsSlot
  <1>2. QED
    BY <1>1, InvKept, PTL DEF Spec, CleanedUpAlone

\* A reset that lifts the quarantine overlooks no execution admitted before it
\* looked (registry.rs 292-305).
THEOREM ResetSound == Spec => ResetMissesNewcomersOnly
  <1>1. Inv => \A a \in Admins :
                 admin[a] = "reset" /\ admin'[a] = "idle" => Holders \subseteq newcomers[a]
    BY DEF Inv, NewcomersCover
  <1>2. QED
    BY <1>1, InvKept, PTL DEF ResetMissesNewcomersOnly
=============================================================================
