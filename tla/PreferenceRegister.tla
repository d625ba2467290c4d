-------------------------- MODULE PreferenceRegister --------------------------
(***************************************************************************)
(* The compare-and-exchange register that a trusted host provides to the   *)
(* preference sessions: trait FormulaPreferenceCheckpointBackend.  It      *)
(* holds one protected record.  Publications are serialised by a boundary  *)
(* (`write`), which a native write that outlives its answer keeps closed:  *)
(* a timeout does not cancel IO.  An answer other than Indeterminate is    *)
(* the truth about the publication; Indeterminate says nothing.            *)
(***************************************************************************)
CONSTANTS
    Callers,     \* who may have a publication of its own in progress
    NoCaller,    \* the caller of a late write that was killed meanwhile
    NoRecord,    \* no record
    NoWrite,     \* no publication inside the boundary
    WritesOutliveCalls, \* whether a native write may go on after its call ended
    RootMayVanish       \* whether the host environment may lose the whole root

VARIABLES
    head,        \* the selected record, or NoRecord
    write,       \* the publication inside the boundary, or NoWrite
    call         \* for each caller, the compare_exchange it has in progress

regVars == <<head, write, call>>

-----------------------------------------------------------------------------
(***************************************************************************)
(* PreferencePublication.  A call that unwinds tells its caller what       *)
(* Indeterminate tells it: nothing.                                        *)
(***************************************************************************)
Outcomes == {"Applied", "Conflict", "NotCommitted", "Indeterminate"}

Phases == {"idle", "called", "inside"}

IdleCall == [phase |-> "idle", expected |-> NoRecord, candidate |-> NoRecord]

(***************************************************************************)
(* The publication inside the boundary has outlived its caller's wait.     *)
(***************************************************************************)
Late == /\ write # NoWrite
        /\ write.by \in {NoCaller} \cup {c \in Callers : call[c].phase # "inside"}

(***************************************************************************)
(* A load is ordered after every publication that could still select.      *)
(***************************************************************************)
CanLoadAnytime == TRUE

CanLoad == write = NoWrite

-----------------------------------------------------------------------------
RegInit ==
    /\ head = NoRecord
    /\ write = NoWrite
    /\ call = [c \in Callers |-> IdleCall]

Invoke(c, expected, candidate) ==
    /\ call[c].phase = "idle"
    /\ call' = [call EXCEPT ![c] = [phase |-> "called", expected |-> expected,
                                    candidate |-> candidate]]
    /\ UNCHANGED <<head, write>>

Enter(c) ==
    /\ call[c].phase = "called"
    /\ write = NoWrite
    /\ call' = [call EXCEPT ![c].phase = "inside"]
    /\ write' = [by |-> c, expected |-> call[c].expected,
                 candidate |-> call[c].candidate, selected |-> FALSE]
    /\ UNCHANGED head

(***************************************************************************)
(* The one atomic selection of the whole record: head, keys and snapshot.  *)
(***************************************************************************)
ComparesNothing == TRUE

Compares == head = write.expected

Select ==
    /\ write # NoWrite
    /\ ~write.selected
    /\ Compares
    /\ head' = write.candidate
    /\ write' = [write EXCEPT !.selected = TRUE]
    /\ UNCHANGED call

(***************************************************************************)
(* The boundary reopens, unless the native write goes on: it then belongs  *)
(* to `by`, the caller that no longer waits for it.                        *)
(***************************************************************************)
LeaveBoundary(by) ==
    \/ write' = NoWrite
    \/ WritesOutliveCalls /\ write' = [write EXCEPT !.by = by]

(***************************************************************************)
(* The call ends with outcome o.  A call that never got inside cannot have *)
(* selected anything, but its caller is not always told so.                *)
(***************************************************************************)
AnswerOutside(c, o) ==
    /\ call[c].phase = "called"
    /\ o \in {"NotCommitted", "Indeterminate"}
    /\ UNCHANGED write

AnswerInside(c, o) ==
    /\ call[c].phase = "inside"
    /\ \/ o = "Applied" /\ write.selected /\ write' = NoWrite
       \/ o = "Conflict" /\ ~write.selected /\ head # write.expected
                         /\ write' = NoWrite
       \/ o = "NotCommitted" /\ ~write.selected /\ write' = NoWrite
       \/ o = "Indeterminate" /\ LeaveBoundary(c)

Answer(c, o) ==
    /\ AnswerOutside(c, o) \/ AnswerInside(c, o)
    /\ call' = [call EXCEPT ![c] = IdleCall]
    /\ UNCHANGED head

(***************************************************************************)
(* The process of caller c ends.                                           *)
(***************************************************************************)
Kill(c) ==
    /\ call' = [call EXCEPT ![c] = IdleCall]
    /\ IF write # NoWrite /\ write.by = c THEN LeaveBoundary(NoCaller)
                                         ELSE UNCHANGED write
    /\ UNCHANGED head

(***************************************************************************)
(* A late write has settled, whether it selected its record or not.        *)
(***************************************************************************)
Settle ==
    /\ Late
    /\ write' = NoWrite
    /\ UNCHANGED <<head, call>>

(***************************************************************************)
(* The host loses the protected root (a deleted credential, a new profile) *)
(***************************************************************************)
Vanish ==
    /\ RootMayVanish
    /\ head # NoRecord
    /\ write = NoWrite
    /\ head' = NoRecord
    /\ UNCHANGED <<write, call>>

-----------------------------------------------------------------------------
RegNext ==
    \/ \E c \in Callers :
          \/ Invoke(c, call'[c].expected, call'[c].candidate)
          \/ Enter(c)
          \/ \E o \in Outcomes : Answer(c, o)
          \/ Kill(c)
    \/ Select
    \/ Settle
    \/ Vanish

RegSpec == RegInit /\ [][RegNext]_regVars
=============================================================================
