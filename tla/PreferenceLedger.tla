--------------------------- MODULE PreferenceLedger ---------------------------
(***************************************************************************)
(* What the user of protected formula preferences is promised about the    *)
(* one durable record of an owner: however many sessions, retries and      *)
(* crashes are behind it, it only ever grows, is cleared, or is lost as a  *)
(* whole.  No session, stage, lock or file appears here.                   *)
(***************************************************************************)
EXTENDS Naturals

CONSTANTS NoRecord       \* the slot was never initialised, or its root is lost

VARIABLE ledger          \* the protected record, or NoRecord

-----------------------------------------------------------------------------
(***************************************************************************)
(* The first record of a slot starts its revision sequence.                *)
(***************************************************************************)
Founds(new) == new.revision = 1

(***************************************************************************)
(* A save keeps the epoch (generation and keys) and everything it already  *)
(* held: no acceptance and no undo is lost, and its checkpoint moves on.   *)
(***************************************************************************)
Extends(old, new) ==
    /\ new.revision = old.revision + 1
    /\ new.generation = old.generation
    /\ new.key = old.key
    /\ new.checkpoint > old.checkpoint
    /\ old.events \subseteq new.events
    /\ old.undone \subseteq new.undone

(***************************************************************************)
(* A clear leaves an empty tombstone in a newer generation, with new keys. *)
(***************************************************************************)
Clears(old, new) ==
    /\ new.revision = old.revision + 1
    /\ new.generation > old.generation
    /\ new.key # old.key
    /\ new.checkpoint = 1
    /\ new.events = {}
    /\ new.undone = {}

(***************************************************************************)
(* The steps allowed from base to new, base being NoRecord or a record.    *)
(***************************************************************************)
Follows(base, new) ==
    IF base = NoRecord THEN Founds(new)
                       ELSE Extends(base, new) \/ Clears(base, new)

-----------------------------------------------------------------------------
Init == ledger = NoRecord

Publish == ledger' # NoRecord /\ Follows(ledger, ledger')

Lose == ledger # NoRecord /\ ledger' = NoRecord

Next == Publish \/ Lose

Spec == Init /\ [][Next]_ledger
=============================================================================
