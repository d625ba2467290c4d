---------------------------- MODULE ExecutionSlots ----------------------------
(***************************************************************************)
(* What maxConcurrentExecutions promises of a plugin: a counting semaphore.  *)
(* A call that executes the plugin's code holds one of MaxConcurrent slots.   *)
(***************************************************************************)
EXTENDS Naturals, FiniteSets

CONSTANTS
  Calls,           \* the calls that may be outstanding
  MaxConcurrent    \* the number of slots

VARIABLE holders   \* the calls that hold a slot

SlotsInit == holders = {}

Acquire(c) ==
  /\ c \notin holders
  /\ Cardinality(holders) < MaxConcurrent
  /\ holders' = holders \cup {c}

Release(c) ==
  /\ c \in holders
  /\ holders' = holders \ {c}

SlotsNext == \E c \in Calls : Acquire(c) \/ Release(c)

SlotsSpec == SlotsInit /\ [][SlotsNext]_holders
=============================================================================
