------------------------- MODULE MCWorkerPreferences -------------------------
(***************************************************************************)
(* Small instances of WorkerPreferences for TLC.                           *)
(***************************************************************************)
EXTENDS WorkerPreferences, TLC

Policy(learn, sensitive) == [ranking |-> FALSE, feedback |-> learn, sensitive |-> sensitive]

OnOffSensitive == {Policy(FALSE, FALSE), Policy(TRUE, FALSE), Policy(TRUE, TRUE)}

Symmetry == Permutations(Keys)
=============================================================================
