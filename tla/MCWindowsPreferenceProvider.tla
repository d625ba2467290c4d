--------------------- MODULE MCWindowsPreferenceProvider ---------------------
(***************************************************************************)
(* Small instances of WindowsPreferenceProvider for TLC.                   *)
(***************************************************************************)
EXTENDS WindowsPreferenceProvider, TLC

(***************************************************************************)
(* Two rivals for the first publication, and a successor of either.        *)
(***************************************************************************)
MCRecords == {[revision |-> 1, generation |-> 1], [revision |-> 1, generation |-> 2],
              [revision |-> 2, generation |-> 2]}

Symmetry == Permutations(Procs) \cup Permutations(Objects)
=============================================================================
