------------------------ MODULE MCPreferenceFeedback ------------------------
(***************************************************************************)
(* Small instances of PreferenceFeedback for TLC.                          *)
(***************************************************************************)
EXTENDS PreferenceFeedback, TLC

OnOff == {Disabled, [ranking |-> TRUE, feedback |-> TRUE, sensitive |-> FALSE]}

Symmetry == Permutations(Owners) \cup Permutations(Keys) \cup Permutations(Candidates)
=============================================================================
