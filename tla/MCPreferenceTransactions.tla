---------------------- MODULE MCPreferenceTransactions ----------------------
(***************************************************************************)
(* Small instances of PreferenceTransactions for TLC.                      *)
(***************************************************************************)
EXTENDS PreferenceTransactions, TLC

(***************************************************************************)
(* Slots, keys and ordinary acceptances are interchangeable.               *)
(***************************************************************************)
Symmetry == Permutations(Sessions) \cup Permutations(Stages) \cup Permutations(Keys)
=============================================================================
