--------------------------- MODULE MCDocumentSession ---------------------------
(* Small instances of DocumentSession. *)
EXTENDS DocumentSession, TLC

Symmetric == Permutations(Bodies)
=============================================================================
