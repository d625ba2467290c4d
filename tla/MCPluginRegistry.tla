--------------------------- MODULE MCPluginRegistry ---------------------------
(* Small instances of PluginRegistry. *)
EXTENDS PluginRegistry, TLC

Symmetric == Permutations(Clients)
=============================================================================
