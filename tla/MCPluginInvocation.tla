-------------------------- MODULE MCPluginInvocation --------------------------
(* Small instances of PluginInvocation. *)
EXTENDS PluginInvocation, TLC

Symmetric == Permutations(Calls) \cup Permutations(Admins)
=============================================================================
