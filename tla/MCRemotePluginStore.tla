-------------------------- MODULE MCRemotePluginStore --------------------------
(* Small instances of RemotePluginStore. *)
EXTENDS RemotePluginStore, TLC

Symmetric == Permutations(Processes)
=============================================================================
