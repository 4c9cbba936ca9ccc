-------------------------- MODULE MCWorkspaceAccess --------------------------
(* Small instances of WorkspaceAccess for TLC. *)
EXTENDS WorkspaceAccess, TLC

Symmetric == Permutations(Calls) \cup Permutations(Names)
==============================================================================
