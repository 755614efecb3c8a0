-------------------------- MODULE MCWorkspaceHandoff --------------------------
(***************************************************************************)
(* Small instances of WorkspaceHandoff.                                    *)
(***************************************************************************)
EXTENDS WorkspaceHandoff, TLC

\* No workspace is special.
Workspaces == Permutations(Root)
=============================================================================
