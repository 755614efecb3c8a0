---------------------------- MODULE MCActiveWork ----------------------------
(***************************************************************************)
(* ActiveWork on a small instance.  Task ids and check names are           *)
(* interchangeable; workspaces are too, for nothing tells them apart.      *)
(***************************************************************************)
EXTENDS ActiveWork, TLC

Symmetry == Permutations(Task) \cup Permutations(Wait) \cup Permutations(Place)
=============================================================================
