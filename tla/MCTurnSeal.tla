----------------------------- MODULE MCTurnSeal -----------------------------
(* Small instances of TurnSeal for TLC. *)
EXTENDS TurnSeal, TLC

\* All turns belong to the only task.
OneTask == [t \in Turn |-> CHOOSE k \in Task : TRUE]
Same == Permutations(Turn)
=============================================================================
