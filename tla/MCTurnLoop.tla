----------------------------- MODULE MCTurnLoop -----------------------------
(* A small instance of TurnLoop for TLC: the batches that tell the rungs of *)
(* the ladder apart.                                                        *)
EXTENDS TurnLoop

SmallBatches ==
  { <<"plain", "plain">>, <<"report">>, <<"report", "unsure">>, <<"unsure", "refused">>, <<"park", "refused">>,
    <<"park", "park">>, <<"refused">> }
=============================================================================
