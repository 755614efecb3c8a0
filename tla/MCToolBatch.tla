---------------------------- MODULE MCToolBatch ----------------------------
(* Small batches for TLC.                                                  *)
EXTENDS ToolBatch

MCBatches ==
  {<<"read", "twin", "effect">>, <<"child", "child", "effect">>,
   <<"handoff", "effect", "read">>, <<"effect", "read", "twin">>,
   <<"read", "twin", "child", "handoff", "effect">>}
=============================================================================
