-------------------------- MODULE MCServerHistory --------------------------
(* Small instances of ServerHistory.  An agent joins and fills much of the    *)
(* world in one tick; another tick brings a few more inputs.                  *)
EXTENDS ServerHistory

MCBatches ==
  {<<"join", "live", "land", "build", "org", "deposit">>,
   <<"join", "org", "post", "drop">>, <<"starve">>,
   <<"withdraw", "post", "eat">>, <<"offer", "decline", "live">>}
=============================================================================
