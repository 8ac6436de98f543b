---------------------------- MODULE UpbitAltBotMC ----------------------------
(* Values for model checking the Upbit alt bot. *)
EXTENDS UpbitAltBot

FactChoices ==
  {{}, {"stop_loss"}, {"take_profit"}, {"arms"}, {"retraces"},
   {"profit_protect_take_profit", "arms"}}

Losses == {-2}
=============================================================================
