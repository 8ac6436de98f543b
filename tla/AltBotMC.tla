------------------------------ MODULE AltBotMC ------------------------------
(* Values of AltBot's constants for TLC that a configuration cannot write.  *)
EXTENDS AltBot

SomeSignals ==
  {{}, {"take_profit"}, {"stop_loss"}, {"profit_protect_take_profit", "take_profit"}}
Loss == {-1}
=============================================================================
