------------------------------ MODULE BtcBotMC ------------------------------
(* Values for model checking the BTC bots. *)
EXTENDS BtcBot

FactChoices ==
  {{}, {"stop"}, {"stop", "bearish"}, {"target"}, {"target", "drawdown"},
   {"bearish", "protect"}}

Losses == {-2}
=============================================================================
