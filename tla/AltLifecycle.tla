---------------------------- MODULE AltLifecycle ----------------------------
(***************************************************************************)
(* What an alt bot remembers of one symbol and how fills change it:        *)
(* core/positions/lifecycle.py and the entry timing of core/strategy.      *)
(*                                                                         *)
(* Prices are abstracted to their lineage: the average entry price is the  *)
(* set of the buys averaged into it, {} when the symbol has no entry.      *)
(* Times are abstracted to ages in ticks, AgeCap standing for "long ago".  *)
(***************************************************************************)
EXTENDS AltExit

CONSTANTS
  ClearThreshold,   \* full_clear_threshold, in units
  Confirmations,    \* entry_confirmation_loops
  TradeInterval,    \* min_trade_interval_sec, in ticks
  StopCooldown,     \* stop_loss_pattern_min_cooldown_sec, in ticks
  TpCooldown,       \* partial_take_profit_reentry_cooldown_sec, in ticks
  AgeCap            \* ages saturate here

ASSUME LifecycleAssumption ==
  /\ ClearThreshold \in 0..PositionThreshold
  /\ Confirmations \in Nat \ {0}
  /\ AgeCap \in Nat
  /\ {TradeInterval, StopCooldown, TpCooldown} \subseteq 0..AgeCap

Ages == 0..AgeCap
Older(age) == IF age < AgeCap THEN age + 1 ELSE AgeCap

NoClocks == [trade |-> AgeCap, stop |-> AgeCap, tp |-> AgeCap]
OlderClocks(c) == [trade |-> Older(c.trade), stop |-> Older(c.stop), tp |-> Older(c.tp)]

\* A fill restarts the trade clock, a stop loss and a partial take profit theirs.
TradeClocks(c) == [c EXCEPT !.trade = 0]
SellClocks(c, reason, partialTp) ==
  [trade |-> 0,
   stop |-> IF reason \in StopReasons THEN 0 ELSE c.stop,
   tp |-> IF partialTp THEN 0 ELSE c.tp]

BlankMemory ==
  [price |-> {}, count |-> 0, tpDone |-> FALSE, slDone |-> FALSE,
   confirm |-> 0, clocks |-> NoClocks]

\* clear_alt_position_state, and the cleanup of a symbol seen without a position
ClearPosition(mem) ==
  [mem EXCEPT !.price = {}, !.count = 0, !.tpDone = FALSE, !.slDone = FALSE]

\* apply_alt_buy_fill_state: the new buy is averaged only into a held position
ApplyBuyFill(mem, id, hasPosition) ==
  [mem EXCEPT !.price = IF hasPosition /\ @ # {} THEN @ \cup {id} ELSE {id},
              !.count = @ + 1,
              !.clocks = TradeClocks(@)]

Remaining(base, qty) == IF qty < base THEN base - qty ELSE 0
Cleared(base, qty) == Remaining(base, qty) <= ClearThreshold

\* Variant: without max(..., 0).
EntryCountUnfloored(mem, base, qty) ==
  IF Cleared(base, qty) THEN 0 ELSE mem.count - 1

EntryCountAfter(mem, base, qty) ==
  IF Cleared(base, qty) \/ mem.count = 0 THEN 0 ELSE mem.count - 1

\* apply_alt_sell_fill_state
ApplySellFill(mem, base, qty, reason) ==
  LET partly(r) == reason = r /\ ~Cleared(base, qty)
  IN  [mem EXCEPT
         !.count  = EntryCountAfter(mem, base, qty),
         !.tpDone = @ \/ partly("partial_take_profit"),
         !.slDone = @ \/ partly("partial_stop_loss"),
         !.clocks = SellClocks(@, reason, partly("partial_take_profit"))]

\* Variant: a held position does not reset the confirmations.
UpdateEntryTimingWhileHeld(mem, hasPosition, candidate) ==
  [mem EXCEPT !.confirm =
     IF ~candidate THEN 0 ELSE IF @ < Confirmations THEN @ + 1 ELSE Confirmations]

\* update_entry_timing_state: consecutive visits with a candidate and no position
UpdateEntryTiming(mem, hasPosition, candidate) ==
  [mem EXCEPT !.confirm =
     IF hasPosition \/ ~candidate THEN 0
     ELSE IF @ < Confirmations THEN @ + 1 ELSE Confirmations]

EntryTimingReady(mem) == mem.confirm >= Confirmations

InCooldown(mem) == mem.clocks.trade < TradeInterval

PartialTakeProfitCooldown(mem) == mem.clocks.tp < TpCooldown
StopLossPatternBlocked(mem) == mem.clocks.stop < StopCooldown

EntryCooldownActive(mem) ==
  InCooldown(mem) \/ PartialTakeProfitCooldown(mem) \/ StopLossPatternBlocked(mem)
=============================================================================
