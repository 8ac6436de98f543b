---------------------------- MODULE BtcLifecycle ----------------------------
(***************************************************************************)
(* What a BTC bot remembers of its position, how a pass and a fill change  *)
(* it, and what a restart reads back from the trade history:               *)
(* core/strategy/btc_position.py, compute_btc_exit_flags, the BTC part of  *)
(* core/positions/lifecycle.py and settings/state_recovery.py.             *)
(*                                                                         *)
(* Prices are abstracted to their lineage (the buys averaged into the      *)
(* entry price) and to the facts a pass sees about the market; times to    *)
(* ages in ticks, AgeCap standing for "long ago".                          *)
(***************************************************************************)
EXTENDS Integers, FiniteSets

CONSTANTS
  MaxAddOns,        \* pyramid_max_add_ons, with the regime's delta
  Confirmations,    \* required confirmations of an entry candidate
  TradeInterval,    \* min_trade_interval_sec, in ticks
  StopCooldown,     \* stop_loss_reentry_cooldown_sec, in ticks
  ProfitCooldown,   \* profit_exit_reentry_cooldown_sec, in ticks
  AgeCap            \* ages saturate here

ASSUME BtcLifecycleAssumption ==
  /\ MaxAddOns \in Nat
  /\ Confirmations \in Nat \ {0}
  /\ AgeCap \in Nat
  /\ {TradeInterval, StopCooldown, ProfitCooldown} \subseteq 0..AgeCap

Ages == 0..AgeCap
Older(age) == IF age < AgeCap THEN age + 1 ELSE AgeCap
NoClocks == [trade |-> AgeCap, stop |-> AgeCap, profit |-> AgeCap]
OlderClocks(c) ==
  [trade |-> Older(c.trade), stop |-> Older(c.stop), profit |-> Older(c.profit)]

BlankMemory ==
  [price |-> {}, adds |-> 0, tpDone |-> FALSE, armed |-> FALSE, confirm |-> 0,
   clocks |-> NoClocks]

-----------------------------------------------------------------------------
(* A pass over an open position                                            *)

\* What a pass sees of the market: the last close at the stop price, at the
\* take-profit price, below the trailing distance from the high; a net gain
\* above the fee protection in a bearish market; a break of the Donchian low;
\* a bearish market that the higher timeframe confirms.
Facts == {"stop", "target", "drawdown", "protect", "donchian", "bearish"}

\* With the default ATR stop the stop price is below the entry price and the
\* take-profit price above it; fee protection asks for a bearish market.
Possible(F) ==
  /\ F \subseteq Facts
  /\ "stop" \in F => {"target", "protect"} \cap F = {}

PartialTriggered(mem, F) == "target" \in F /\ ~mem.tpDone

\* evaluate_btc_open_position and the lines that store its result: the target
\* arms the trailing exit once the partial sale is behind.
Evaluate(mem, hasPosition, F) ==
  IF hasPosition
  THEN [mem EXCEPT !.armed = @ \/ ("target" \in F /\ ~PartialTriggered(mem, F))]
  ELSE [mem EXCEPT !.armed = FALSE, !.tpDone = FALSE, !.adds = 0]

Trailing(mem, F) == mem.armed /\ "drawdown" \in F
Protecting(mem, F) == "protect" \in F /\ ~Trailing(mem, F)

\* Variant: an armed trailing exit replaces the stop loss.
ExitReasonsTrailingOnly(mem, F) ==
  {r \in {"stop_loss", "partial_take_profit", "trailing_take_profit"} :
     \/ r = "stop_loss" /\ "stop" \in F /\ ~mem.armed
     \/ r = "partial_take_profit" /\ PartialTriggered(mem, F)
     \/ r = "trailing_take_profit" /\ Trailing(mem, F)}

\* compute_btc_exit_flags in EMA mode, on the evaluated memory
ExitReasons(mem, F) ==
  {r \in {"stop_loss", "partial_take_profit", "profit_protect_take_profit",
          "trailing_take_profit", "donchian_failure_exit", "trend_exit"} :
     \/ r = "stop_loss" /\ "stop" \in F
     \/ r = "partial_take_profit" /\ PartialTriggered(mem, F)
     \/ r = "profit_protect_take_profit" /\ Protecting(mem, F)
     \/ r = "trailing_take_profit" /\ Trailing(mem, F)
     \/ r = "donchian_failure_exit" /\ "donchian" \in F
     \/ /\ r = "trend_exit" /\ "bearish" \in F
        /\ ~mem.armed /\ "stop" \notin F /\ ~Protecting(mem, F)}

Priority ==
  <<"stop_loss", "partial_take_profit", "profit_protect_take_profit",
    "trailing_take_profit", "donchian_failure_exit", "trend_exit">>

SellReason(T) ==
  Priority[CHOOSE i \in 1..6 : Priority[i] \in T /\ \A j \in 1..i - 1 : Priority[j] \notin T]

\* update_entry_timing_state
UpdateTiming(mem, hasPosition, candidate) ==
  [mem EXCEPT !.confirm =
     IF hasPosition \/ ~candidate THEN 0
     ELSE IF @ < Confirmations THEN @ + 1 ELSE Confirmations]

\* Variant: the stop loss has no cooldown of its own.
InCooldownWithoutStop(mem) ==
  mem.clocks.trade < TradeInterval \/ mem.clocks.profit < ProfitCooldown

InCooldown(mem) ==
  \/ mem.clocks.trade < TradeInterval
  \/ mem.clocks.stop < StopCooldown
  \/ mem.clocks.profit < ProfitCooldown

-----------------------------------------------------------------------------
(* Fills                                                                   *)

TradeClocks(c) == [c EXCEPT !.trade = 0]

\* apply_btc_entry_fill_state; the flag of the partial sale is left alone
ApplyEntry(mem, id) ==
  [mem EXCEPT !.price = {id}, !.adds = 0, !.armed = FALSE, !.clocks = TradeClocks(@)]

\* Variant: the add-on is not counted.
ApplyAddOnUncounted(mem, id) ==
  [mem EXCEPT !.price = @ \cup {id}, !.clocks = TradeClocks(@)]

\* apply_btc_add_on_fill_state
ApplyAddOn(mem, id) ==
  [mem EXCEPT !.price = @ \cup {id}, !.adds = @ + 1, !.clocks = TradeClocks(@)]

\* The reasons that start the profit-exit cooldown of the running bot, and
\* those that start it in a replay (PROFIT_EXIT_REASONS)
ProfitReasons ==
  {"trailing_take_profit", "profit_protect_take_profit", "partial_take_profit"}
ReplayedProfitReasons == ProfitReasons \cup {"trend_exit"}

SaleClocks(c, reason, profitReasons) ==
  [trade |-> 0,
   stop |-> IF reason = "stop_loss" THEN 0 ELSE c.stop,
   profit |-> IF reason \in profitReasons THEN 0 ELSE c.profit]

\* A sell's response: a partial sale is remembered and arms the trailing exit.
ApplySale(mem, reason, partly) ==
  [mem EXCEPT !.tpDone = @ \/ partly, !.armed = @ \/ partly,
              !.clocks = SaleClocks(@, reason, ProfitReasons)]

\* clear_btc_position_state
ClearPosition(mem) ==
  [mem EXCEPT !.price = {}, !.adds = 0, !.tpDone = FALSE, !.armed = FALSE]

-----------------------------------------------------------------------------
(* The trade history, kept as the accumulator of its replay: the remaining  *)
(* amount, the buys in its cost, where each open leg ends (first in, first  *)
(* out), the flags and the cooldown clocks                                  *)

EmptyLedger ==
  [left |-> 0, lots |-> {}, ends |-> {}, tpDone |-> FALSE, armed |-> FALSE,
   clocks |-> NoClocks]

ReplayBuy(led, id, qty) ==
  LET flat == led.left = 0
  IN  [led EXCEPT !.left = @ + qty,
                  !.lots = @ \cup {id},
                  !.ends = (IF flat THEN {} ELSE @) \cup {led.left + qty},
                  !.tpDone = ~flat /\ @,
                  !.armed = ~flat /\ @,
                  !.clocks = TradeClocks(@)]

ClearReplayed(led) ==
  [led EXCEPT !.left = 0, !.lots = {}, !.ends = {}, !.tpDone = FALSE, !.armed = FALSE]

\* Variant: a sale that ends the position leaves its buys in the cost.
ReplaySaleKeepingLots(led, rec) ==
  LET left == IF rec.qty < led.left THEN led.left - rec.qty ELSE 0
  IN  [led EXCEPT !.left = IF rec.final THEN 0 ELSE left,
                  !.ends = IF rec.final THEN {} ELSE {e - rec.qty : e \in {x \in @ : x > rec.qty}},
                  !.clocks = SaleClocks(@, rec.reason, ReplayedProfitReasons)]

\* A sale [qty, reason, armed, final]; without a remainder only the time of a
\* final sale counts.
ReplaySale(led, rec) ==
  LET left == IF rec.qty < led.left THEN led.left - rec.qty ELSE 0
      next == [led EXCEPT
                 !.left = left,
                 !.ends = {e - rec.qty : e \in {x \in @ : x > rec.qty}},
                 !.tpDone = @ \/ (rec.reason = "partial_take_profit" /\ left > 0),
                 !.armed = rec.armed,
                 !.clocks = SaleClocks(@, rec.reason, ReplayedProfitReasons)]
  IN  IF led.left > 0
      THEN IF rec.final \/ left = 0 THEN ClearReplayed(next) ELSE next
      ELSE IF rec.final THEN ClearReplayed([led EXCEPT !.clocks = TradeClocks(@)])
                        ELSE led

\* Variant: the clock of the profit exits starts blank.
RecoveredWithoutProfitClock(led) ==
  [price |-> IF led.left > 0 THEN led.lots ELSE {},
   adds |-> IF led.ends = {} THEN 0 ELSE Cardinality(led.ends) - 1,
   tpDone |-> led.tpDone, armed |-> led.armed, confirm |-> 0,
   clocks |-> [led.clocks EXCEPT !.profit = AgeCap]]

\* build_btc_runtime_state
RecoveredMemory(led) ==
  [price |-> IF led.left > 0 THEN led.lots ELSE {},
   adds |-> IF led.ends = {} THEN 0 ELSE Cardinality(led.ends) - 1,
   tpDone |-> led.tpDone, armed |-> led.armed, confirm |-> 0,
   clocks |-> led.clocks]
=============================================================================
