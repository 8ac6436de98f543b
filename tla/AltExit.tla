------------------------------ MODULE AltExit ------------------------------
(***************************************************************************)
(* Exit decisions of the spot alt bots: which trigger wins, what share of  *)
(* the position it sells and under which reason, and how the exchange's    *)
(* minimum order turns a small partial sale into a full one.  The module   *)
(* has no state: ma_crossover_bot.py calls these functions once per visit  *)
(* of a symbol.  Amounts are whole units of the base coin.                 *)
(***************************************************************************)
EXTENDS Integers

CONSTANTS
  MinOrder,       \* strategy.get_min_order_amount, 0 when none is configured
  Precision,      \* the exchange's amount step, in units
  SplitPct,       \* sell_split_ratio, in percent
  PartialTpPct,   \* effective_partial_take_profit_ratio, in percent
  PartialSlPct,   \* partial_stop_loss_ratio, in percent
  PartialExits    \* is the symbol in the partial take profit / stop loss lists?

\* position_threshold: without a minimum order, one unit (0.0001 in the code)
PositionThreshold == IF MinOrder > 0 THEN MinOrder ELSE 1

ASSUME ExitAssumption ==
  /\ MinOrder \in Nat
  /\ Precision \in Nat \ {0}
  /\ SplitPct \in 1..100 /\ PartialTpPct \in 1..100 /\ PartialSlPct \in 1..100
  /\ PartialExits \in BOOLEAN

(***************************************************************************)
(* Triggers, in the order resolve_alt_sell_intent tries them.  The last    *)
(* one stands for a bearish signal that passed the gap, higher-timeframe   *)
(* and take-profit stages of the exit funnel.                              *)
(***************************************************************************)
Priority ==
  [ stop_loss                    |-> 1,
    alt_profit_trailing_exit     |-> 2,
    profit_protect_take_profit   |-> 3,
    break_even_guard_take_profit |-> 4,
    volume_spike_take_profit     |-> 5,
    sol_probe_time_exit          |-> 6,
    take_profit                  |-> 7 ]

Triggers == DOMAIN Priority
Protective == Triggers \ {"take_profit"}
PartialReasons == {"partial_take_profit", "partial_stop_loss"}
StopReasons == {"stop_loss", "partial_stop_loss"}
Reasons == Triggers \cup PartialReasons

\* A stop loss excludes every profit trigger but the time exit of a SOL probe,
\* and the three take-profit guards exclude one another.
Compatible(T) ==
  /\ "stop_loss" \in T => T \subseteq {"stop_loss", "sol_probe_time_exit"}
  /\ \A s, t \in T \cap {"profit_protect_take_profit",
                         "break_even_guard_take_profit",
                         "volume_spike_take_profit"} : s = t

\* Variant: rounding up to the step.
ToPrecisionUp(a) == ((a + Precision - 1) \div Precision) * Precision

\* ccxt truncates to the step; an amount below one step makes it raise and the
\* helper falls back to the amount as it is.
ToPrecision(a) == IF a < Precision THEN a ELSE (a \div Precision) * Precision

Share(base, pct) == ToPrecision((base * pct) \div 100)

Leading(T) == CHOOSE t \in T : \A s \in T : Priority[t] <= Priority[s]

SellIntent(T, tpDone, slDone) ==
  LET lead == Leading(T)
      Intent(pct, reason) == [pct |-> pct, reason |-> reason]
  IN  CASE lead = "stop_loss" /\ PartialExits /\ ~slDone ->
             Intent(PartialSlPct, "partial_stop_loss")
        [] lead = "take_profit" /\ PartialExits /\ ~tpDone ->
             Intent(PartialTpPct, "partial_take_profit")
        [] lead = "take_profit" /\ ~(PartialExits /\ ~tpDone) ->
             Intent(SplitPct, "take_profit")
        [] OTHER -> Intent(100, lead)

PromotePartialExitReason(reason) ==
  CASE reason = "partial_take_profit" -> "take_profit"
    [] reason = "partial_stop_loss"   -> "stop_loss"
    [] OTHER                          -> reason

OrderableAmount(a) == a > 0 /\ a >= MinOrder

\* Variant: a share below the minimum order stays what it is.
SellOrderUnpromoted(base, intent) ==
  [qty |-> Share(base, intent.pct), reason |-> intent.reason]

\* A share below the minimum order becomes a sale of everything.
SellOrder(base, intent) ==
  LET amount == Share(base, intent.pct)
      full   == ToPrecision(base)
  IN  IF amount > 0 /\ amount < MinOrder /\ full >= MinOrder
      THEN [qty |-> full, reason |-> PromotePartialExitReason(intent.reason)]
      ELSE [qty |-> amount, reason |-> intent.reason]

ShouldOrder(plan) == OrderableAmount(plan.qty)

\* The funnel's last stage looks at the split share, whatever share the intent
\* will sell later.
EstimatedSell(T, base) ==
  Share(base, IF T \cap Protective # {} THEN 100 ELSE SplitPct)

ExitReady(T, base, inCooldown) ==
  /\ base >= PositionThreshold
  /\ T # {}
  /\ T \cap Protective # {} \/ ~inCooldown
  /\ OrderableAmount(EstimatedSell(T, base))
=============================================================================
