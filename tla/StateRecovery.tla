--------------------------- MODULE StateRecovery ---------------------------
(***************************************************************************)
(* settings/state_recovery.py: a restarted bot replays its trade history.  *)
(* The history of a symbol is kept as the accumulator of that replay,      *)
(* advanced by one record whenever log_fill appends one, so that starting  *)
(* a bot only has to read the result.                                      *)
(*                                                                         *)
(* left    remaining_amount (buys enter with their estimated amount)       *)
(* lots    the buys in cost_basis_quote                                    *)
(* ends    open_legs: where each open leg ends, counted from the oldest    *)
(*         unsold coin (selling n moves every end n closer, first in       *)
(*         first out)                                                      *)
(***************************************************************************)
EXTENDS AltLifecycle, FiniteSets

EmptyLedger ==
  [left |-> 0, lots |-> {}, ends |-> {}, tpDone |-> FALSE, slDone |-> FALSE,
   clocks |-> NoClocks]

\* Variants: a partial sale that empties the entry count is final, too; the
\* entry count is not looked at.
AnyEmptyExit(rec) == rec.countAfter <= 0 \/ rec.remainingAfter <= 0
EmptyHoldingExit(rec) == rec.reason \notin PartialReasons /\ rec.remainingAfter <= 0

\* _is_explicit_final_exit; no caller of log_fill passes is_final_exit
IsExplicitFinalExit(rec) ==
  /\ rec.reason \notin PartialReasons
  /\ rec.countAfter <= 0 \/ rec.remainingAfter <= 0

ClearRecovered(led) ==
  [led EXCEPT !.left = 0, !.lots = {}, !.ends = {}, !.tpDone = FALSE, !.slDone = FALSE]

\* Variant: a buy into a remainder is not averaged in.
ReplayBuyUnaveraged(led, id, qty) ==
  LET flat == led.left = 0
  IN  [led EXCEPT !.left = @ + qty,
                  !.lots = IF flat THEN {id} ELSE @,
                  !.ends = (IF flat THEN {} ELSE @) \cup {led.left + qty},
                  !.tpDone = ~flat /\ @,
                  !.slDone = ~flat /\ @,
                  !.clocks = TradeClocks(@)]

ReplayBuy(led, id, qty) ==
  LET flat == led.left = 0
  IN  [led EXCEPT !.left = @ + qty,
                  !.lots = @ \cup {id},
                  !.ends = (IF flat THEN {} ELSE @) \cup {led.left + qty},
                  !.tpDone = ~flat /\ @,
                  !.slDone = ~flat /\ @,
                  !.clocks = TradeClocks(@)]

ConsumeLegs(ends, n) == {e - n : e \in {x \in ends : x > n}}

\* The sell branch for a symbol the replay believes to hold
ReplayHeldSell(led, rec) ==
  LET left == IF rec.qty < led.left THEN led.left - rec.qty ELSE 0
      partly(r) == rec.reason = r /\ left > 0
      next == [led EXCEPT
                 !.left = left,
                 !.ends = ConsumeLegs(@, rec.qty),
                 !.tpDone = @ \/ partly("partial_take_profit"),
                 !.slDone = @ \/ partly("partial_stop_loss"),
                 !.clocks = SellClocks(@, rec.reason, partly("partial_take_profit"))]
  IN  IF IsExplicitFinalExit(rec) \/ left = 0 THEN ClearRecovered(next) ELSE next

\* A sell that the replay has no holding for only counts when it is final, and
\* then only for the time of the last trade.
ReplaySell(led, rec) ==
  IF led.left > 0 THEN ReplayHeldSell(led, rec)
  ELSE IF IsExplicitFinalExit(rec)
       THEN ClearRecovered([led EXCEPT !.clocks = TradeClocks(@)])
       ELSE led

\* Variants: the partial-exit flags, or the cooldown clocks, start blank.
RecoveredWithoutFlags(led) ==
  [BlankMemory EXCEPT !.price = IF led.left > 0 THEN led.lots ELSE {},
                      !.count = Cardinality(led.ends),
                      !.clocks = led.clocks]
RecoveredWithoutClocks(led) ==
  [BlankMemory EXCEPT !.price = IF led.left > 0 THEN led.lots ELSE {},
                      !.count = Cardinality(led.ends),
                      !.tpDone = led.tpDone, !.slDone = led.slDone]

\* build_alt_runtime_state: entry timing is not recovered
RecoveredMemory(led) ==
  [price |-> IF led.left > 0 THEN led.lots ELSE {},
   count |-> Cardinality(led.ends),
   tpDone |-> led.tpDone,
   slDone |-> led.slDone,
   confirm |-> 0,
   clocks |-> led.clocks]
=============================================================================
