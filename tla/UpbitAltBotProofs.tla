-------------------------- MODULE UpbitAltBotProofs --------------------------
(***************************************************************************)
(* Theorems about UpbitAltBot, for every setting of the strategy, splits    *)
(* and partial exits of any share included, every set of prices and facts, *)
(* every set of faults and any number of them.                             *)
(***************************************************************************)
EXTENDS UpbitAltBot, TLAPS

LEMMA BoundsTyped ==
  /\ Confirmations \in Nat \ {0} /\ AgeCap \in Nat
  /\ MinValue \in Nat \ {0} /\ Spread \in Nat
  /\ BuyAmount \in Nat \ {0} /\ BuyFills \subseteq 1..BuyAmount /\ Fee \in Nat
  /\ GrossPnLs \subseteq Int /\ MaxDailyLoss \in Nat /\ Prices \subseteq Nat \ {0}
  /\ TradeInterval \in 0..AgeCap /\ StopCooldown \in 0..AgeCap /\ TpCooldown \in 0..AgeCap
BY UpbitAltAssumption, LifecycleAssumption, Zenon

LEMMA ThresholdTyped == ClearThreshold \in Nat
<1>1. MinOrder = 0
  BY UpbitAltAssumption, Zenon
<1>2. PositionThreshold = 1
  BY <1>1 DEF PositionThreshold
<1>3. ClearThreshold \in 0..PositionThreshold
  BY LifecycleAssumption, Zenon
<1> QED
  BY <1>2, <1>3

-----------------------------------------------------------------------------
(* The inductive invariant                                                 *)

Clocks == [trade : Ages, stop : Ages, tp : Ages]

\* A row of the bot's memory, whatever its entry count
IsMemory(r) ==
  r \in [price : SUBSET Nat, count : {r.count}, tpDone : BOOLEAN, slDone : BOOLEAN,
         confirm : Nat, clocks : Clocks]

\* A replayed history, whatever its open legs
IsLedger(r) ==
  r \in [left : Nat, lots : SUBSET Nat, ends : {r.ends}, tpDone : BOOLEAN,
         slDone : BOOLEAN, clocks : Clocks]

Orders == [stage : {"none", "sent", "filled", "acked"}, side : {"buy", "sell"},
           holding : BOOLEAN, base : Nat, id : Nat, qty : Nat,
           reason : Reasons \cup {"entry"}, gross : Int]

Typed ==
  /\ up \in BOOLEAN /\ IsMemory(mem) /\ pnl \in Int /\ order \in Orders
  /\ held \in Nat /\ lots \in SUBSET Nat /\ price \in Prices
  /\ streaming \in BOOLEAN /\ coming \in BOOLEAN /\ view \in Nat \cup {Unknown}
  /\ IsLedger(ledger)
  /\ today.gross \in Int /\ today.net \in Int /\ stale \in BOOLEAN
  /\ fills \in Clocks /\ parts \in Nat /\ missed \in Nat /\ blinded \in Nat
  /\ cut \in BOOLEAN /\ misread \in BOOLEAN /\ bought \in Nat

\* What the history, and what the memory, is worth: fills that were recorded, of
\* sales that left what their reasons say; a memory that was not made from another
\* history.
HistoryFit == missed = 0 /\ ~cut
MemoryFit == missed = 0 /\ ~misread

Takes(reason) == reason = "partial_take_profit"
Cuts(reason) == reason = "partial_stop_loss"
One(b) == IF b THEN 1 ELSE 0
Pending == order.stage \in {"filled", "acked"}

\* What the bot reads of its balance is true once no change is on its way.
SnapshotRight ==
  /\ coming => streaming
  /\ missed = 0 /\ ~coming => view \in {Unknown, held}

\* A partial sale that leaves more than dust, or any other that leaves nothing
Leaves(o) ==
  /\ o.qty > 0 /\ o.qty <= o.base
  /\ IF o.reason \in PartialReasons THEN ~Cleared(o.base, o.qty) ELSE o.qty = o.base

BuyFits == order.side = "buy" => ~order.holding /\ order.reason = "entry" /\ order.gross = 0

SellFits ==
  order.side = "sell" /\ order.stage # "none" =>
    /\ order.qty > 0 /\ order.qty <= order.base /\ mem.price # {}
    /\ order.stage # "acked" => /\ Takes(order.reason) => ~mem.tpDone
                                /\ Cuts(order.reason) => ~mem.slDone
    /\ order.stage = "acked" /\ PartlySold(order) =>
         /\ Takes(order.reason) => mem.tpDone
         /\ Cuts(order.reason) => mem.slDone

OrderFits ==
  /\ order.stage # "none" => up
  /\ missed = 0 =>
       /\ order.stage = "sent" => order.base = held /\ ~coming
       /\ Pending => IF order.side = "sell" THEN held = order.base - order.qty ELSE held > 0

Blank(led) == led.lots = {} /\ ~led.tpDone /\ ~led.slDone
Sold ==
  /\ held = 0 => lots = {} /\ parts = 0
  /\ held > 0 => lots # {}
  /\ IF ledger.left = 0 THEN Blank(ledger) ELSE ledger.lots # {}

\* Between an execution and its record the history is behind.
HistoryMatches ==
  HistoryFit =>
    /\ ~Pending => /\ held <= ledger.left
                   /\ held = 0 => ledger.left = 0
                   /\ held > 0 => ledger.lots = lots
    /\ Pending /\ order.side = "sell" => /\ Leaves(order) /\ order.base <= ledger.left
                                         /\ held > 0 => lots = ledger.lots
    /\ Pending /\ order.side = "buy" => /\ lots = ledger.lots \cup {order.id}
                                        /\ held <= ledger.left + BuyAmount

AfterOrder(c) ==
  IF order.side = "buy" THEN TradeClocks(c)
  ELSE SellClocks(c, order.reason, PartlySold(order) /\ Takes(order.reason))

ClocksMatch ==
  /\ HistoryFit => fills = IF Pending THEN AfterOrder(ledger.clocks) ELSE ledger.clocks
  /\ MemoryFit /\ up =>
       fills = IF order.stage = "filled" THEN AfterOrder(mem.clocks) ELSE mem.clocks

\* While nothing was out of sight, the memory knows what is held, whatever the sales
\* left, and a buy comes when nothing is.
MemoryMatches ==
  MemoryFit /\ blinded = 0 /\ up =>
    /\ ~Pending /\ held > 0 => mem.price = lots
    /\ order.stage = "sent" /\ order.side = "buy" => held = 0
    /\ Pending /\ order.side = "buy" =>
         lots = {order.id} /\ (order.stage = "acked" => mem.price = {order.id})
    /\ Pending /\ order.side = "sell" /\ held > 0 =>
         mem.price = lots /\ ~Cleared(order.base, order.qty)

Unrecorded == IF order.stage = "acked" THEN order.gross ELSE 0
LossesKept ==
  /\ today.net <= today.gross
  /\ up /\ ~stale /\ missed = 0 => pnl <= today.gross + Unrecorded

\* A partial sale of either kind may still come of the memory, or of what a restart
\* would recover; the one whose order is executed but not recorded is spent.
TpFree ==
  /\ \/ up /\ mem.price # {} /\ ~mem.tpDone
     \/ ledger.left > 0 /\ ~ledger.tpDone
  /\ ~(Pending /\ PartlySold(order) /\ Takes(order.reason))
SlFree ==
  /\ \/ up /\ mem.price # {} /\ ~mem.slDone
     \/ ledger.left > 0 /\ ~ledger.slDone
  /\ ~(Pending /\ PartlySold(order) /\ Cuts(order.reason))

BoughtWhole == Pending /\ order.side = "buy" => parts = 0
PartsCounted == parts + One(TpFree) + One(SlFree) <= 2 * (1 + missed + blinded)

Inv ==
  /\ Typed /\ SnapshotRight /\ BuyFits /\ SellFits /\ OrderFits /\ Sold
  /\ HistoryMatches /\ ClocksMatch /\ MemoryMatches /\ LossesKept
  /\ BoughtWhole /\ PartsCounted

-----------------------------------------------------------------------------
(* Exit decisions                                                          *)

\* The trigger that wins is one of those that fired.
LEMMA LeadingIsTrigger ==
  ASSUME NEW T \in SUBSET Triggers, T # {}
  PROVE  Leading(T) \in T
<1> DEFINE First(t) == t \in T /\ \A s \in T : Priority[t] <= Priority[s]
<1>1. SUFFICES \E t \in T : First(t)
  BY DEF Leading
<1>2. Triggers = {"stop_loss", "alt_profit_trailing_exit", "profit_protect_take_profit",
                  "break_even_guard_take_profit", "volume_spike_take_profit",
                  "sol_probe_time_exit", "take_profit"}
  BY DEF Triggers, Priority
<1>3. CASE "stop_loss" \in T
  BY <1>2, <1>3 DEF Priority
<1>4. CASE "stop_loss" \notin T /\ "alt_profit_trailing_exit" \in T
  BY <1>2, <1>4 DEF Priority
<1>5. CASE T \cap {"stop_loss", "alt_profit_trailing_exit"} = {}
           /\ "profit_protect_take_profit" \in T
  BY <1>2, <1>5 DEF Priority
<1>6. CASE T \cap {"stop_loss", "alt_profit_trailing_exit",
                   "profit_protect_take_profit"} = {}
           /\ "break_even_guard_take_profit" \in T
  BY <1>2, <1>6 DEF Priority
<1>7. CASE T \subseteq {"volume_spike_take_profit", "sol_probe_time_exit", "take_profit"}
           /\ "volume_spike_take_profit" \in T
  BY <1>2, <1>7 DEF Priority
<1>8. CASE T \subseteq {"sol_probe_time_exit", "take_profit"}
           /\ "sol_probe_time_exit" \in T
  BY <1>2, <1>8 DEF Priority
<1>9. CASE T = {"take_profit"}
  BY <1>2, <1>9 DEF Priority
<1> QED
  BY <1>2, <1>3, <1>4, <1>5, <1>6, <1>7, <1>8, <1>9

\* What an intent asks for, by its reason
LEMMA IntentFits ==
  ASSUME NEW T \in SUBSET Triggers, T # {}, NEW tpDone \in BOOLEAN, NEW slDone \in BOOLEAN
  PROVE  LET intent == SellIntent(T, tpDone, slDone)
         IN  /\ intent.reason \in Reasons /\ intent.pct \in 1..100
             /\ Takes(intent.reason) => ~tpDone
             /\ Cuts(intent.reason) => ~slDone
<1>1. Leading(T) \in Triggers
  BY LeadingIsTrigger
<1> HIDE DEF Leading
<1>2. /\ SellIntent(T, tpDone, slDone).reason \in Reasons
      /\ SellIntent(T, tpDone, slDone).pct \in 1..100
  BY <1>1, ExitAssumption DEF SellIntent, Reasons, PartialReasons, Triggers, Priority
<1>3. /\ Takes(SellIntent(T, tpDone, slDone).reason) => ~tpDone
      /\ Cuts(SellIntent(T, tpDone, slDone).reason) => ~slDone
  BY <1>1 DEF SellIntent, Takes, Cuts, Triggers, Priority
<1> QED
  BY <1>2, <1>3

LEMMA TruncationIsSmaller ==
  ASSUME NEW a \in Nat
  PROVE  ToPrecision(a) \in Nat /\ ToPrecision(a) <= a
<1>1. Precision \in Nat \ {0}
  BY ExitAssumption
<1>2. (a \div Precision) * Precision \in Nat /\ (a \div Precision) * Precision <= a
  BY <1>1
<1> QED
  BY <1>2 DEF ToPrecision

LEMMA SharesAreAmounts ==
  ASSUME NEW base \in Nat, NEW pct \in 1..100
  PROVE  Share(base, pct) \in Nat /\ Share(base, pct) <= base
<1> DEFINE part == (base * pct) \div 100
<1>1. base * pct \in Nat /\ base * pct <= base * 100
  OBVIOUS
<1>2. part \in Nat /\ part <= base
  BY <1>1
<1> HIDE DEF part
<1> QED
  BY <1>2, TruncationIsSmaller DEF Share, part

LEMMA BalanceTyped == Typed => BaseFree \in Nat
BY DEF Typed, BaseFree, Unknown

LEMMA PositionHasAmount == ASSUME Typed, NEW q \in Nat, IsPosition(q) PROVE q > 0
<1>1. price \in Nat /\ MinValue \in Nat /\ MinValue > 0 /\ q * price >= MinValue
  BY BoundsTyped DEF Typed, IsPosition
<1>2. q = 0 => q * price = 0
  BY <1>1
<1> QED
  BY <1>1, <1>2

\* What a visit decides to sell it believes to own, and has not sold before.
LEMMA PlanFits ==
  ASSUME Typed, NEW T \in SUBSET Triggers, T # {}, NEW bid \in Bids,
         Orderable(SellPlan(T, bid).qty, bid)
  PROVE  LET plan == SellPlan(T, bid)
         IN  /\ plan.qty \in Nat /\ plan.qty > 0 /\ plan.qty <= BaseFree
             /\ plan.reason \in Reasons
             /\ Takes(plan.reason) => ~mem.tpDone
             /\ Cuts(plan.reason) => ~mem.slDone
<1> DEFINE intent == SellIntent(T, mem.tpDone, mem.slDone)
           base == BaseFree
           amount == Share(base, intent.pct)
           plan == SellPlan(T, bid)
<1>1. /\ intent.reason \in Reasons /\ intent.pct \in 1..100
      /\ Takes(intent.reason) => ~mem.tpDone
      /\ Cuts(intent.reason) => ~mem.slDone
  BY IntentFits DEF Typed, IsMemory
<1>2. base \in Nat
  BY BalanceTyped
<1> HIDE DEF intent, base
<1>3. amount \in Nat /\ amount <= base /\ ToPrecision(base) \in Nat /\ ToPrecision(base) <= base
  BY <1>1, <1>2, SharesAreAmounts, TruncationIsSmaller
<1>4. \/ plan.qty = ToPrecision(base) /\ plan.reason = PromotePartialExitReason(intent.reason)
      \/ plan.qty = amount /\ plan.reason = intent.reason
  BY DEF SellPlan, intent, amount, base
<1>5. plan.qty > 0
  BY DEF Orderable
<1> HIDE DEF amount, plan
<1>6. LET promoted == PromotePartialExitReason(intent.reason)
      IN  promoted \in Reasons /\ ~Takes(promoted) /\ ~Cuts(promoted)
  <2>1. "take_profit" \in Reasons /\ "stop_loss" \in Reasons
    BY DEF Reasons, Triggers, Priority
  <2> QED
    BY <1>1, <2>1 DEF PromotePartialExitReason, Takes, Cuts
<1>7. /\ plan.qty \in Nat /\ plan.qty <= base /\ plan.reason \in Reasons
      /\ Takes(plan.reason) => ~mem.tpDone
      /\ Cuts(plan.reason) => ~mem.slDone
  BY <1>1, <1>3, <1>4, <1>6
<1> QED
  BY <1>5, <1>7 DEF base, plan

-----------------------------------------------------------------------------
(* The memory                                                              *)

LEMMA ClocksTyped ==
  ASSUME NEW c \in Clocks
  PROVE  /\ TradeClocks(c) \in Clocks /\ OlderClocks(c) \in Clocks /\ NoClocks \in Clocks
         /\ \A reason : /\ SellClocks(c, reason, TRUE) \in Clocks
                        /\ SellClocks(c, reason, FALSE) \in Clocks
BY BoundsTyped DEF Clocks, Ages, TradeClocks, OlderClocks, Older, NoClocks, SellClocks

LEMMA ClearFields ==
  ASSUME NEW r, IsMemory(r)
  PROVE  LET n == ClearPosition(r)
         IN  /\ IsMemory(n) /\ n.price = {} /\ ~n.tpDone /\ ~n.slDone
             /\ n.clocks = r.clocks /\ n.confirm = r.confirm
BY DEF ClearPosition, IsMemory

LEMMA TimingFields ==
  ASSUME NEW r, IsMemory(r), NEW h, NEW c
  PROVE  LET n == UpdateEntryTiming(r, h, c)
         IN  /\ IsMemory(n) /\ n.price = r.price /\ n.tpDone = r.tpDone
             /\ n.slDone = r.slDone /\ n.clocks = r.clocks
             /\ h => n.confirm = 0
<1> DEFINE k == IF h \/ ~c THEN 0
                ELSE IF r.confirm < Confirmations THEN r.confirm + 1 ELSE Confirmations
<1>1. k \in Nat /\ (h => k = 0)
  BY BoundsTyped DEF IsMemory
<1>2. UpdateEntryTiming(r, h, c) = [r EXCEPT !.confirm = k]
  BY Zenon DEF UpdateEntryTiming
<1> HIDE DEF k
<1> QED
  BY <1>1, <1>2 DEF IsMemory

\* What a visit makes of the memory before it decides
LEMMA VisitedFields ==
  ASSUME Typed, NEW c
  PROVE  LET n == Visited(c)
         IN  /\ IsMemory(n) /\ n.clocks = mem.clocks
             /\ HasPosition => /\ n.price = mem.price /\ n.tpDone = mem.tpDone
                               /\ n.slDone = mem.slDone /\ n.confirm = 0
             /\ ~HasPosition => n.price = {} /\ ~n.tpDone /\ ~n.slDone
<1> DEFINE kept == IF HasPosition THEN mem ELSE ClearPosition(mem)
<1>1. /\ IsMemory(kept) /\ kept.clocks = mem.clocks
      /\ HasPosition => kept = mem
      /\ ~HasPosition => kept.price = {} /\ ~kept.tpDone /\ ~kept.slDone
  BY ClearFields DEF Typed
<1>2. Visited(c) = UpdateEntryTiming(kept, HasPosition, c)
  BY DEF Visited
<1> HIDE DEF kept
<1> DEFINE n == UpdateEntryTiming(kept, HasPosition, c)
<1>3. /\ IsMemory(n) /\ n.price = kept.price /\ n.tpDone = kept.tpDone
      /\ n.slDone = kept.slDone /\ n.clocks = kept.clocks
      /\ HasPosition => n.confirm = 0
  BY <1>1, TimingFields
<1> HIDE DEF n
<1>4. /\ IsMemory(n) /\ n.clocks = mem.clocks
      /\ HasPosition => /\ n.price = mem.price /\ n.tpDone = mem.tpDone
                        /\ n.slDone = mem.slDone /\ n.confirm = 0
      /\ ~HasPosition => n.price = {} /\ ~n.tpDone /\ ~n.slDone
  BY <1>1, <1>3
<1> QED
  BY <1>2, <1>4 DEF n

\* The fill of a buy decided without a position
LEMMA BuyFields ==
  ASSUME NEW r, IsMemory(r), NEW id \in Nat
  PROVE  LET n == ApplyBuyFill(r, id, FALSE)
         IN  /\ IsMemory(n) /\ n.price = {id} /\ n.tpDone = r.tpDone
             /\ n.slDone = r.slDone /\ n.clocks = TradeClocks(r.clocks)
<1>1. TradeClocks(r.clocks) \in Clocks
  BY ClocksTyped DEF IsMemory
<1> DEFINE k == TradeClocks(r.clocks)
           a == r.count + 1
<1>2. ApplyBuyFill(r, id, FALSE) = [r EXCEPT !.price = {id}, !.count = a, !.clocks = k]
  BY DEF ApplyBuyFill
<1> HIDE DEF k, a
<1> DEFINE n == [r EXCEPT !.price = {id}, !.count = a, !.clocks = k]
<1>3. n.price = {id} /\ n.tpDone = r.tpDone /\ n.slDone = r.slDone /\ n.clocks = k
  BY DEF IsMemory
<1>4. IsMemory(n)
  BY <1>1 DEF IsMemory, k
<1> QED
  BY <1>2, <1>3, <1>4 DEF k

\* The fill of a sale, with a remainder or without
LEMMA SaleFields ==
  ASSUME NEW r, IsMemory(r), NEW o
  PROVE  LET n == ApplySellFill(r, o.base, o.qty, o.reason)
         IN  /\ IsMemory(n) /\ n.price = r.price
             /\ n.tpDone <=> r.tpDone \/ (PartlySold(o) /\ Takes(o.reason))
             /\ n.slDone <=> r.slDone \/ (PartlySold(o) /\ Cuts(o.reason))
             /\ n.clocks = SellClocks(r.clocks, o.reason, PartlySold(o) /\ Takes(o.reason))
<1> DEFINE takes == o.reason = "partial_take_profit" /\ ~Cleared(o.base, o.qty)
           cuts == o.reason = "partial_stop_loss" /\ ~Cleared(o.base, o.qty)
           a == EntryCountAfter(r, o.base, o.qty)
           t == r.tpDone \/ takes
           s == r.slDone \/ cuts
           k == SellClocks(r.clocks, o.reason, takes)
           n == [r EXCEPT !.count = a, !.tpDone = t, !.slDone = s, !.clocks = k]
           both == PartlySold(o) /\ Takes(o.reason)
           either == PartlySold(o) /\ Cuts(o.reason)
<1>1. (takes <=> both) /\ (cuts <=> either)
  BY DEF PartlySold, PartialReasons, Takes, Cuts
<1>2. ApplySellFill(r, o.base, o.qty, o.reason) = n
  BY DEF ApplySellFill
<1>3. k = SellClocks(r.clocks, o.reason, both)
  BY <1>1 DEF SellClocks
<1>4. k \in Clocks
  BY ClocksTyped DEF IsMemory, SellClocks
<1>5. /\ t \in BOOLEAN /\ s \in BOOLEAN
      /\ t <=> r.tpDone \/ both
      /\ s <=> r.slDone \/ either
  BY <1>1, Zenon
<1> HIDE DEF takes, cuts, a, t, s, k, both, either
<1>6. IsMemory(n) /\ n.price = r.price /\ n.tpDone = t /\ n.slDone = s /\ n.clocks = k
  BY <1>4, <1>5 DEF IsMemory
<1> HIDE DEF n
<1>7. (n.tpDone <=> r.tpDone \/ both) /\ (n.slDone <=> r.slDone \/ either)
  BY <1>5, <1>6, Zenon
<1>8. n.clocks = SellClocks(r.clocks, o.reason, both)
  BY <1>3, <1>6
<1> DEFINE m == ApplySellFill(r, o.base, o.qty, o.reason)
<1>9. m = n
  BY <1>2
<1> HIDE DEF m
<1>10. /\ IsMemory(m) /\ m.price = r.price
       /\ m.tpDone <=> r.tpDone \/ both
       /\ m.slDone <=> r.slDone \/ either
       /\ m.clocks = SellClocks(r.clocks, o.reason, both)
  BY <1>6, <1>7, <1>8, <1>9, Zenon
<1> QED
  BY <1>10, Zenon DEF m, both, either

LEMMA AgedFields ==
  ASSUME NEW r, IsMemory(r)
  PROVE  LET n == [r EXCEPT !.clocks = OlderClocks(@)]
         IN  /\ IsMemory(n) /\ n.price = r.price /\ n.tpDone = r.tpDone
             /\ n.slDone = r.slDone /\ n.clocks = OlderClocks(r.clocks)
<1>1. OlderClocks(r.clocks) \in Clocks
  BY ClocksTyped DEF IsMemory
<1> QED
  BY <1>1 DEF IsMemory

LEMMA BlankFields == IsMemory(BlankMemory) /\ IsLedger(EmptyLedger) /\ NoClocks \in Clocks
<1>1. NoClocks \in Clocks
  BY BoundsTyped DEF Clocks, Ages, NoClocks
<1> QED
  BY <1>1 DEF BlankMemory, EmptyLedger, IsMemory, IsLedger

-----------------------------------------------------------------------------
(* The history                                                             *)

LEMMA ReplayBuyFields ==
  ASSUME NEW led, IsLedger(led), led.left = 0 => Blank(led), NEW id \in Nat, NEW qty \in Nat
  PROVE  LET n == ReplayBuy(led, id, qty)
         IN  /\ IsLedger(n) /\ n.left = led.left + qty /\ n.lots = led.lots \cup {id}
             /\ n.tpDone = led.tpDone /\ n.slDone = led.slDone
             /\ n.clocks = TradeClocks(led.clocks)
<1> DEFINE left == led.left + qty
           l == led.lots \cup {id}
           ends == (IF led.left = 0 THEN {} ELSE led.ends) \cup {led.left + qty}
           tp == ~(led.left = 0) /\ led.tpDone
           sl == ~(led.left = 0) /\ led.slDone
           k == TradeClocks(led.clocks)
           n == [led EXCEPT !.left = left, !.lots = l, !.ends = ends,
                            !.tpDone = tp, !.slDone = sl, !.clocks = k]
<1>1. ReplayBuy(led, id, qty) = n
  BY Zenon DEF ReplayBuy
<1>2. left \in Nat /\ l \in SUBSET Nat /\ k \in Clocks
  <2>1. led.left \in Nat /\ led.lots \in SUBSET Nat /\ led.clocks \in Clocks
    BY DEF IsLedger
  <2>2. k \in Clocks
    BY <2>1, ClocksTyped
  <2>3. left \in Nat /\ l \in SUBSET Nat
    BY <2>1
  <2> QED
    BY <2>2, <2>3
<1>3. led.tpDone \in BOOLEAN /\ led.slDone \in BOOLEAN
  BY DEF IsLedger
<1>4. tp = led.tpDone /\ sl = led.slDone
  BY <1>3, Zenon DEF Blank
<1> HIDE DEF left, l, ends, tp, sl, k
<1>5. /\ IsLedger(n) /\ n.left = left /\ n.lots = l
      /\ n.tpDone = tp /\ n.slDone = sl /\ n.clocks = k
  BY <1>2, <1>3, <1>4 DEF IsLedger
<1> HIDE DEF n
<1> QED
  BY <1>1, <1>4, <1>5 DEF left, l, k

LEMMA ClearRecoveredFields ==
  ASSUME NEW led, IsLedger(led)
  PROVE  LET n == ClearRecovered(led)
         IN  IsLedger(n) /\ n.left = 0 /\ Blank(n) /\ n.clocks = led.clocks
<1> DEFINE n == ClearRecovered(led)
<1>1. n.left = 0 /\ n.lots = {} /\ ~n.tpDone /\ ~n.slDone /\ n.clocks = led.clocks
  BY DEF ClearRecovered, IsLedger
<1>2. IsLedger(n)
  BY DEF ClearRecovered, IsLedger
<1> QED
  BY <1>1, <1>2 DEF Blank

\* A sale the replay has no holding for changes nothing but the clocks.
LEMMA ReplayUnheldFields ==
  ASSUME NEW led, IsLedger(led), led.left = 0, Blank(led), NEW rec
  PROVE  LET n == ReplaySell(led, rec) IN IsLedger(n) /\ n.left = 0 /\ Blank(n)
<1> DEFINE aged == [led EXCEPT !.clocks = TradeClocks(@)]
<1>1. IsLedger(aged)
  <2>1. TradeClocks(led.clocks) \in Clocks
    BY ClocksTyped DEF IsLedger
  <2> QED
    BY <2>1 DEF IsLedger
<1>2. ReplaySell(led, rec) \in {led, ClearRecovered(aged)}
  <2>1. ~(led.left > 0)
    OBVIOUS
  <2> QED
    BY <2>1 DEF ReplaySell
<1> HIDE DEF aged
<1>3. IsLedger(ClearRecovered(aged)) /\ ClearRecovered(aged).left = 0 /\ Blank(ClearRecovered(aged))
  BY <1>1, ClearRecoveredFields
<1> QED
  BY <1>2, <1>3

\* A sale from a holding the replay knows: unless it ends the position, it takes its
\* amount and notes a partial exit; if it leaves what its reason says, the replay
\* sees that.
LEMMA ReplayHeldFields ==
  ASSUME NEW led, IsLedger(led), led.left > 0, NEW o, o.qty \in Nat, o.base \in Nat,
         NEW rec, rec.qty = o.qty, rec.reason = o.reason,
         rec.remainingAfter = Remaining(o.base, o.qty)
  PROVE  LET n == ReplaySell(led, rec)
         IN  /\ IsLedger(n)
             /\ n.left = 0 => Blank(n)
             /\ n.left > 0 => /\ n.left = led.left - o.qty /\ n.lots = led.lots
                              /\ n.tpDone <=> led.tpDone \/ Takes(o.reason)
                              /\ n.slDone <=> led.slDone \/ Cuts(o.reason)
             /\ Leaves(o) =>
                  /\ n.left > 0 <=> o.reason \in PartialReasons /\ o.qty < led.left
                  /\ n.left > 0 \/ o.reason \notin PartialReasons =>
                       n.clocks = SellClocks(led.clocks, o.reason, Takes(o.reason))
<1> DEFINE left == IF rec.qty < led.left THEN led.left - rec.qty ELSE 0
           takes == rec.reason = "partial_take_profit" /\ left > 0
           cuts == rec.reason = "partial_stop_loss" /\ left > 0
           t == led.tpDone \/ takes
           s == led.slDone \/ cuts
           k == SellClocks(led.clocks, rec.reason, takes)
           ends == ConsumeLegs(led.ends, rec.qty)
           next == [led EXCEPT !.left = left, !.ends = ends, !.tpDone = t,
                               !.slDone = s, !.clocks = k]
           n == ReplaySell(led, rec)
<1>1. n = IF IsExplicitFinalExit(rec) \/ left = 0 THEN ClearRecovered(next) ELSE next
  BY DEF ReplaySell, ReplayHeldSell
<1>2. /\ led.left \in Nat /\ left \in Nat
      /\ o.qty < led.left => left = led.left - o.qty /\ left > 0
      /\ ~(o.qty < led.left) => left = 0
  BY DEF IsLedger
<1>3. /\ t \in BOOLEAN /\ s \in BOOLEAN
      /\ left > 0 => /\ t <=> led.tpDone \/ Takes(o.reason)
                     /\ s <=> led.slDone \/ Cuts(o.reason)
  BY DEF Takes, Cuts
<1>4. /\ k \in Clocks
      /\ left > 0 \/ ~Takes(o.reason) => k = SellClocks(led.clocks, o.reason, Takes(o.reason))
  BY ClocksTyped DEF IsLedger, SellClocks, Takes
<1> HIDE DEF left, takes, cuts, t, s, k, ends, n
<1>5. /\ IsLedger(next) /\ next.left = left /\ next.lots = led.lots
      /\ next.tpDone = t /\ next.slDone = s /\ next.clocks = k
  BY <1>2, <1>3, <1>4 DEF IsLedger
<1> HIDE DEF next
<1>6. /\ IsLedger(ClearRecovered(next)) /\ ClearRecovered(next).left = 0
      /\ Blank(ClearRecovered(next)) /\ ClearRecovered(next).clocks = k
  BY <1>5, ClearRecoveredFields
<1>7. o.reason \notin PartialReasons => ~Takes(o.reason)
  BY DEF PartialReasons, Takes
<1>8. CASE n = next /\ ~IsExplicitFinalExit(rec) /\ left # 0
  <2>1. n.left > 0 /\ o.qty < led.left /\ n.left = led.left - o.qty
    BY <1>2, <1>5, <1>8
  <2>2. (n.tpDone <=> led.tpDone \/ Takes(o.reason)) /\ (n.slDone <=> led.slDone \/ Cuts(o.reason))
    BY <1>2, <1>3, <1>5, <1>8
  <2>3. Leaves(o) => o.reason \in PartialReasons
    BY <1>8 DEF Leaves, IsExplicitFinalExit, Remaining
  <2>4. n.clocks = SellClocks(led.clocks, o.reason, Takes(o.reason))
    BY <1>4, <1>5, <1>8, <2>1
  <2>5. IsLedger(n) /\ n.lots = led.lots
    BY <1>5, <1>8
  <2> QED
    BY <2>1, <2>2, <2>3, <2>4, <2>5 DEF n
<1>9. CASE n = ClearRecovered(next) /\ (IsExplicitFinalExit(rec) \/ left = 0)
  <2>1. IsLedger(n) /\ n.left = 0 /\ Blank(n) /\ n.clocks = k
    BY <1>6, <1>9
  <2>2. ~(o.reason \in PartialReasons /\ o.qty < led.left)
    BY <1>2, <1>9 DEF IsExplicitFinalExit
  <2>3. o.reason \notin PartialReasons =>
          n.clocks = SellClocks(led.clocks, o.reason, Takes(o.reason))
    BY <1>4, <1>7, <2>1
  <2> QED
    BY <2>1, <2>2, <2>3 DEF n
<1> QED
  BY <1>1, <1>8, <1>9

LEMMA RecoveredFields ==
  ASSUME NEW led, IsLedger(led)
  PROVE  LET n == RecoveredMemory(led)
         IN  /\ IsMemory(n) /\ n.price = (IF led.left > 0 THEN led.lots ELSE {})
             /\ n.tpDone = led.tpDone /\ n.slDone = led.slDone /\ n.clocks = led.clocks
<1> DEFINE p == IF led.left > 0 THEN led.lots ELSE {}
           a == Cardinality(led.ends)
<1>1. p \in SUBSET Nat
  BY DEF IsLedger
<1>2. RecoveredMemory(led) = [price |-> p, count |-> a, tpDone |-> led.tpDone,
        slDone |-> led.slDone, confirm |-> 0, clocks |-> led.clocks]
  BY DEF RecoveredMemory
<1> HIDE DEF p, a
<1> DEFINE n == RecoveredMemory(led)
<1>3. /\ IsMemory(n) /\ n.price = p /\ n.tpDone = led.tpDone /\ n.slDone = led.slDone
      /\ n.clocks = led.clocks
  BY <1>1, <1>2 DEF IsMemory, IsLedger
<1> QED
  BY <1>3 DEF p
LEMMA AgedLedgerFields ==
  ASSUME NEW led, IsLedger(led)
  PROVE  LET n == [led EXCEPT !.clocks = OlderClocks(@)]
         IN  /\ IsLedger(n) /\ n.left = led.left /\ n.lots = led.lots
             /\ n.tpDone = led.tpDone /\ n.slDone = led.slDone
             /\ n.clocks = OlderClocks(led.clocks)
<1>1. OlderClocks(led.clocks) \in Clocks
  BY ClocksTyped DEF IsLedger
<1> QED
  BY <1>1 DEF IsLedger

LEMMA NoOrderFields ==
  /\ NoOrder \in Orders /\ NoOrder.stage = "none" /\ NoOrder.side = "buy"
  /\ ~NoOrder.holding /\ NoOrder.reason = "entry" /\ NoOrder.gross = 0
BY DEF NoOrder, Orders

LEMMA BuyOrderTyped ==
  ASSUME NEW holding \in BOOLEAN, NEW base \in Nat, NEW id \in Nat
  PROVE  [NoOrder EXCEPT !.stage = "sent", !.holding = holding, !.base = base, !.id = id]
           \in Orders
<1>1. NoOrder \in Orders
  BY NoOrderFields
<1> QED
  BY <1>1 DEF Orders

LEMMA SellOrderTyped ==
  ASSUME NEW holding \in BOOLEAN, NEW base \in Nat, NEW qty \in Nat,
         NEW reason \in Reasons \cup {"entry"}
  PROVE  [NoOrder EXCEPT !.stage = "sent", !.side = "sell", !.holding = holding,
                         !.base = base, !.qty = qty, !.reason = reason] \in Orders
<1>1. NoOrder \in Orders
  BY NoOrderFields
<1> QED
  BY <1>1 DEF Orders

LEMMA StageFields ==
  ASSUME Typed, NEW stage \in {"none", "sent", "filled", "acked"}, NEW gross \in Int
  PROVE  LET n == [order EXCEPT !.stage = stage, !.gross = gross]
             m == [order EXCEPT !.stage = stage]
         IN  /\ n \in Orders /\ n.stage = stage /\ n.side = order.side
             /\ n.holding = order.holding /\ n.base = order.base /\ n.id = order.id
             /\ n.qty = order.qty /\ n.reason = order.reason /\ n.gross = gross
             /\ m \in Orders /\ m.stage = stage /\ m.side = order.side
             /\ m.holding = order.holding /\ m.base = order.base /\ m.id = order.id
             /\ m.qty = order.qty /\ m.reason = order.reason /\ m.gross = order.gross
BY DEF Typed, Orders

\* Amounts and reason are all that matters of what an order leaves.
LEMMA LeavesKept ==
  ASSUME NEW o, NEW n, n.base = o.base, n.qty = o.qty, n.reason = o.reason
  PROVE  (Leaves(n) <=> Leaves(o)) /\ (PartlySold(n) <=> PartlySold(o))
BY DEF Leaves, PartlySold

-----------------------------------------------------------------------------
(* The budget of partial sales                                             *)

LEMMA BudgetTyped ==
  /\ One(TpFree) \in {0, 1} /\ One(SlFree) \in {0, 1}
  /\ One(TpFree)' \in {0, 1} /\ One(SlFree)' \in {0, 1}
  /\ Typed => parts \in Nat /\ missed \in Nat /\ blinded \in Nat
  /\ Typed' => parts' \in Nat /\ missed' \in Nat /\ blinded' \in Nat
BY DEF One, Typed

LEMMA BudgetShrinks ==
  ASSUME Typed, Typed', PartsCounted, parts' = parts, missed <= missed', blinded <= blinded',
         TpFree' => TpFree, SlFree' => SlFree
  PROVE  PartsCounted'
<1>1. One(TpFree)' <= One(TpFree) /\ One(SlFree)' <= One(SlFree)
  BY DEF One
<1> QED
  BY <1>1, BudgetTyped DEF PartsCounted

LEMMA BudgetSlips ==
  ASSUME Typed, Typed', PartsCounted, parts' = parts, missed + 1 <= missed', blinded <= blinded'
  PROVE  PartsCounted'
BY BudgetTyped DEF PartsCounted

LEMMA BudgetResets ==
  ASSUME Typed', parts' = 0
  PROVE  PartsCounted'
BY BudgetTyped DEF PartsCounted

LEMMA BudgetSpent ==
  ASSUME Typed, Typed', PartsCounted, parts' = parts + 1, missed <= missed',
         blinded <= blinded',
         \/ TpFree /\ ~TpFree' /\ (SlFree' => SlFree)
         \/ SlFree /\ ~SlFree' /\ (TpFree' => TpFree)
  PROVE  PartsCounted'
<1>1. One(TpFree)' + One(SlFree)' + 1 <= One(TpFree) + One(SlFree)
  BY DEF One
<1> QED
  BY <1>1, BudgetTyped DEF PartsCounted

-----------------------------------------------------------------------------
(* Steps that leave position, memory and history alone                     *)

LEMMA SamePositionKeeps ==
  ASSUME Inv, Typed', SnapshotRight', LossesKept', OrderFits',
         UNCHANGED <<up, mem, order, held, lots, ledger, fills, parts, missed, blinded, readings>>
  PROVE  Inv'
<1>1. UNCHANGED <<missed, blinded, cut, misread>>
  BY DEF readings
<1>2. BuyFits' /\ SellFits'
  BY DEF Inv, BuyFits, SellFits, PartlySold
<1>3. Sold' /\ HistoryMatches' /\ ClocksMatch'
  <2>1. Sold' /\ HistoryMatches'
    BY <1>1 DEF Inv, Sold, Blank, HistoryMatches, HistoryFit, Pending, Leaves
  <2>2. ClocksMatch'
    BY <1>1 DEF Inv, ClocksMatch, HistoryFit, MemoryFit, Pending, AfterOrder, PartlySold
  <2> QED
    BY <2>1, <2>2
<1>4. MemoryMatches' /\ BoughtWhole'
  BY <1>1 DEF Inv, MemoryMatches, MemoryFit, BoughtWhole, Pending
<1>5. PartsCounted'
  <2>1. (TpFree' => TpFree) /\ (SlFree' => SlFree)
    BY DEF TpFree, SlFree, Pending, PartlySold
  <2>2. missed <= missed' /\ blinded <= blinded'
    BY <1>1 DEF Inv, Typed
  <2> QED
    BY <2>1, <2>2, BudgetShrinks DEF Inv
<1> QED
  BY <1>2, <1>3, <1>4, <1>5 DEF Inv

\* A slip voids what the bot knew; the budget grows by what that may cost.
LEMMA SlipKeeps ==
  ASSUME Inv, Typed', BuyFits', SellFits', missed' = missed + 1, blinded' = blinded,
         order'.stage # "none" => up', order'.stage \in {"none", "sent"} \/ order' = order,
         coming' => streaming', today' = today,
         UNCHANGED <<held, lots, parts, ledger>>
  PROVE  Inv'
<1>1. missed' # 0 /\ missed + 1 <= missed' /\ blinded <= blinded'
  BY DEF Inv, Typed
<1>2. SnapshotRight' /\ OrderFits' /\ LossesKept'
  BY <1>1 DEF Inv, SnapshotRight, OrderFits, LossesKept
<1>3. HistoryMatches' /\ ClocksMatch' /\ MemoryMatches'
  BY <1>1 DEF HistoryMatches, ClocksMatch, MemoryMatches, HistoryFit, MemoryFit
<1>4. Sold' /\ BoughtWhole'
  BY DEF Inv, Sold, Blank, BoughtWhole, Pending
<1>5. PartsCounted'
  BY <1>1, BudgetSlips DEF Inv
<1> QED
  BY <1>2, <1>3, <1>4, <1>5 DEF Inv

LEMMA StreamDeliversKeeps == Inv /\ StreamDelivers => Inv'
<1>1. SUFFICES ASSUME Inv, StreamDelivers PROVE Inv'
  OBVIOUS
<1>2. /\ UNCHANGED <<up, mem, order, held, lots, ledger, fills, parts, missed, blinded, readings>>
      /\ UNCHANGED <<pnl, price, streaming, today, stale, bought>>
      /\ coming' = FALSE /\ view' = held
  BY <1>1 DEF StreamDelivers, bot, exchange, history, observers, bounds
<1>3. Typed'
  BY <1>1, <1>2 DEF Inv, Typed, readings
<1>4. SnapshotRight' /\ LossesKept'
  BY <1>1, <1>2 DEF Inv, SnapshotRight, LossesKept, Unrecorded
<1>5. OrderFits'
  BY <1>1, <1>2 DEF Inv, OrderFits, Pending
<1> QED
  BY <1>1, <1>2, <1>3, <1>4, <1>5, SamePositionKeeps

LEMMA StreamReturnsKeeps == Inv /\ StreamReturns => Inv'
<1>1. SUFFICES ASSUME Inv, StreamReturns PROVE Inv'
  OBVIOUS
<1>2. /\ UNCHANGED <<up, mem, order, held, lots, ledger, fills, parts, missed, blinded, readings>>
      /\ UNCHANGED <<pnl, price, coming, view, today, stale, bought>>
      /\ streaming' = TRUE
  BY <1>1 DEF StreamReturns, bot, exchange, history, observers, bounds
<1>3. Typed'
  BY <1>1, <1>2 DEF Inv, Typed, readings
<1>4. SnapshotRight' /\ LossesKept'
  BY <1>1, <1>2 DEF Inv, SnapshotRight, LossesKept, Unrecorded
<1>5. OrderFits'
  BY <1>1, <1>2 DEF Inv, OrderFits, Pending
<1> QED
  BY <1>1, <1>2, <1>3, <1>4, <1>5, SamePositionKeeps

LEMMA PriceMovesKeeps == Inv /\ PriceMoves => Inv'
<1>1. SUFFICES ASSUME Inv, PriceMoves PROVE Inv'
  OBVIOUS
<1>2. /\ UNCHANGED <<up, mem, order, held, lots, ledger, fills, parts, missed, blinded, readings>>
      /\ UNCHANGED <<pnl, streaming, coming, view, today, stale, bought>>
      /\ price' \in Prices
  BY <1>1 DEF PriceMoves, bot, exchange, stream, history, observers
<1>3. Typed'
  BY <1>1, <1>2 DEF Inv, Typed, readings
<1>4. SnapshotRight' /\ LossesKept'
  BY <1>1, <1>2 DEF Inv, SnapshotRight, LossesKept, Unrecorded
<1>5. OrderFits'
  BY <1>1, <1>2 DEF Inv, OrderFits, Pending
<1> QED
  BY <1>1, <1>2, <1>3, <1>4, <1>5, SamePositionKeeps

LEMMA NewDayKeeps == Inv /\ NewDay => Inv'
<1>1. SUFFICES ASSUME Inv, NewDay PROVE Inv'
  OBVIOUS
<1>2. /\ UNCHANGED <<up, mem, order, held, lots, ledger, fills, parts, missed, blinded, readings>>
      /\ UNCHANGED <<pnl, price, streaming, coming, view, bought>>
      /\ today' = [gross |-> 0, net |-> 0] /\ stale' = TRUE
  BY <1>1 DEF NewDay, bot, exchange, stream, observers, bounds
<1>3. Typed'
  BY <1>1, <1>2 DEF Inv, Typed, readings
<1>4. SnapshotRight' /\ LossesKept'
  BY <1>1, <1>2 DEF Inv, SnapshotRight, LossesKept
<1>5. OrderFits'
  BY <1>1, <1>2 DEF Inv, OrderFits, Pending
<1> QED
  BY <1>1, <1>2, <1>3, <1>4, <1>5, SamePositionKeeps

LEMMA StreamStopsKeeps == Inv /\ StreamStops => Inv'
<1>1. SUFFICES ASSUME Inv, StreamStops PROVE Inv'
  OBVIOUS
<1>2. /\ UNCHANGED <<up, mem, order, held, lots, ledger, fills, parts, blinded, readings>>
      /\ UNCHANGED <<pnl, price, view, today, stale, bought>>
      /\ streaming' = FALSE /\ coming' = FALSE
      /\ missed' = missed + (IF coming THEN 1 ELSE 0)
  BY <1>1 DEF StreamStops, bot, exchange, history
<1>3. Typed'
  <2>1. missed' \in Nat
    BY <1>1, <1>2 DEF Inv, Typed
  <2> QED
    BY <1>1, <1>2, <2>1 DEF Inv, Typed, readings
<1>4. CASE coming
  <2>1. BuyFits' /\ SellFits' /\ (order'.stage # "none" => up')
    BY <1>1, <1>2 DEF Inv, BuyFits, SellFits, PartlySold, OrderFits
  <2> QED
    BY <1>1, <1>2, <1>3, <1>4, <2>1, SlipKeeps
<1>5. CASE ~coming
  <2>1. missed' = missed
    BY <1>1, <1>2, <1>5 DEF Inv, Typed
  <2>2. SnapshotRight' /\ LossesKept'
    BY <1>1, <1>2, <1>5, <2>1 DEF Inv, SnapshotRight, LossesKept, Unrecorded
  <2>3. OrderFits'
    BY <1>1, <1>2, <2>1 DEF Inv, OrderFits, Pending
  <2> QED
    BY <1>1, <1>2, <1>3, <2>1, <2>2, <2>3, SamePositionKeeps
<1> QED
  BY <1>4, <1>5

-----------------------------------------------------------------------------
(* Orders that fail, crashes, restarts and time                            *)

\* Without an order there is nothing an order must fit.
LEMMA NoOrderFits ==
  ASSUME order' = NoOrder
  PROVE  BuyFits' /\ SellFits' /\ OrderFits' /\ BoughtWhole' /\ ~Pending'
BY NoOrderFields DEF BuyFits, SellFits, OrderFits, BoughtWhole, Pending

LEMMA RejectedKeeps == Inv /\ Rejected => Inv'
<1>1. SUFFICES ASSUME Inv, Rejected PROVE Inv'
  OBVIOUS
<1>2. /\ UNCHANGED <<up, mem, held, lots, ledger, fills, parts, missed, blinded, readings>>
      /\ UNCHANGED <<pnl, price, streaming, coming, view, today, stale, bought>>
      /\ order.stage = "sent" /\ order' = NoOrder
  BY <1>1 DEF Rejected, exchange, stream, history, observers
<1>3. Typed'
  BY <1>1, <1>2, NoOrderFields DEF Inv, Typed, readings
<1>4. BuyFits' /\ SellFits' /\ OrderFits' /\ BoughtWhole' /\ ~Pending' /\ ~Pending
  BY <1>2, NoOrderFits DEF Pending
<1>5. SnapshotRight' /\ Sold'
  BY <1>1, <1>2 DEF Inv, SnapshotRight, Sold, Blank
<1>6. HistoryMatches' /\ ClocksMatch'
  BY <1>1, <1>2, <1>4, NoOrderFields
  DEF Inv, HistoryMatches, ClocksMatch, HistoryFit, MemoryFit, readings
<1>7. MemoryMatches' /\ LossesKept'
  BY <1>1, <1>2, <1>4, NoOrderFields
  DEF Inv, MemoryMatches, MemoryFit, readings, LossesKept, Unrecorded
<1>8. PartsCounted'
  <2>1. (TpFree' => TpFree) /\ (SlFree' => SlFree)
    BY <1>2, <1>4 DEF TpFree, SlFree
  <2> QED
    BY <1>1, <1>2, <1>3, <2>1, BudgetShrinks DEF Inv, Typed
<1> QED
  BY <1>3, <1>4, <1>5, <1>6, <1>7, <1>8 DEF Inv

LEMMA ResponseLostKeeps == Inv /\ ResponseLost => Inv'
<1>1. SUFFICES ASSUME Inv, ResponseLost PROVE Inv'
  OBVIOUS
<1>2. /\ UNCHANGED <<up, mem, held, lots, ledger, fills, parts, blinded, readings>>
      /\ UNCHANGED <<pnl, price, streaming, coming, view, today, stale, bought>>
      /\ order.stage = "filled" /\ missed' = missed + 1
      /\ order' = [order EXCEPT !.stage = "sent"] \/ order' = NoOrder
  BY <1>1 DEF ResponseLost, exchange, stream, history
<1>3. CASE order' = NoOrder
  <2>1. Typed'
    BY <1>1, <1>2, <1>3, NoOrderFields DEF Inv, Typed, readings
  <2>2. BuyFits' /\ SellFits' /\ order'.stage = "none" /\ (coming' => streaming')
    BY <1>1, <1>2, <1>3, NoOrderFits, NoOrderFields DEF Inv, SnapshotRight
  <2> QED
    BY <1>1, <1>2, <2>1, <2>2, SlipKeeps
<1>4. CASE order' = [order EXCEPT !.stage = "sent"]
  <2>1. /\ order' \in Orders /\ order'.stage = "sent" /\ order'.side = order.side
        /\ order'.holding = order.holding /\ order'.base = order.base /\ order'.id = order.id
        /\ order'.qty = order.qty /\ order'.reason = order.reason /\ order'.gross = order.gross
    <3>1. order \in Orders
      BY <1>1 DEF Inv, Typed
    <3> QED
      BY <1>4, <3>1 DEF Orders
  <2>2. Typed'
    BY <1>1, <1>2, <2>1 DEF Inv, Typed, readings
  <2>3. BuyFits' /\ SellFits'
    BY <1>1, <1>2, <2>1 DEF Inv, BuyFits, SellFits
  <2>4. up' /\ (coming' => streaming')
    BY <1>1, <1>2 DEF Inv, OrderFits, SnapshotRight
  <2> QED
    BY <1>1, <1>2, <2>1, <2>2, <2>3, <2>4, SlipKeeps
<1> QED
  BY <1>2, <1>3, <1>4

LEMMA BookkeepingFailsKeeps == Inv /\ BookkeepingFails => Inv'
<1>1. SUFFICES ASSUME Inv, BookkeepingFails PROVE Inv'
  OBVIOUS
<1>2. /\ UNCHANGED <<up, mem, held, lots, ledger, fills, parts, blinded, readings>>
      /\ UNCHANGED <<pnl, price, streaming, coming, view, today, stale, bought>>
      /\ missed' = missed + 1 /\ order' = NoOrder
  BY <1>1 DEF BookkeepingFails, exchange, stream, history
<1>3. Typed'
  BY <1>1, <1>2, NoOrderFields DEF Inv, Typed, readings
<1>4. BuyFits' /\ SellFits' /\ order'.stage = "none" /\ (coming' => streaming')
  BY <1>1, <1>2, NoOrderFits, NoOrderFields DEF Inv, SnapshotRight
<1> QED
  BY <1>1, <1>2, <1>3, <1>4, SlipKeeps

LEMMA CrashKeeps == Inv /\ Crash => Inv'
<1>1. SUFFICES ASSUME Inv, Crash PROVE Inv'
  OBVIOUS
<1>2. /\ UNCHANGED <<held, lots, ledger, fills, parts, blinded, readings>>
      /\ UNCHANGED <<price, streaming, coming, view, today, stale, bought>>
      /\ up' = FALSE /\ mem' = BlankMemory /\ pnl' = 0 /\ order' = NoOrder
      /\ missed' = missed + (IF Pending THEN 1 ELSE 0)
  BY <1>1 DEF Crash, Pending, exchange, stream, history
<1>3. Typed'
  <2>1. missed' \in Nat
    BY <1>1, <1>2 DEF Inv, Typed
  <2> QED
    <3>1. IsMemory(mem') /\ order' \in Orders /\ pnl' = 0 /\ up' \in BOOLEAN
      BY <1>2, NoOrderFields, BlankFields, Zenon
    <3> QED
      BY <1>1, <1>2, <2>1, <3>1 DEF Inv, Typed, readings
<1>4. /\ BuyFits' /\ SellFits' /\ OrderFits' /\ BoughtWhole' /\ ~Pending'
      /\ order'.stage = "none" /\ (coming' => streaming')
  BY <1>1, <1>2, NoOrderFits, NoOrderFields DEF Inv, SnapshotRight
<1>5. CASE Pending
  BY <1>1, <1>2, <1>3, <1>4, <1>5, SlipKeeps
<1>6. CASE ~Pending
  <2>1. missed' = missed
    BY <1>1, <1>2, <1>6 DEF Inv, Typed
  <2>2. SnapshotRight' /\ Sold'
    BY <1>1, <1>2, <2>1 DEF Inv, SnapshotRight, Sold, Blank
  <2>3. HistoryMatches' /\ ClocksMatch'
    BY <1>1, <1>2, <1>4, <1>6, <2>1
    DEF Inv, HistoryMatches, ClocksMatch, HistoryFit, MemoryFit, readings
  <2>4. MemoryMatches' /\ LossesKept'
    BY <1>1, <1>2 DEF Inv, MemoryMatches, LossesKept
  <2>5. PartsCounted'
    <3>1. (TpFree' => TpFree) /\ (SlFree' => SlFree)
      BY <1>2, <1>4, <1>6 DEF TpFree, SlFree
    <3> QED
      BY <1>1, <1>2, <1>3, <2>1, <3>1, BudgetShrinks DEF Inv, Typed
  <2> QED
    BY <1>3, <1>4, <2>2, <2>3, <2>4, <2>5 DEF Inv
<1> QED
  BY <1>5, <1>6

LEMMA StartKeeps == Inv /\ Start => Inv'
<1>1. SUFFICES ASSUME Inv, Start PROVE Inv'
  OBVIOUS
<1>2. /\ UNCHANGED <<order, held, lots, ledger, fills, parts, missed, blinded, cut>>
      /\ UNCHANGED <<price, streaming, coming, view, today, bought>>
      /\ ~up /\ up' = TRUE /\ mem' = RecoveredMemory(ledger)
      /\ pnl' = today.net /\ stale' = FALSE /\ misread' = (misread \/ cut)
  BY <1>1 DEF Start, exchange, stream, history, bounds
<1>3. order.stage = "none" /\ ~Pending /\ ~Pending' /\ order'.stage = "none"
  BY <1>1, <1>2 DEF Inv, OrderFits, Pending
<1>4. /\ IsMemory(mem') /\ mem'.price = (IF ledger.left > 0 THEN ledger.lots ELSE {})
      /\ mem'.tpDone = ledger.tpDone /\ mem'.slDone = ledger.slDone
      /\ mem'.clocks = ledger.clocks
  BY <1>1, <1>2, RecoveredFields DEF Inv, Typed
<1>5. Typed'
  <2>1. misread' \in BOOLEAN
    BY <1>1, <1>2, Zenon DEF Inv, Typed
  <2> QED
    BY <1>1, <1>2, <1>4, <2>1 DEF Inv, Typed
<1>6. SnapshotRight' /\ BuyFits' /\ SellFits' /\ BoughtWhole'
  BY <1>1, <1>2, <1>3 DEF Inv, SnapshotRight, BuyFits, SellFits, BoughtWhole
<1>7. OrderFits' /\ Sold'
  BY <1>1, <1>2, <1>3 DEF Inv, OrderFits, Sold, Blank
<1>8. HistoryMatches' /\ ClocksMatch'
  <2>1. (HistoryFit' => HistoryFit) /\ (MemoryFit' => HistoryFit)
    BY <1>2, Zenon DEF HistoryFit, MemoryFit
  <2> QED
    BY <1>1, <1>2, <1>3, <1>4, <2>1 DEF Inv, HistoryMatches, ClocksMatch
<1>9. MemoryMatches' /\ LossesKept'
  <2>1. MemoryMatches'
    <3>1. MemoryFit' => HistoryFit
      BY <1>2, Zenon DEF HistoryFit, MemoryFit
    <3>2. HistoryFit /\ held > 0 => held <= ledger.left /\ ledger.lots = lots
      BY <1>1, <1>3 DEF Inv, HistoryMatches
    <3>3. HistoryFit /\ held > 0 => mem'.price = lots
      BY <1>1, <1>4, <3>2 DEF Inv, Typed, IsLedger
    <3> QED
      BY <1>2, <1>3, <3>1, <3>3 DEF MemoryMatches
  <2>2. LossesKept'
    BY <1>1, <1>2, <1>3 DEF Inv, Typed, LossesKept, Unrecorded
  <2> QED
    BY <2>1, <2>2
<1>10. PartsCounted'
  <2>1. (TpFree' => TpFree) /\ (SlFree' => SlFree)
    BY <1>2, <1>3, <1>4 DEF TpFree, SlFree
  <2> QED
    BY <1>1, <1>2, <1>5, <2>1, BudgetShrinks DEF Inv, Typed
<1> QED
  BY <1>5, <1>6, <1>7, <1>8, <1>9, <1>10 DEF Inv

LEMMA TickKeeps == Inv /\ Tick => Inv'
<1>1. SUFFICES ASSUME Inv, Tick PROVE Inv'
  OBVIOUS
<1>2. /\ UNCHANGED <<up, order, held, lots, parts, missed, blinded, readings>>
      /\ UNCHANGED <<pnl, price, streaming, coming, view, today, stale, bought>>
      /\ order.stage = "none" /\ fills' = OlderClocks(fills)
      /\ mem' = (IF up THEN [mem EXCEPT !.clocks = OlderClocks(@)] ELSE mem)
      /\ ledger' = [ledger EXCEPT !.clocks = OlderClocks(@)]
  BY <1>1 DEF Tick, exchange, stream, bounds
<1>3. /\ IsMemory(mem') /\ mem'.price = mem.price /\ mem'.tpDone = mem.tpDone
      /\ mem'.slDone = mem.slDone /\ (up => mem'.clocks = OlderClocks(mem.clocks))
  BY <1>1, <1>2, AgedFields DEF Inv, Typed
<1>4. /\ IsLedger(ledger') /\ ledger'.left = ledger.left /\ ledger'.lots = ledger.lots
      /\ ledger'.tpDone = ledger.tpDone /\ ledger'.slDone = ledger.slDone
      /\ ledger'.clocks = OlderClocks(ledger.clocks)
  BY <1>1, <1>2, AgedLedgerFields DEF Inv, Typed
<1>5. fills' \in Clocks
  BY <1>1, <1>2, ClocksTyped DEF Inv, Typed
<1>6. ~Pending /\ ~Pending' /\ order'.stage = "none"
  BY <1>2 DEF Pending
<1>7. Typed'
  BY <1>1, <1>2, <1>3, <1>4, <1>5 DEF Inv, Typed, readings
<1>8. SnapshotRight' /\ BuyFits' /\ SellFits' /\ BoughtWhole'
  BY <1>1, <1>2, <1>6 DEF Inv, SnapshotRight, BuyFits, SellFits, BoughtWhole
<1>9. OrderFits' /\ Sold'
  BY <1>1, <1>2, <1>4, <1>6 DEF Inv, OrderFits, Sold, Blank
<1>10. HistoryMatches' /\ MemoryMatches'
  BY <1>1, <1>2, <1>3, <1>4, <1>6
  DEF Inv, HistoryMatches, MemoryMatches, HistoryFit, MemoryFit, readings
<1>11. ClocksMatch' /\ LossesKept'
  <2>1. (HistoryFit => fills = ledger.clocks) /\ (MemoryFit /\ up => fills = mem.clocks)
    BY <1>1, <1>2, <1>6 DEF Inv, ClocksMatch
  <2>2. (HistoryFit' => HistoryFit) /\ (MemoryFit' => MemoryFit)
    BY <1>2 DEF HistoryFit, MemoryFit, readings
  <2>3. ClocksMatch'
    BY <1>2, <1>3, <1>4, <1>6, <2>1, <2>2 DEF ClocksMatch
  <2> QED
    BY <1>1, <1>2, <2>3 DEF Inv, LossesKept, Unrecorded
<1>12. PartsCounted'
  <2>1. (TpFree' => TpFree) /\ (SlFree' => SlFree)
    BY <1>2, <1>3, <1>4, <1>6 DEF TpFree, SlFree
  <2> QED
    BY <1>1, <1>2, <1>7, <2>1, BudgetShrinks DEF Inv, Typed
<1> QED
  BY <1>7, <1>8, <1>9, <1>10, <1>11, <1>12 DEF Inv

-----------------------------------------------------------------------------
(* Fills, from the exchange to the trade history                           *)

LEMMA PartialIsEither ==
  ASSUME NEW reason, reason \in PartialReasons
  PROVE  Takes(reason) \/ Cuts(reason)
BY DEF PartialReasons, Takes, Cuts

LEMMA ExchangeFillsKeeps == Inv /\ ExchangeFills => Inv'
<1>1. SUFFICES ASSUME Inv, ExchangeFills PROVE Inv'
  OBVIOUS
<1>2. /\ UNCHANGED <<up, mem, pnl, price, streaming, view, ledger, today, stale, blinded,
                     bought>>
      /\ order.stage = "sent" /\ order' = [order EXCEPT !.stage = "filled"]
      /\ coming' = streaming
      /\ missed' = missed + (IF ~streaming /\ view # Unknown THEN 1 ELSE 0)
  BY <1>1 DEF ExchangeFills, Report, history, bounds
<1>3. Typed /\ up
  BY <1>1, <1>2 DEF Inv, OrderFits
<1>4. missed' \in Nat /\ missed <= missed' /\ (missed' = 0 => missed = 0)
  BY <1>2, <1>3 DEF Typed
<1>5. /\ order' \in Orders /\ order'.stage = "filled" /\ order'.side = order.side
      /\ order'.holding = order.holding /\ order'.base = order.base /\ order'.id = order.id
      /\ order'.qty = order.qty /\ order'.reason = order.reason /\ order'.gross = order.gross
  <2>1. order \in Orders
    BY <1>3 DEF Typed
  <2> QED
    BY <1>2, <2>1 DEF Orders
<1>6. ~Pending /\ Pending'
  BY <1>2, <1>5 DEF Pending
<1>7. SnapshotRight'
  BY <1>1, <1>2, <1>3 DEF SnapshotRight, Typed
<1>8. BuyFits' /\ SellFits'
  BY <1>1, <1>2, <1>5 DEF Inv, BuyFits, SellFits
<1>9. /\ HistoryFit' => HistoryFit /\ cut' = FALSE
      /\ MemoryFit' => MemoryFit /\ misread' = FALSE
  <2>1. (cut => cut') /\ (misread => misread') /\ cut' \in BOOLEAN /\ misread' \in BOOLEAN
    BY <1>1, <1>3 DEF ExchangeFills, ExecuteBuy, ExecuteSell, readings, Typed
  <2> QED
    BY <1>4, <2>1, Zenon DEF HistoryFit, MemoryFit
<1>10. LossesKept'
  BY <1>1, <1>2, <1>4, <1>5 DEF Inv, LossesKept, Unrecorded
<1>11. /\ missed = 0 => order.base = held
       /\ HistoryFit => /\ order.base = held /\ held <= ledger.left
                        /\ (held = 0 => ledger.left = 0) /\ (held > 0 => ledger.lots = lots)
                        /\ fills = ledger.clocks
       /\ MemoryFit => fills = mem.clocks
  BY <1>1, <1>2, <1>3, <1>6
  DEF Inv, OrderFits, HistoryMatches, ClocksMatch, HistoryFit
<1>12. CASE order.side = "buy"
  <2>1. ExecuteBuy
    BY <1>1, <1>12 DEF ExchangeFills
  <2>2. PICK q \in BuyFills : held' = held + q
    BY <2>1 DEF ExecuteBuy
  <2>3. /\ q \in Nat /\ q > 0 /\ q <= BuyAmount /\ held \in Nat /\ BuyAmount \in Nat
        /\ held' \in Nat /\ held' > 0 /\ held' <= held + BuyAmount
    <3>1. q \in 1..BuyAmount /\ BuyAmount \in Nat
      BY BoundsTyped
    <3> QED
      BY <1>3, <2>2, <3>1 DEF Typed
  <2>4. /\ lots' = lots \cup {order.id} /\ fills' = TradeClocks(fills) /\ parts' = 0
        /\ UNCHANGED <<cut, misread>>
    BY <2>1 DEF ExecuteBuy, readings
  <2>5. order.id \in Nat /\ fills' \in Clocks
    BY <1>3, <2>4, ClocksTyped DEF Typed, Orders
  <2>6. Typed'
    BY <1>2, <1>3, <1>4, <1>5, <2>3, <2>4, <2>5 DEF Typed
  <2>7. OrderFits' /\ Sold' /\ BoughtWhole'
    <3>1. OrderFits'
      BY <1>2, <1>3, <1>5, <1>12, <2>3 DEF OrderFits
    <3>2. Sold'
      BY <1>1, <1>2, <2>3, <2>4 DEF Inv, Sold, Blank
    <3> QED
      BY <2>4, <3>1, <3>2 DEF BoughtWhole
  <2>8. HistoryMatches'
    <3>1. HistoryFit => lots = ledger.lots
      <4>1. held = 0 => lots = {}
        BY <1>1 DEF Inv, Sold
      <4>2. ledger.left = 0 => ledger.lots = {}
        BY <1>1 DEF Inv, Sold, Blank
      <4> QED
        BY <1>11, <2>3, <4>1, <4>2
    <3>2. ledger.left \in Nat
      BY <1>3 DEF Typed, IsLedger
    <3>3. HistoryFit => lots' = ledger.lots \cup {order.id} /\ held' <= ledger.left + BuyAmount
      BY <1>11, <2>3, <2>4, <3>1, <3>2
    <3> QED
      BY <1>2, <1>5, <1>6, <1>9, <1>12, <3>3 DEF HistoryMatches
  <2>9. ClocksMatch'
    BY <1>2, <1>5, <1>6, <1>9, <1>11, <1>12, <2>4 DEF ClocksMatch, AfterOrder
  <2>10. MemoryMatches'
    <3>1. MemoryFit /\ blinded = 0 => lots = {}
      BY <1>1, <1>2, <1>3, <1>12 DEF Inv, MemoryMatches, Sold
    <3> QED
      BY <1>2, <1>5, <1>6, <1>9, <1>12, <2>4, <3>1 DEF MemoryMatches
  <2>11. PartsCounted'
    BY <2>4, <2>6, BudgetResets
  <2> QED
    BY <1>7, <1>8, <1>10, <2>6, <2>7, <2>8, <2>9, <2>10, <2>11 DEF Inv
<1>13. CASE order.side = "sell"
  <2>1. ExecuteSell
    BY <1>1, <1>13 DEF ExchangeFills
  <2>2. /\ order.qty > 0 /\ order.qty <= order.base /\ mem.price # {}
        /\ Takes(order.reason) => ~mem.tpDone
        /\ Cuts(order.reason) => ~mem.slDone
    BY <1>1, <1>2, <1>13 DEF Inv, SellFits
  <2>3. /\ order.qty \in Nat /\ order.base \in Nat /\ held \in Nat /\ order.qty <= held
        /\ held' = held - order.qty /\ held' \in Nat /\ held > 0
    BY <1>3, <2>1, <2>2 DEF ExecuteSell, Covered, Typed, Orders
  <2>4. /\ lots' = (IF held' = 0 THEN {} ELSE lots)
        /\ parts' = (IF held' = 0 THEN 0 ELSE IF PartlySold(order) THEN parts + 1 ELSE parts)
        /\ cut' = (cut \/ ~LeavesAsTold(order, held'))
        /\ misread' = (misread \/ (held' > 0 /\ Cleared(order.base, order.qty)))
    BY <2>1 DEF ExecuteSell
  <2>5. fills' = SellClocks(fills, order.reason, PartlySold(order) /\ Takes(order.reason))
    BY <2>1 DEF ExecuteSell, Takes
  <2>6. fills' \in Clocks /\ lots' \in SUBSET Nat /\ parts' \in Nat
        /\ cut' \in BOOLEAN /\ misread' \in BOOLEAN
    <3>1. fills' \in Clocks
      BY <1>3, <2>5, ClocksTyped DEF Typed, SellClocks
    <3>2. cut' \in BOOLEAN /\ misread' \in BOOLEAN
      BY <1>3, <2>4, Zenon DEF Typed
    <3> QED
      BY <1>3, <2>4, <3>1, <3>2 DEF Typed
  <2>7. Typed'
    BY <1>2, <1>3, <1>4, <1>5, <2>3, <2>6 DEF Typed
  <2>8. OrderFits'
    BY <1>2, <1>3, <1>4, <1>5, <1>11, <1>13, <2>3 DEF OrderFits
  <2>9. Sold' /\ BoughtWhole'
    BY <1>1, <1>2, <1>5, <1>13, <2>3, <2>4 DEF Inv, Sold, Blank, BoughtWhole
  <2>10. HistoryMatches'
    <3>1. HistoryFit' => LeavesAsTold(order, held')
      BY <1>9, <2>4, Zenon
    <3>2. HistoryFit' => Leaves(order)
      BY <1>9, <1>11, <2>2, <2>3, <3>1, ThresholdTyped
      DEF LeavesAsTold, Leaves, Cleared, Remaining
    <3>3. HistoryFit' => Leaves(order')
      BY <1>5, <3>2, LeavesKept
    <3>4. HistoryFit => order.base <= ledger.left /\ (held' > 0 => lots' = ledger.lots)
      BY <1>11, <2>3, <2>4
    <3> QED
      BY <1>2, <1>5, <1>6, <1>9, <1>13, <3>3, <3>4 DEF HistoryMatches
  <2>11. ClocksMatch'
    <3>1. PartlySold(order') <=> PartlySold(order)
      BY <1>5, LeavesKept
    <3>2. fills' = SellClocks(fills, order'.reason, PartlySold(order') /\ Takes(order'.reason))
      BY <1>5, <2>5, <3>1 DEF SellClocks
    <3>3. \A c : AfterOrder(c)' = SellClocks(c', order'.reason,
                                             PartlySold(order') /\ Takes(order'.reason))
      BY <1>5, <1>13 DEF AfterOrder, PartlySold
    <3>4. /\ HistoryFit' => fills' = AfterOrder(ledger.clocks)'
          /\ MemoryFit' => fills' = AfterOrder(mem.clocks)'
      BY <1>2, <1>5, <1>9, <1>11, <1>13, <3>2 DEF AfterOrder, PartlySold
    <3> QED
      BY <1>2, <1>5, <1>6, <3>4 DEF ClocksMatch
  <2>12. MemoryMatches'
    <3>1. MemoryFit /\ blinded = 0 => mem.price = lots
      BY <1>1, <1>3, <1>6, <2>3 DEF Inv, MemoryMatches
    <3>2. misread' = FALSE /\ held' > 0 => ~Cleared(order.base, order.qty)'
      BY <1>5, <2>4 DEF Cleared, Remaining
    <3> QED
      BY <1>2, <1>5, <1>9, <1>13, <2>4, <3>1, <3>2 DEF MemoryMatches
  <2>13. PartsCounted'
    <3>1. (SlFree' => SlFree) /\ (TpFree' => TpFree)
      BY <1>2, <1>6 DEF SlFree, TpFree
    <3>2. CASE held' = 0
      BY <2>4, <2>7, <3>2, BudgetResets
    <3>3. CASE held' # 0 /\ PartlySold(order)
      <4>1. parts' = parts + 1 /\ blinded <= blinded'
        BY <1>2, <1>3, <2>4, <3>3 DEF Typed
      <4>2. PartlySold(order')
        BY <1>5, <3>3, LeavesKept
      <4>3. Takes(order.reason) => TpFree /\ ~TpFree'
        BY <1>3, <1>5, <1>6, <2>2, <4>2 DEF TpFree
      <4>4. Cuts(order.reason) => SlFree /\ ~SlFree'
        BY <1>3, <1>5, <1>6, <2>2, <4>2 DEF SlFree
      <4>5. Takes(order.reason) \/ Cuts(order.reason)
        BY <3>3, PartialIsEither DEF PartlySold
      <4> QED
        BY <1>1, <1>3, <1>4, <2>7, <3>1, <4>1, <4>3, <4>4, <4>5, BudgetSpent DEF Inv
    <3>4. CASE held' # 0 /\ ~PartlySold(order)
      <4>1. parts' = parts /\ blinded <= blinded'
        BY <1>2, <1>3, <2>4, <3>4 DEF Typed
      <4> QED
        BY <1>1, <1>3, <1>4, <2>7, <3>1, <4>1, BudgetShrinks DEF Inv
    <3> QED
      BY <3>2, <3>3, <3>4
  <2> QED
    BY <1>7, <1>8, <1>10, <2>7, <2>8, <2>9, <2>10, <2>11, <2>12, <2>13 DEF Inv
<1> QED
  BY <1>3, <1>12, <1>13 DEF Typed, Orders

LEMMA AcknowledgedKeeps == Inv /\ Acknowledged => Inv'
<1>1. SUFFICES ASSUME Inv, Acknowledged PROVE Inv'
  OBVIOUS
<1>2. PICK gross \in Gross : /\ order' = [order EXCEPT !.stage = "acked", !.gross = gross]
                             /\ pnl' = pnl + gross
  BY <1>1 DEF Acknowledged
<1>3. /\ UNCHANGED <<up, held, lots, price, streaming, coming, view, ledger, today, stale,
                     fills, parts, missed, blinded, cut, misread, bought>>
      /\ order.stage = "filled"
      /\ mem' = (IF order.side = "buy" THEN ApplyBuyFill(mem, order.id, order.holding)
                 ELSE ApplySellFill(mem, order.base, order.qty, order.reason))
  BY <1>1 DEF Acknowledged, exchange, stream, history, observers, readings, bounds
<1>4. Typed /\ up /\ gross \in Int /\ (order.side = "buy" => gross = 0)
  <2>1. gross \in Int /\ (order.side = "buy" => gross = 0)
    <3>1. CASE order.side = "buy"
      BY <3>1 DEF Gross
    <3>2. CASE order.side # "buy"
      BY <3>2, BoundsTyped DEF Gross
    <3> QED
      BY <3>1, <3>2
  <2> QED
    BY <1>1, <1>3, <2>1 DEF Inv, OrderFits
<1>5. /\ order' \in Orders /\ order'.stage = "acked" /\ order'.side = order.side
      /\ order'.holding = order.holding /\ order'.base = order.base /\ order'.id = order.id
      /\ order'.qty = order.qty /\ order'.reason = order.reason /\ order'.gross = gross
  <2>1. order \in Orders
    BY <1>4 DEF Typed
  <2> QED
    BY <1>2, <1>4, <2>1 DEF Orders
<1>6. Pending /\ Pending' /\ pnl' \in Int
  BY <1>2, <1>3, <1>4, <1>5 DEF Pending, Typed
<1>7. SnapshotRight' /\ Sold' /\ BuyFits' /\ BoughtWhole'
  <2>1. SnapshotRight' /\ Sold'
    BY <1>1, <1>3 DEF Inv, SnapshotRight, Sold, Blank
  <2> QED
    BY <1>1, <1>3, <1>4, <1>5, <1>6, <2>1 DEF Inv, BuyFits, BoughtWhole
<1>8. OrderFits' /\ HistoryMatches'
  <2>1. OrderFits'
    BY <1>1, <1>3, <1>4, <1>5, <1>6 DEF Inv, OrderFits
  <2>2. Leaves(order') <=> Leaves(order)
    BY <1>5, LeavesKept
  <2> QED
    BY <1>1, <1>3, <1>5, <1>6, <2>1, <2>2 DEF Inv, HistoryMatches, HistoryFit
<1>9. LossesKept'
  BY <1>1, <1>2, <1>3, <1>4, <1>5 DEF Inv, Typed, LossesKept, Unrecorded
<1>10. /\ HistoryFit => fills = AfterOrder(ledger.clocks)
       /\ MemoryFit => fills = AfterOrder(mem.clocks)
       /\ (HistoryFit' <=> HistoryFit) /\ (MemoryFit' <=> MemoryFit)
  BY <1>1, <1>3, <1>4, <1>6 DEF Inv, ClocksMatch, HistoryFit, MemoryFit
<1>11. CASE order.side = "buy"
  <2>1. ~order.holding /\ order.id \in Nat /\ order.holding \in BOOLEAN
    BY <1>1, <1>4, <1>11 DEF Inv, BuyFits, Typed, Orders
  <2>2. mem' = ApplyBuyFill(mem, order.id, FALSE)
    BY <1>3, <1>11, <2>1 DEF ApplyBuyFill
  <2>3. IsMemory(mem') /\ mem'.price = {order.id} /\ mem'.clocks = TradeClocks(mem.clocks)
    BY <1>4, <2>1, <2>2, BuyFields DEF Typed
  <2>4. Typed'
    BY <1>3, <1>4, <1>5, <1>6, <2>3 DEF Typed
  <2>5. SellFits'
    BY <1>5, <1>11 DEF SellFits
  <2>6. ClocksMatch'
    <3>1. AfterOrder(ledger.clocks)' = TradeClocks(ledger.clocks)
      BY <1>3, <1>5, <1>11 DEF AfterOrder
    <3>2. /\ AfterOrder(ledger.clocks) = TradeClocks(ledger.clocks)
          /\ AfterOrder(mem.clocks) = TradeClocks(mem.clocks)
      BY <1>11 DEF AfterOrder
    <3> QED
      BY <1>3, <1>5, <1>6, <1>10, <2>3, <3>1, <3>2 DEF ClocksMatch
  <2>7. MemoryMatches'
    BY <1>1, <1>3, <1>4, <1>5, <1>6, <1>10, <1>11, <2>3 DEF Inv, MemoryMatches
  <2>8. PartsCounted'
    <3>1. parts' = 0
      BY <1>1, <1>3, <1>6, <1>11 DEF Inv, BoughtWhole
    <3> QED
      BY <2>4, <3>1, BudgetResets
  <2> QED
    BY <1>7, <1>8, <1>9, <2>4, <2>5, <2>6, <2>7, <2>8 DEF Inv
<1>12. CASE order.side = "sell"
  <2>1. order.qty > 0 /\ order.qty <= order.base /\ mem.price # {}
    BY <1>1, <1>3, <1>12 DEF Inv, SellFits
  <2>2. mem' = ApplySellFill(mem, order.base, order.qty, order.reason)
    BY <1>3, <1>12
  <2>3. /\ IsMemory(mem') /\ mem'.price = mem.price
        /\ mem'.tpDone <=> mem.tpDone \/ (PartlySold(order) /\ Takes(order.reason))
        /\ mem'.slDone <=> mem.slDone \/ (PartlySold(order) /\ Cuts(order.reason))
        /\ mem'.clocks = SellClocks(mem.clocks, order.reason,
                                    PartlySold(order) /\ Takes(order.reason))
    <3>1. IsMemory(mem)
      BY <1>4 DEF Typed
    <3> QED
      BY <2>2, <3>1, SaleFields, Zenon
  <2>4. Typed'
    BY <1>3, <1>4, <1>5, <1>6, <2>3 DEF Typed
  <2>5. PartlySold(order') <=> PartlySold(order)
    BY <1>5, LeavesKept
  <2>6. SellFits' /\ ClocksMatch'
    <3>1. SellFits'
      BY <1>5, <2>1, <2>3, <2>5 DEF SellFits
    <3>2. \A c : AfterOrder(c) = SellClocks(c, order.reason,
                                            PartlySold(order) /\ Takes(order.reason))
      BY <1>12 DEF AfterOrder
    <3>3. AfterOrder(ledger.clocks)' = SellClocks(ledger.clocks, order.reason,
                                                  PartlySold(order) /\ Takes(order.reason))
      BY <1>3, <1>5, <1>12, <2>5 DEF AfterOrder, SellClocks
    <3>4. /\ HistoryFit' => fills' = AfterOrder(ledger.clocks)'
          /\ MemoryFit' => fills' = mem'.clocks
      BY <1>3, <1>10, <2>3, <3>2, <3>3
    <3> QED
      BY <1>5, <1>6, <3>1, <3>4 DEF ClocksMatch
  <2>7. MemoryMatches'
    <3>1. Cleared(order.base, order.qty)' <=> Cleared(order.base, order.qty)
      BY <1>5 DEF Cleared, Remaining
    <3> QED
      BY <1>1, <1>3, <1>4, <1>5, <1>6, <1>10, <1>12, <2>3, <3>1 DEF Inv, MemoryMatches
  <2>8. PartsCounted'
    <3>1. TpFree' => TpFree
      BY <1>3, <1>5, <1>6, <2>3, <2>5 DEF TpFree
    <3>2. SlFree' => SlFree
      BY <1>3, <1>5, <1>6, <2>3, <2>5 DEF SlFree
    <3> QED
      BY <1>1, <1>3, <1>4, <2>4, <3>1, <3>2, BudgetShrinks DEF Inv, Typed
  <2> QED
    BY <1>7, <1>8, <1>9, <2>4, <2>6, <2>7, <2>8 DEF Inv
<1> QED
  BY <1>4, <1>11, <1>12 DEF Typed, Orders

LEMMA RecordBuyKeeps == Inv /\ Record /\ order.side = "buy" => Inv'
<1>1. SUFFICES ASSUME Inv, Record, order.side = "buy" PROVE Inv'
  OBVIOUS
<1>2. /\ UNCHANGED <<up, mem, pnl, held, lots, price, streaming, coming, view, today, stale,
                     fills, parts, missed, blinded, cut, misread, bought>>
      /\ order.stage = "acked" /\ order' = NoOrder
      /\ ledger' = ReplayBuy(ledger, order.id, BuyAmount)
  BY <1>1 DEF Record, exchange, stream, observers, readings
<1>3. Typed /\ up /\ Pending /\ parts = 0 /\ order.gross = 0
  BY <1>1, <1>2 DEF Inv, OrderFits, Pending, BoughtWhole, BuyFits
<1>4. /\ IsLedger(ledger) /\ order.id \in Nat /\ BuyAmount \in Nat /\ BuyAmount > 0
      /\ ledger.left \in Nat /\ (ledger.left = 0 => Blank(ledger))
  BY <1>1, <1>3, BoundsTyped DEF Inv, Typed, Orders, Sold, IsLedger
<1>5. /\ IsLedger(ledger') /\ ledger'.left = ledger.left + BuyAmount
      /\ ledger'.lots = ledger.lots \cup {order.id}
      /\ ledger'.clocks = TradeClocks(ledger.clocks)
  BY <1>2, <1>4, ReplayBuyFields
<1>6. ledger'.left > 0
  BY <1>4, <1>5
<1>7. Typed'
  BY <1>2, <1>3, <1>5, NoOrderFields DEF Typed
<1>8. BuyFits' /\ SellFits' /\ OrderFits' /\ BoughtWhole' /\ ~Pending' /\ order'.stage = "none"
  BY <1>2, NoOrderFits, NoOrderFields
<1>9. SnapshotRight' /\ Sold'
  BY <1>1, <1>2, <1>5, <1>6 DEF Inv, SnapshotRight, Sold
<1>10. HistoryMatches'
  <2>1. HistoryFit => /\ held > 0 /\ held <= ledger.left + BuyAmount
                      /\ lots = ledger.lots \cup {order.id}
    BY <1>1, <1>3 DEF Inv, OrderFits, HistoryMatches, HistoryFit
  <2>2. held \in Nat
    BY <1>3 DEF Typed
  <2> QED
    BY <1>2, <1>5, <1>8, <2>1, <2>2 DEF HistoryMatches, HistoryFit
<1>11. ClocksMatch'
  BY <1>1, <1>2, <1>3, <1>5, <1>8 DEF Inv, ClocksMatch, AfterOrder, HistoryFit, MemoryFit
<1>12. MemoryMatches'
  <2>1. MemoryFit /\ blinded = 0 => mem.price = lots
    BY <1>1, <1>2, <1>3 DEF Inv, MemoryMatches
  <2> QED
    BY <1>2, <1>8, <2>1 DEF MemoryMatches, MemoryFit
<1>13. LossesKept'
  BY <1>1, <1>2, <1>3, <1>8 DEF Inv, Typed, LossesKept, Unrecorded
<1>14. PartsCounted'
  BY <1>2, <1>3, <1>7, BudgetResets
<1> QED
  BY <1>7, <1>8, <1>9, <1>10, <1>11, <1>12, <1>13, <1>14 DEF Inv

LEMMA RecordSaleKeeps == Inv /\ Record /\ order.side = "sell" => Inv'
<1>1. SUFFICES ASSUME Inv, Record, order.side = "sell" PROVE Inv'
  OBVIOUS
<1> DEFINE rec == SellRecord(order)
<1>2. /\ UNCHANGED <<up, pnl, held, lots, price, streaming, coming, view, stale,
                     fills, parts, missed, blinded, cut, misread, bought>>
      /\ order.stage = "acked" /\ order' = NoOrder
      /\ ledger' = ReplaySell(ledger, rec)
      /\ today' = [gross |-> today.gross + order.gross,
                   net |-> today.net + order.gross - Fee]
      /\ \/ mem' = mem
         \/ Cleared(order.base, order.qty) /\ mem' = ClearPosition(mem)
  BY <1>1 DEF Record, exchange, stream, observers, readings
<1>3. Typed /\ up /\ Pending
  BY <1>1, <1>2 DEF Inv, OrderFits, Pending
<1>4. /\ IsMemory(mem) /\ IsLedger(ledger) /\ order \in Orders
      /\ ledger.left \in Nat /\ (ledger.left = 0 => Blank(ledger))
      /\ (ledger.left > 0 => ledger.lots # {})
      /\ order.base \in Nat /\ order.qty \in Nat /\ order.gross \in Int
      /\ order.qty > 0 /\ order.qty <= order.base
  BY <1>1, <1>2, <1>3 DEF Inv, Typed, Orders, Sold, SellFits, IsLedger
<1>5. /\ rec.qty = order.qty /\ rec.reason = order.reason
      /\ rec.remainingAfter = Remaining(order.base, order.qty)
  BY DEF SellRecord
<1> HIDE DEF rec
<1>6. ledger.left = 0 => IsLedger(ledger') /\ ledger'.left = 0 /\ Blank(ledger')
  BY <1>2, <1>4, ReplayUnheldFields
<1>7. ledger.left > 0 =>
        /\ IsLedger(ledger')
        /\ ledger'.left = 0 => Blank(ledger')
        /\ ledger'.left > 0 => /\ ledger'.left = ledger.left - order.qty
                               /\ ledger'.lots = ledger.lots
                               /\ ledger'.tpDone <=> ledger.tpDone \/ Takes(order.reason)
                               /\ ledger'.slDone <=> ledger.slDone \/ Cuts(order.reason)
        /\ Leaves(order) =>
             /\ ledger'.left > 0 <=> order.reason \in PartialReasons /\ order.qty < ledger.left
             /\ ledger'.left > 0 \/ order.reason \notin PartialReasons =>
                  ledger'.clocks = SellClocks(ledger.clocks, order.reason, Takes(order.reason))
  BY <1>2, <1>4, <1>5, ReplayHeldFields, Zenon
<1>8. /\ IsMemory(mem') /\ mem'.clocks = mem.clocks
      /\ mem'.price # {} => mem' = mem
      /\ ~Cleared(order.base, order.qty) => mem' = mem
  <2>1. /\ IsMemory(ClearPosition(mem)) /\ ClearPosition(mem).price = {}
        /\ ClearPosition(mem).clocks = mem.clocks
    BY <1>4, ClearFields
  <2> QED
    BY <1>2, <1>4, <2>1
<1>9. IsLedger(ledger')
  BY <1>4, <1>6, <1>7
<1>10. today'.gross = today.gross + order.gross /\ today'.net = today.net + order.gross - Fee
  BY <1>2
<1>11. Typed'
  <2>1. today'.gross \in Int /\ today'.net \in Int
    BY <1>3, <1>4, <1>10, BoundsTyped DEF Typed
  <2> QED
    BY <1>2, <1>3, <1>8, <1>9, <2>1, NoOrderFields DEF Typed
<1>12. BuyFits' /\ SellFits' /\ OrderFits' /\ BoughtWhole' /\ ~Pending' /\ order'.stage = "none"
  BY <1>2, NoOrderFits, NoOrderFields
<1>13. SnapshotRight' /\ Sold'
  <2>1. SnapshotRight' /\ (IF held' = 0 THEN lots' = {} /\ parts' = 0 ELSE lots' # {})
    BY <1>1, <1>2, <1>3 DEF Inv, SnapshotRight, Sold, Typed
  <2>2. IF ledger'.left = 0 THEN Blank(ledger') ELSE ledger'.lots # {}
    <3>1. ledger'.left \in Nat
      BY <1>9 DEF IsLedger
    <3> QED
      BY <1>4, <1>6, <1>7, <3>1
  <2> QED
    BY <2>1, <2>2 DEF Sold, Blank
<1>14. HistoryFit =>
         /\ Leaves(order) /\ held = order.base - order.qty
         /\ order.base <= ledger.left /\ ledger.left > 0
         /\ held > 0 => lots = ledger.lots
         /\ fills = SellClocks(ledger.clocks, order.reason,
                               PartlySold(order) /\ Takes(order.reason))
  BY <1>1, <1>2, <1>3, <1>4
  DEF Inv, OrderFits, HistoryMatches, ClocksMatch, AfterOrder, HistoryFit
<1>15. /\ HistoryFit' <=> HistoryFit
       /\ MemoryFit' <=> MemoryFit
  BY <1>2 DEF HistoryFit, MemoryFit
<1>16. HistoryMatches' /\ (HistoryFit => fills = ledger'.clocks)
  <2>1. SUFFICES ASSUME HistoryFit
                 PROVE  /\ held <= ledger'.left /\ (held = 0 => ledger'.left = 0)
                        /\ held > 0 => ledger'.lots = lots
                        /\ fills = ledger'.clocks
    BY <1>2, <1>12, <1>15 DEF HistoryMatches
  <2>2. CASE order.reason \in PartialReasons
    <3>1. ~Cleared(order.base, order.qty)
      BY <1>14, <2>1, <2>2 DEF Leaves
    <3>2. order.qty < order.base /\ PartlySold(order)
      BY <1>4, <2>2, <3>1, ThresholdTyped DEF Cleared, Remaining, PartlySold
    <3>3. ledger'.left > 0
      BY <1>4, <1>7, <1>14, <2>1, <2>2, <3>2
    <3>4. fills = ledger'.clocks
      BY <1>7, <1>14, <2>1, <3>2, <3>3 DEF SellClocks
    <3> QED
      BY <1>4, <1>7, <1>14, <2>1, <3>2, <3>3, <3>4
  <2>3. CASE order.reason \notin PartialReasons
    <3>1. order.qty = order.base /\ held = 0
      BY <1>4, <1>14, <2>1, <2>3 DEF Leaves
    <3>2. ~(ledger'.left > 0) /\ ledger'.left \in Nat
      BY <1>7, <1>9, <1>14, <2>1, <2>3 DEF IsLedger
    <3>3. ~PartlySold(order) /\ ~Takes(order.reason)
      BY <2>3 DEF PartlySold, Takes, PartialReasons
    <3>4. fills = ledger'.clocks
      BY <1>7, <1>14, <2>1, <2>3, <3>3 DEF SellClocks
    <3> QED
      BY <3>1, <3>2, <3>4
  <2> QED
    BY <2>2, <2>3
<1>17. ClocksMatch'
  <2>1. MemoryFit => fills = mem'.clocks
    BY <1>1, <1>2, <1>3, <1>8 DEF Inv, ClocksMatch
  <2> QED
    BY <1>2, <1>12, <1>15, <1>16, <2>1 DEF ClocksMatch
<1>18. MemoryMatches'
  <2>1. MemoryFit /\ blinded = 0 /\ held > 0 => mem' = mem /\ mem.price = lots
    BY <1>1, <1>3, <1>8 DEF Inv, MemoryMatches
  <2> QED
    BY <1>2, <1>12, <1>15, <2>1 DEF MemoryMatches
<1>19. LossesKept'
  <2>1. /\ today.net \in Int /\ today.gross \in Int /\ pnl \in Int /\ Fee \in Nat
        /\ today.net <= today.gross
        /\ up /\ ~stale /\ missed = 0 => pnl <= today.gross + order.gross
    BY <1>1, <1>2, <1>3, BoundsTyped DEF Inv, Typed, LossesKept, Unrecorded
  <2> QED
    BY <1>2, <1>4, <1>10, <1>12, <2>1 DEF LossesKept, Unrecorded
<1>20. PartsCounted'
  <2>1. ledger'.left > 0 => /\ ledger.left > 0
                            /\ ~ledger'.tpDone => ~ledger.tpDone /\ ~Takes(order.reason)
                            /\ ~ledger'.slDone => ~ledger.slDone /\ ~Cuts(order.reason)
    BY <1>4, <1>6, <1>7
  <2>2. /\ PartlySold(order) /\ Takes(order.reason) => mem.tpDone
        /\ PartlySold(order) /\ Cuts(order.reason) => mem.slDone
    BY <1>1, <1>2 DEF Inv, SellFits
  <2>3. TpFree' => TpFree
    BY <1>2, <1>8, <2>1, <2>2 DEF TpFree
  <2>4. SlFree' => SlFree
    BY <1>2, <1>8, <2>1, <2>2 DEF SlFree
  <2> QED
    BY <1>1, <1>2, <1>3, <1>11, <2>3, <2>4, BudgetShrinks DEF Inv, Typed
<1> QED
  BY <1>11, <1>12, <1>13, <1>16, <1>17, <1>18, <1>19, <1>20 DEF Inv

-----------------------------------------------------------------------------
(* A visit                                                                 *)

\* What a visit decides fits the position still, or it has lost sight of it.
LEMMA VisitKeeps ==
  ASSUME Inv, Visiting, NEW F, NEW c, Look(F, c), bought' \in Nat,
         UNCHANGED <<up, held, lots, price, streaming, coming, view, ledger, today, fills,
                     parts, missed, readings>>,
         \/ order' = order
         \/ /\ order' \in Orders /\ order'.stage = "sent" /\ order'.base = BaseFree
            /\ BuyFits' /\ SellFits'
            /\ order'.side = "buy" => ~HasPosition
            /\ order'.side = "sell" => HasPosition
  PROVE  Inv'
<1>1. /\ Typed /\ up /\ order.stage = "none" /\ ~coming /\ ~Pending
      /\ HasPosition => mem.price # {}
  BY DEF Inv, Visiting, Unrecoverable, Pending
<1>2. /\ mem' = Visited(c) /\ pnl' = DailyResult /\ stale' = FALSE
      /\ blinded' = blinded + (IF LosesSight THEN 1 ELSE 0)
  BY DEF Look
<1>3. /\ IsMemory(mem') /\ mem'.clocks = mem.clocks
      /\ HasPosition => /\ mem'.price = mem.price /\ mem'.tpDone = mem.tpDone
                        /\ mem'.slDone = mem.slDone
      /\ ~HasPosition => mem'.price = {}
  BY <1>1, <1>2, VisitedFields
<1>4. /\ order' \in Orders /\ order'.stage \in {"none", "sent"} /\ BuyFits' /\ SellFits'
      /\ ~Pending'
  <2>1. CASE order' = order
    BY <1>1, <2>1 DEF Inv, Typed, BuyFits, SellFits, Pending
  <2>2. CASE order' # order
    BY <2>2 DEF Pending
  <2> QED
    BY <2>1, <2>2
<1>5. pnl' \in Int /\ blinded' \in Nat /\ blinded <= blinded'
      /\ (blinded' = 0 => blinded = 0 /\ ~LosesSight)
  BY <1>1, <1>2 DEF Typed, DailyResult
<1>6. Typed'
  <2>1. stale' \in BOOLEAN
    BY <1>2
  <2> QED
    BY <1>1, <1>3, <1>4, <1>5, <2>1 DEF Typed, readings
<1>7. missed = 0 => BaseFree = held
  BY <1>1 DEF Inv, SnapshotRight, BaseFree
<1>8. SnapshotRight' /\ Sold' /\ BoughtWhole'
  BY <1>4 DEF Inv, SnapshotRight, Sold, Blank, BoughtWhole
<1>9. OrderFits' /\ HistoryMatches' /\ ClocksMatch'
  <2>1. OrderFits'
    BY <1>1, <1>4, <1>7 DEF OrderFits
  <2>2. HistoryMatches' /\ ClocksMatch'
    BY <1>1, <1>3, <1>4
    DEF Inv, HistoryMatches, ClocksMatch, HistoryFit, MemoryFit, readings
  <2> QED
    BY <2>1, <2>2
<1>10. MemoryMatches'
  <2>1. SUFFICES ASSUME MemoryFit, blinded' = 0
                 PROVE  /\ held > 0 => mem'.price = lots
                        /\ order'.stage = "sent" /\ order'.side = "buy" => held = 0
    BY <1>4 DEF MemoryMatches, MemoryFit, readings
  <2>2. held > 0 => mem.price = lots /\ lots # {}
    BY <1>1, <1>5, <2>1 DEF Inv, MemoryMatches, Sold
  <2>3. held > 0 => HasPosition
    <3>1. SUFFICES ASSUME held > 0, ~HasPosition PROVE FALSE
      OBVIOUS
    <3>2. mem = ClearPosition(mem)
      BY <1>5, <2>1, <3>1 DEF LosesSight
    <3>3. ClearPosition(mem).price = {}
      BY <1>1, ClearFields DEF Typed
    <3> QED
      BY <2>2, <3>1, <3>2, <3>3
  <2>4. held > 0 => mem'.price = lots
    BY <1>3, <2>2, <2>3
  <2>5. order'.stage = "sent" /\ order'.side = "buy" => held = 0
    BY <1>1, <2>3 DEF Typed
  <2> QED
    BY <2>4, <2>5
<1>11. LossesKept'
  BY <1>1, <1>2, <1>4 DEF Inv, Typed, LossesKept, DailyResult, Unrecorded
<1>12. PartsCounted'
  <2>1. (TpFree' => TpFree) /\ (SlFree' => SlFree)
    BY <1>1, <1>3 DEF TpFree, SlFree
  <2> QED
    BY <1>1, <1>5, <1>6, <2>1, BudgetShrinks DEF Inv, Typed
<1> QED
  BY <1>4, <1>6, <1>8, <1>9, <1>10, <1>11, <1>12 DEF Inv

LEMMA WaitKeeps == Inv /\ Wait => Inv'
<1>1. SUFFICES ASSUME Inv, Wait PROVE Inv'
  OBVIOUS
<1>2. PICK F, c : Look(F, c)
  BY <1>1 DEF Wait
<1>3. /\ Visiting /\ bought' \in Nat
      /\ UNCHANGED <<up, held, lots, price, streaming, coming, view, ledger, today, fills,
                     parts, missed, readings, order>>
  BY <1>1 DEF Wait, exchange, stream, history, bounds, Inv, Typed
<1> QED
  BY <1>1, <1>2, <1>3, VisitKeeps

LEMMA SubmitBuyKeeps == Inv /\ SubmitBuy => Inv'
<1>1. SUFFICES ASSUME Inv, SubmitBuy PROVE Inv'
  OBVIOUS
<1>2. PICK F \in Seen : Look(F, TRUE) /\ EntryReady(Visited(TRUE))
  BY <1>1 DEF SubmitBuy
<1>3. /\ Visiting /\ bought' = bought + 1
      /\ order' = [NoOrder EXCEPT !.stage = "sent", !.holding = HasPosition,
                                  !.base = BaseFree, !.id = bought]
      /\ UNCHANGED <<up, held, lots, price, streaming, coming, view, ledger, today, fills,
                     parts, missed, readings>>
  BY <1>1 DEF SubmitBuy, exchange, stream, history
<1>4. ~HasPosition
  <2>1. SUFFICES ASSUME HasPosition PROVE FALSE
    OBVIOUS
  <2>2. Visited(TRUE).confirm = 0
    BY <1>1, <2>1, VisitedFields DEF Inv
  <2>3. Visited(TRUE).confirm >= Confirmations
    BY <1>2 DEF EntryReady, EntryTimingReady
  <2>4. Confirmations \in Nat /\ Confirmations > 0
    BY BoundsTyped
  <2> DEFINE confirm == Visited(TRUE).confirm
  <2>5. confirm = 0 /\ confirm >= Confirmations
    BY <2>2, <2>3, Zenon
  <2> HIDE DEF confirm
  <2> QED
    BY <2>4, <2>5
<1>5. BaseFree \in Nat /\ bought \in Nat
  BY <1>1, BalanceTyped DEF Inv, Typed
<1>6. /\ order'.stage = "sent" /\ order'.side = "buy" /\ ~order'.holding
      /\ order'.base = BaseFree /\ order'.reason = "entry" /\ order'.gross = 0
  BY <1>3, <1>4 DEF NoOrder
<1>7. order' \in Orders
  <2>1. HasPosition \in BOOLEAN
    BY DEF HasPosition, IsPosition
  <2> QED
    BY <1>3, <1>5, <2>1, BuyOrderTyped
<1>8. BuyFits' /\ SellFits' /\ bought' \in Nat
  BY <1>3, <1>5, <1>6 DEF BuyFits, SellFits
<1> QED
  BY <1>1, <1>2, <1>3, <1>4, <1>6, <1>7, <1>8, VisitKeeps

LEMMA SubmitSellKeeps == Inv /\ SubmitSell => Inv'
<1>1. SUFFICES ASSUME Inv, SubmitSell PROVE Inv'
  OBVIOUS
<1>2. PICK F \in Seen, bid \in Bids :
        /\ Look(F, FALSE) /\ WantsSell(Fired(F), bid)
        /\ order' = [NoOrder EXCEPT
                       !.stage = "sent", !.side = "sell", !.holding = HasPosition,
                       !.base = BaseFree,
                       !.qty = SellPlan(Fired(F), bid).qty,
                       !.reason = SellPlan(Fired(F), bid).reason]
  BY <1>1 DEF SubmitSell
<1>3. /\ Visiting /\ bought' = bought
      /\ UNCHANGED <<up, held, lots, price, streaming, coming, view, ledger, today, fills,
                     parts, missed, readings>>
  BY <1>1 DEF SubmitSell, exchange, stream, history, bounds
<1> DEFINE plan == SellPlan(Fired(F), bid)
<1>4. Fired(F) \in SUBSET Triggers
  <2>1. Trailing \in Triggers
    BY DEF Trailing, Triggers, Priority
  <2> QED
    BY <2>1 DEF Fired
<1>5. HasPosition /\ Fired(F) # {} /\ Orderable(plan.qty, bid)
  BY <1>2, Zenon DEF WantsSell, ExitPassed
<1>6. /\ plan.qty \in Nat /\ plan.qty > 0 /\ plan.qty <= BaseFree
      /\ plan.reason \in Reasons
      /\ Takes(plan.reason) => ~mem.tpDone
      /\ Cuts(plan.reason) => ~mem.slDone
  BY <1>1, <1>4, <1>5, PlanFits DEF Inv
<1> HIDE DEF plan
<1>7. BaseFree \in Nat
  BY <1>1, BalanceTyped DEF Inv
<1>8. /\ order'.stage = "sent" /\ order'.side = "sell" /\ order'.base = BaseFree
      /\ order'.qty = plan.qty /\ order'.reason = plan.reason
  BY <1>2 DEF NoOrder, plan
<1>9. order' \in Orders
  <2>1. HasPosition \in BOOLEAN
    BY DEF HasPosition, IsPosition
  <2>2. plan.reason \in Reasons \cup {"entry"}
    BY <1>6
  <2> QED
    BY <1>2, <1>6, <1>7, <2>1, <2>2, SellOrderTyped DEF plan
<1>10. /\ mem'.price = mem.price /\ mem'.tpDone = mem.tpDone /\ mem'.slDone = mem.slDone
       /\ mem.price # {}
  BY <1>1, <1>2, <1>3, <1>5, VisitedFields DEF Inv, Look, Visiting, Unrecoverable
<1>11. BuyFits' /\ SellFits'
  BY <1>6, <1>8, <1>10 DEF BuyFits, SellFits
<1>12. bought' \in Nat
  BY <1>1, <1>3 DEF Inv, Typed
<1> QED
  BY <1>1, <1>2, <1>3, <1>5, <1>8, <1>9, <1>11, <1>12, VisitKeeps

-----------------------------------------------------------------------------
(* The theorems                                                            *)

LEMMA InitInv == Init => Inv
<1>1. SUFFICES ASSUME Init PROVE Inv
  OBVIOUS
<1>2. /\ mem = BlankMemory /\ ledger = EmptyLedger /\ fills = NoClocks /\ order = NoOrder
      /\ held = 0 /\ lots = {} /\ pnl = 0 /\ parts = 0 /\ missed = 0 /\ blinded = 0
      /\ cut \in BOOLEAN /\ misread \in BOOLEAN
      /\ price \in Prices /\ view = Unknown /\ bought = 0
      /\ today = [gross |-> 0, net |-> 0]
  BY <1>1, Zenon DEF Init
<1>3. up \in BOOLEAN /\ streaming \in BOOLEAN /\ coming \in BOOLEAN /\ stale \in BOOLEAN
  BY <1>1, Zenon DEF Init
<1>4. /\ ledger.left = 0 /\ ledger.lots = {} /\ ~ledger.tpDone /\ ~ledger.slDone
      /\ ledger.clocks = NoClocks /\ mem.price = {} /\ mem.clocks = NoClocks
  BY <1>2 DEF BlankMemory, EmptyLedger
<1>5. IsMemory(mem) /\ IsLedger(ledger) /\ fills \in Clocks /\ order \in Orders
  BY <1>2, BlankFields, NoOrderFields, Zenon
<1>6. order.stage = "none" /\ order.side = "buy" /\ ~order.holding /\ order.reason = "entry"
      /\ order.gross = 0 /\ ~Pending
  BY <1>2, NoOrderFields DEF Pending
<1>7. Typed
  BY <1>2, <1>3, <1>5 DEF Typed
<1>8. SnapshotRight /\ BuyFits /\ SellFits /\ OrderFits
  BY <1>1, <1>2, <1>6 DEF Init, SnapshotRight, BuyFits, SellFits, OrderFits
<1>9. Sold /\ HistoryMatches /\ ClocksMatch /\ MemoryMatches
  BY <1>2, <1>4, <1>6 DEF Sold, Blank, HistoryMatches, ClocksMatch, MemoryMatches
<1>10. LossesKept /\ BoughtWhole
  BY <1>2, <1>6 DEF LossesKept, Unrecorded, BoughtWhole
<1>11. PartsCounted
  <2>1. One(TpFree) \in {0, 1} /\ One(SlFree) \in {0, 1}
    BY BudgetTyped
  <2> QED
    BY <1>2, <2>1 DEF PartsCounted
<1> QED
  BY <1>7, <1>8, <1>9, <1>10, <1>11 DEF Inv

LEMMA NextInv == Inv /\ [Next]_vars => Inv'
<1>1. SUFFICES ASSUME Inv, [Next]_vars PROVE Inv'
  OBVIOUS
<1>2. CASE Record
  <2>1. order.side \in {"buy", "sell"}
    BY <1>1 DEF Inv, Typed, Orders
  <2> QED
    BY <1>1, <1>2, <2>1, RecordBuyKeeps, RecordSaleKeeps
<1>3. CASE UNCHANGED vars
  <2>1. UNCHANGED <<up, mem, pnl, order, held, lots, price, streaming, coming, view, ledger,
                    today, stale, fills, parts, missed, blinded, readings, bought>>
    BY <1>3 DEF vars, bot, exchange, stream, history, observers, bounds
  <2>2. Typed' /\ SnapshotRight' /\ LossesKept' /\ OrderFits'
    BY <1>1, <2>1
    DEF Inv, Typed, SnapshotRight, LossesKept, Unrecorded, OrderFits, Pending, readings
  <2> QED
    BY <1>1, <2>1, <2>2, SamePositionKeeps
<1> QED
  BY <1>1, <1>2, <1>3, WaitKeeps, SubmitBuyKeeps, SubmitSellKeeps, RejectedKeeps,
     ResponseLostKeeps, AcknowledgedKeeps, BookkeepingFailsKeeps, ExchangeFillsKeeps,
     StreamDeliversKeeps, StreamStopsKeeps, StreamReturnsKeeps, CrashKeeps, StartKeeps,
     NewDayKeeps, TickKeeps, PriceMovesKeeps
  DEF Next, Thread, Environment

LEMMA Invariance == Spec => []Inv
<1>1. Init => Inv
  BY InitInv
<1>2. Inv /\ [Next]_vars => Inv'
  BY NextInv
<1> QED
  BY <1>1, <1>2, PTL DEF Spec

LEMMA HeldPositionHasAmount == Typed /\ IsPosition(held) => held > 0
BY PositionHasAmount DEF Typed

\* The entry price of a position averages exactly the buys it consists of, across
\* splits, partial sales and restarts, as long as no fill was lost, no holding was
\* too small to be seen and no restart recovered it from a history with a sale that
\* left something else than its reason says.
THEOREM BasisIsExact == Spec => []BasisExact
<1>1. Inv => BasisExact
  <2>1. SUFFICES ASSUME Inv, Settled, missed = 0, blinded = 0, ~misread, IsPosition(held)
                 PROVE  mem.price = lots
    BY DEF BasisExact
  <2>2. up /\ order.stage = "none" /\ ~Pending
    BY <2>1 DEF Settled, Pending
  <2>3. held > 0
    BY <2>1, HeldPositionHasAmount DEF Inv
  <2> QED
    BY <2>1, <2>2, <2>3 DEF Inv, MemoryMatches, MemoryFit
<1> QED
  BY <1>1, Invariance, PTL

\* While no fill was lost and every sale left what its reason says, the history
\* knows the entry price of all that is held, also of what the bot forgot when it
\* became too small to be seen.
THEOREM HistoryAlwaysKnows == Spec => []HistoryKnows
<1>1. Inv => HistoryKnows
  <2>1. SUFFICES ASSUME Inv, Settled, missed = 0, ~cut, held > 0
                 PROVE  RecoveredMemory(ledger).price = lots
    BY DEF HistoryKnows
  <2>2. ~Pending
    BY <2>1 DEF Settled, Pending
  <2>3. held <= ledger.left /\ ledger.lots = lots /\ held \in Nat /\ ledger.left \in Nat
    BY <2>1, <2>2 DEF Inv, HistoryMatches, HistoryFit, Typed, IsLedger
  <2>4. ledger.left > 0
    BY <2>1, <2>3
  <2> QED
    BY <2>3, <2>4 DEF RecoveredMemory
<1> QED
  BY <1>1, Invariance, PTL

\* No buy is sent before the cooldowns of the orders really executed are over, and
\* none once the results of the date reach the loss limit: restarts, holdings out
\* of sight and date changes between a visit and its record included.  For the
\* cooldowns, not for the limit, a restart after a sale that left something else
\* than its reason says is excepted.
THEOREM BuysAreAllowed == Spec => BuysAllowed
<1>1. ASSUME Inv, [Next]_vars, Submits("buy"), missed = 0
      PROVE  /\ ~misread => /\ fills.trade >= TradeInterval
                            /\ fills.stop >= StopCooldown
                            /\ fills.tp >= TpCooldown
             /\ today.gross > -MaxDailyLoss
  <2>1. order.stage = "none" /\ order'.stage = "sent" /\ order'.side = "buy"
    BY <1>1 DEF Submits
  <2>2. SubmitBuy
    <3>1. ~SubmitSell
      <4>1. SUFFICES ASSUME SubmitSell PROVE FALSE
        OBVIOUS
      <4>2. PICK F \in Seen, bid \in Bids :
              order' = [NoOrder EXCEPT
                          !.stage = "sent", !.side = "sell", !.holding = HasPosition,
                          !.base = BaseFree,
                          !.qty = SellPlan(Fired(F), bid).qty,
                          !.reason = SellPlan(Fired(F), bid).reason]
        BY <4>1 DEF SubmitSell
      <4>3. order'.side = "sell"
        BY <4>2 DEF NoOrder
      <4> QED
        BY <2>1, <4>3
    <3>2. order' # NoOrder /\ order' # order
      BY <2>1, NoOrderFields
    <3>3. CASE Thread
      BY <2>1, <3>1, <3>2, <3>3
      DEF Thread, Wait, Rejected, ResponseLost, Acknowledged, Record, BookkeepingFails
    <3>4. CASE Environment
      BY <2>1, <3>2, <3>4
      DEF Environment, ExchangeFills, StreamDelivers, StreamStops, StreamReturns, Crash, Start,
          NewDay, Tick, PriceMoves, bot
    <3>5. CASE UNCHANGED vars
      BY <3>2, <3>5 DEF vars, bot
    <3> QED
      BY <1>1, <3>3, <3>4, <3>5 DEF Next
  <2>3. Visiting /\ EntryReady(Visited(TRUE))
    BY <2>2 DEF SubmitBuy
  <2> DEFINE seen == Visited(TRUE)
  <2>4. seen.clocks = mem.clocks
    BY <1>1, VisitedFields DEF Inv
  <2>5. ~EntryCooldownActive(seen) /\ DailyResult > -MaxDailyLoss
    BY <2>3, Zenon DEF EntryReady
  <2> HIDE DEF seen
  <2>6. up /\ ~Pending /\ (~misread => mem.clocks = fills)
    BY <1>1, <2>1, <2>3 DEF Inv, ClocksMatch, MemoryFit, Visiting, Pending
  <2>7. /\ fills.trade \in Nat /\ fills.stop \in Nat /\ fills.tp \in Nat
        /\ TradeInterval \in Nat /\ StopCooldown \in Nat /\ TpCooldown \in Nat
    BY <1>1, BoundsTyped DEF Inv, Typed, Clocks, Ages
  <2>8. ~misread => /\ fills.trade >= TradeInterval /\ fills.stop >= StopCooldown
                    /\ fills.tp >= TpCooldown
    BY <2>4, <2>5, <2>6, <2>7
    DEF EntryCooldownActive, InCooldown, PartialTakeProfitCooldown, StopLossPatternBlocked
  <2>9. /\ today.gross \in Int /\ today.net \in Int /\ pnl \in Int /\ MaxDailyLoss \in Nat
        /\ today.net <= today.gross /\ (~stale => pnl <= today.gross)
    BY <1>1, <2>1, <2>6, BoundsTyped DEF Inv, Typed, LossesKept, Unrecorded
  <2>10. DailyResult \in Int /\ DailyResult <= today.gross
    BY <2>9 DEF DailyResult
  <2> QED
    BY <2>5, <2>8, <2>9, <2>10
<1>2. Inv /\ [Next]_vars =>
        [Submits("buy") /\ missed = 0 =>
           /\ ~misread => /\ fills.trade >= TradeInterval
                          /\ fills.stop >= StopCooldown
                          /\ fills.tp >= TpCooldown
           /\ today.gross > -MaxDailyLoss]_vars
  BY <1>1
<1> QED
  BY <1>2, Invariance, PTL DEF Spec, BuysAllowed

-----------------------------------------------------------------------------
(* The account's position implements the abstract promise                  *)

\* What the promise counts as lost knowledge
Slips == missed + blinded + One(misread)

LEMMA SlipsOnlyGrow ==
  Inv /\ [Next]_vars => /\ missed' \in Nat /\ missed <= missed'
                        /\ blinded' \in Nat /\ blinded <= blinded'
                        /\ misread => misread'
<1>1. SUFFICES ASSUME Inv, [Next]_vars
               PROVE  /\ missed' \in Nat /\ missed <= missed'
                      /\ blinded' \in Nat /\ blinded <= blinded'
                      /\ misread => misread'
  OBVIOUS
<1>2. missed \in Nat /\ blinded \in Nat
  BY <1>1 DEF Inv, Typed
<1>3. CASE Wait \/ SubmitBuy \/ SubmitSell
  <2>1. \E F, c : Look(F, c)
    BY <1>3, Zenon DEF Wait, SubmitBuy, SubmitSell
  <2>2. missed' = missed /\ misread' = misread
    BY <1>3 DEF Wait, SubmitBuy, SubmitSell, readings
  <2> QED
    BY <1>2, <2>1, <2>2 DEF Look
<1>4. CASE Rejected \/ Acknowledged \/ Record
  <2>1. UNCHANGED observers
    BY <1>4, Zenon DEF Rejected, Acknowledged, Record
  <2> QED
    BY <1>2, <2>1 DEF observers, readings
<1>5. CASE ResponseLost \/ BookkeepingFails
  BY <1>2, <1>5 DEF ResponseLost, BookkeepingFails, readings
<1>6. CASE Environment
  <2>1. misread => misread'
    BY <1>6, Zenon
    DEF Environment, ExchangeFills, ExecuteBuy, ExecuteSell, StreamDelivers, StreamStops,
        StreamReturns, Crash, Start, NewDay, Tick, PriceMoves, observers, readings
  <2> QED
    BY <1>2, <1>6, <2>1
    DEF Environment, ExchangeFills, Report, StreamDelivers, StreamStops, StreamReturns, Crash,
        Start, NewDay, Tick, PriceMoves, observers
<1>7. CASE UNCHANGED vars
  BY <1>2, <1>7 DEF vars, observers, readings
<1> QED
  BY <1>1, <1>3, <1>4, <1>5, <1>6, <1>7 DEF Next, Thread

LEMMA SlippingHolds ==
  ASSUME Inv, [Next]_vars
  PROVE  Slips \in Nat /\ Slips' \in Nat /\ Slips' >= Slips
<1>1. /\ missed \in Nat /\ blinded \in Nat /\ missed' \in Nat /\ missed <= missed'
      /\ blinded' \in Nat /\ blinded <= blinded' /\ (misread => misread')
  BY SlipsOnlyGrow DEF Inv, Typed
<1>2. One(misread) \in Nat /\ One(misread)' \in Nat /\ One(misread) <= One(misread)'
  BY <1>1 DEF One
<1> QED
  BY <1>1, <1>2 DEF Slips

\* Only an executed order changes the position.
LEMMA OnlyFillsTrade ==
  ASSUME [Next]_vars, ~ExchangeFills
  PROVE  held' = held /\ parts' = parts
<1>1. CASE Thread
  BY <1>1
  DEF Thread, Wait, SubmitBuy, SubmitSell, Rejected, ResponseLost, Acknowledged, Record,
      BookkeepingFails, exchange, observers
<1>2. CASE Environment
  BY <1>2
  DEF Environment, StreamDelivers, StreamStops, StreamReturns, Crash, Start, NewDay, Tick,
      PriceMoves, exchange, observers
<1>3. CASE UNCHANGED vars
  BY <1>3 DEF vars, exchange, observers
<1> QED
  BY <1>1, <1>2, <1>3 DEF Next

\* A bot that knows its position buys only when it has none.
LEMMA BuysIntoNothing ==
  ASSUME Inv, order.stage = "sent", order.side = "buy", held > 0
  PROVE  Slips > 0
<1>1. missed \in Nat /\ blinded \in Nat /\ held \in Nat /\ up /\ One(misread) \in Nat
  BY DEF Inv, Typed, OrderFits, One
<1>2. missed = 0 /\ blinded = 0 => misread
  BY <1>1 DEF Inv, MemoryMatches, MemoryFit
<1>3. misread => One(misread) = 1
  BY DEF One
<1> QED
  BY <1>1, <1>2, <1>3 DEF Slips

LEMMA FillsPromised ==
  ASSUME Inv, ExchangeFills
  PROVE  Promise!Next
<1>1. /\ Inv' /\ Typed /\ Typed' /\ order.stage = "sent" /\ up
      /\ order' = [order EXCEPT !.stage = "filled"]
  BY ExchangeFillsKeeps DEF Inv, OrderFits, ExchangeFills
<1>2. [Next]_vars
  BY DEF Next, Environment
<1>3. /\ missed \in Nat /\ blinded \in Nat /\ parts \in Nat
      /\ held \in Nat /\ held' \in Nat
      /\ Slips \in Nat /\ Slips' \in Nat /\ Slips' >= Slips
  BY <1>1, <1>2, SlippingHolds DEF Typed
<1>4. Promise!Slipping
  BY <1>3 DEF Promise!Slipping, Slips, One
<1>5. CASE order.side = "buy"
  <2>1. ExecuteBuy
    BY <1>5 DEF ExchangeFills
  <2>2. held' > 0 /\ parts' = 0
    <3>1. PICK q \in BuyFills : held' = held + q
      BY <2>1 DEF ExecuteBuy
    <3>2. q \in Nat /\ q > 0
      BY BoundsTyped
    <3> QED
      BY <1>3, <2>1, <3>1, <3>2 DEF ExecuteBuy
  <2>3. held > 0 => Slips > 0
    BY <1>1, <1>5, BuysIntoNothing
  <2>4. Promise!Open
    BY <1>3, <1>4, <2>2, <2>3 DEF Promise!Open, Slips, One
  <2> QED
    BY <2>4 DEF Promise!Next
<1>6. CASE order.side = "sell"
  <2>1. ExecuteSell
    BY <1>6 DEF ExchangeFills
  <2>2. /\ order.qty > 0 /\ mem.price # {}
        /\ Takes(order.reason) => ~mem.tpDone
        /\ Cuts(order.reason) => ~mem.slDone
    BY <1>1, <1>6 DEF Inv, SellFits
  <2>3. /\ order.qty \in Nat /\ order.qty > 0 /\ order.qty <= held
        /\ held' = held - order.qty /\ held > 0
    BY <1>1, <1>3, <2>1, <2>2 DEF ExecuteSell, Covered, Typed, Orders
  <2>4. parts' = (IF held' = 0 THEN 0 ELSE IF PartlySold(order) THEN parts + 1 ELSE parts)
    BY <2>1 DEF ExecuteSell
  <2>5. CASE held' = 0
    <3>1. Promise!Close
      BY <1>3, <1>4, <2>3, <2>4, <2>5 DEF Promise!Close
    <3> QED
      BY <3>1 DEF Promise!Next
  <2>6. CASE held' # 0 /\ PartlySold(order)
    <3>1. ~Pending
      BY <1>1 DEF Pending
    <3>2. TpFree \/ SlFree
      BY <1>1, <2>2, <2>6, <3>1, PartialIsEither DEF TpFree, SlFree, PartlySold
    <3>3. One(TpFree) + One(SlFree) >= 1
      BY <3>2 DEF One
    <3>4. parts < 2 * (1 + (missed + blinded + (IF misread THEN 1 ELSE 0)))
      <4>1. parts + One(TpFree) + One(SlFree) <= 2 * (1 + missed + blinded)
        BY DEF Inv, PartsCounted
      <4> QED
        BY <1>3, <3>3, <4>1, BudgetTyped
    <3>5. Promise!Halve
      BY <1>3, <1>4, <2>3, <2>4, <2>6, <3>4 DEF Promise!Halve
    <3> QED
      BY <3>5 DEF Promise!Next
  <2>7. CASE held' # 0 /\ ~PartlySold(order)
    <3>1. Promise!Slip
      BY <1>3, <1>4, <2>3, <2>4, <2>7 DEF Promise!Slip
    <3> QED
      BY <3>1 DEF Promise!Next
  <2> QED
    BY <2>5, <2>6, <2>7
<1> QED
  BY <1>1, <1>5, <1>6 DEF Typed, Orders

\* As the executed orders make it, the position of the account is bought into only
\* when it is not open and sold in parts at most twice before it is closed.  Each
\* lost fill, each holding lost from sight and a restart that recovered from a sale
\* that left something else than its reason says allow two partial sales more; once
\* one of them happened, a buy may meet an open position.
THEOREM PromiseIsKept == Spec => KeepsPromise
<1>1. Init => Promise!Init
  BY DEF Init, Promise!Init
<1>2. Inv /\ [Next]_vars => [Promise!Next]_(Promise!vars)
  <2>1. SUFFICES ASSUME Inv, [Next]_vars PROVE [Promise!Next]_(Promise!vars)
    OBVIOUS
  <2>2. CASE ExchangeFills
    BY <2>1, <2>2, FillsPromised
  <2>3. CASE ~ExchangeFills
    <3>1. held' = held /\ parts' = parts
      BY <2>1, <2>3, OnlyFillsTrade
    <3>2. Slips \in Nat /\ Slips' \in Nat /\ Slips' >= Slips
      BY <2>1, SlippingHolds
    <3>3. Promise!Slip
      BY <3>1, <3>2 DEF Promise!Slip, Promise!Slipping, Slips, One
    <3> QED
      BY <3>3 DEF Promise!Next
  <2> QED
    BY <2>2, <2>3
<1> QED
  BY <1>1, <1>2, Invariance, PTL DEF Spec, KeepsPromise, Promise!Spec
=============================================================================
