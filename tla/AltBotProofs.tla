---------------------------- MODULE AltBotProofs ----------------------------
(***************************************************************************)
(* Theorems about AltBot, for every number of symbols, every setting of    *)
(* the strategy and every set of faults.                                   *)
(***************************************************************************)
EXTENDS AltBot, FiniteSetTheorems, TLAPS

-----------------------------------------------------------------------------
(* What the operators AltBot is built from return, for every value of the  *)
(* constants: amounts stay amounts, records stay records of their kind.    *)


\* The trigger that wins is one of those that fired.
LEMMA LeadingIsTrigger ==
  ASSUME NEW T \in SUBSET Triggers, T # {}
  PROVE  Leading(T) \in T
<1> DEFINE First(t) == t \in T /\ \A s \in T : Priority[t] <= Priority[s]
<1>1. SUFFICES \E t \in T : First(t)
  BY DEF Leading
<1>2. Triggers = {"stop_loss", "alt_profit_trailing_exit", "profit_protect_take_profit",
                  "break_even_guard_take_profit", "volume_spike_take_profit",
                  "sol_probe_time_exit", "take_profit"}
  BY DEF Triggers, Priority
<1>3. CASE "stop_loss" \in T
  BY <1>2, <1>3 DEF Priority
<1>4. CASE "stop_loss" \notin T /\ "alt_profit_trailing_exit" \in T
  BY <1>2, <1>4 DEF Priority
<1>5. CASE T \cap {"stop_loss", "alt_profit_trailing_exit"} = {}
           /\ "profit_protect_take_profit" \in T
  BY <1>2, <1>5 DEF Priority
<1>6. CASE T \cap {"stop_loss", "alt_profit_trailing_exit",
                   "profit_protect_take_profit"} = {}
           /\ "break_even_guard_take_profit" \in T
  BY <1>2, <1>6 DEF Priority
<1>7. CASE T \subseteq {"volume_spike_take_profit", "sol_probe_time_exit", "take_profit"}
           /\ "volume_spike_take_profit" \in T
  BY <1>2, <1>7 DEF Priority
<1>8. CASE T \subseteq {"sol_probe_time_exit", "take_profit"}
           /\ "sol_probe_time_exit" \in T
  BY <1>2, <1>8 DEF Priority
<1>9. CASE T = {"take_profit"}
  BY <1>2, <1>9 DEF Priority
<1> QED
  BY <1>2, <1>3, <1>4, <1>5, <1>6, <1>7, <1>8, <1>9

\* Rounding to the exchange's step never rounds up.
LEMMA TruncationIsSmaller ==
  ASSUME NEW a \in Nat
  PROVE  ToPrecision(a) \in Nat /\ ToPrecision(a) <= a
<1>1. Precision \in Nat \ {0}
  BY ExitAssumption
<1>2. (a \div Precision) * Precision \in Nat /\ (a \div Precision) * Precision <= a
  BY <1>1
<1> QED
  BY <1>2 DEF ToPrecision

\* A share of a position is an amount of coins, and never more than all of it.
LEMMA SharesAreAmounts ==
  ASSUME NEW base \in Nat, NEW pct \in 1..100
  PROVE  Share(base, pct) \in Nat /\ Share(base, pct) <= base
<1> DEFINE part == (base * pct) \div 100
<1>1. base * pct \in Nat /\ base * pct <= base * 100
  OBVIOUS
<1>2. part \in Nat /\ part <= base
  BY <1>1
<1> HIDE DEF part
<1> QED
  BY <1>2, TruncationIsSmaller DEF Share, part

\* What a visit decides to sell is an amount the visit believes to own, under a
\* reason the history knows.
LEMMA SellOrdersAreCovered ==
  ASSUME NEW base \in Nat, NEW T \in SUBSET Triggers, T # {},
         NEW tpDone \in BOOLEAN, NEW slDone \in BOOLEAN
  PROVE  LET plan == SellOrder(base, SellIntent(T, tpDone, slDone))
         IN  plan.qty \in Nat /\ plan.qty <= base /\ plan.reason \in Reasons
<1> DEFINE intent == SellIntent(T, tpDone, slDone)
<1>1. intent.pct \in 1..100 /\ intent.reason \in Reasons
  <2>1. Leading(T) \in Triggers
    BY LeadingIsTrigger
  <2> HIDE DEF Leading
  <2> QED
    BY <2>1, ExitAssumption DEF SellIntent, Reasons, PartialReasons, Triggers, Priority
<1> HIDE DEF intent
<1>2. Share(base, intent.pct) \in Nat /\ Share(base, intent.pct) <= base
  BY <1>1, SharesAreAmounts
<1>3. ToPrecision(base) \in Nat /\ ToPrecision(base) <= base
  BY TruncationIsSmaller
<1>4. PromotePartialExitReason(intent.reason) \in Reasons
  BY <1>1 DEF PromotePartialExitReason, Reasons, Triggers, Priority
<1> QED
  BY <1>1, <1>2, <1>3, <1>4 DEF SellOrder, intent

-----------------------------------------------------------------------------
(* The bot's memory and the replayed history *)

\* Restarting or aging a clock gives an age again.
LEMMA ClocksTyped ==
  ASSUME NEW c \in ClockRecords, NEW reason, NEW b \in BOOLEAN
  PROVE  /\ OlderClocks(c) \in ClockRecords
         /\ TradeClocks(c) \in ClockRecords
         /\ SellClocks(c, reason, b) \in ClockRecords
<1>1. OlderClocks(c) \in ClockRecords
  BY LifecycleAssumption DEF OlderClocks, Older, ClockRecords, Ages
<1>2. TradeClocks(c) \in ClockRecords
  BY LifecycleAssumption DEF TradeClocks, ClockRecords, Ages
<1>3. SellClocks(c, reason, b) \in ClockRecords
  BY LifecycleAssumption DEF SellClocks, ClockRecords, Ages
<1> QED BY <1>1, <1>2, <1>3

\* The blank records a process and a history start from are typed.
LEMMA BlankTyped ==
  /\ NoClocks \in ClockRecords
  /\ BlankMemory \in MemoryRecords
  /\ EmptyLedger \in LedgerRecords
<1>1. NoClocks \in ClockRecords
  BY LifecycleAssumption DEF NoClocks, ClockRecords, Ages
<1> QED
  BY <1>1, LifecycleAssumption DEF BlankMemory, EmptyLedger, MemoryRecords, LedgerRecords

\* A visit's cleanup and entry timing keep the bot's memory of a symbol typed.
LEMMA VisitTyped ==
  ASSUME NEW r \in MemoryRecords, NEW h \in BOOLEAN, NEW c \in BOOLEAN
  PROVE  /\ ClearPosition(r) \in MemoryRecords
         /\ UpdateEntryTiming(r, h, c) \in MemoryRecords
<1>1. ClearPosition(r) \in MemoryRecords
  BY DEF ClearPosition, MemoryRecords
<1>2. UpdateEntryTiming(r, h, c) \in MemoryRecords
  BY LifecycleAssumption DEF UpdateEntryTiming, MemoryRecords
<1> QED
  BY <1>1, <1>2

\* So does a buy fill.
LEMMA BuyFillTyped ==
  ASSUME NEW r \in MemoryRecords, NEW id \in BuyIds, NEW hasPosition \in BOOLEAN
  PROVE  ApplyBuyFill(r, id, hasPosition) \in MemoryRecords
<1> DEFINE p == IF hasPosition /\ r.price # {} THEN r.price \cup {id} ELSE {id}
           n == r.count + 1
           k == TradeClocks(r.clocks)
<1>1. p \in SUBSET BuyIds /\ n \in Nat
  BY DEF MemoryRecords
<1>2. k \in ClockRecords
  BY ClocksTyped DEF MemoryRecords
<1>3. ApplyBuyFill(r, id, hasPosition) = [r EXCEPT !.price = p, !.count = n, !.clocks = k]
  BY DEF ApplyBuyFill, MemoryRecords
<1> HIDE DEF p, n, k
<1>4. [r EXCEPT !.price = p, !.count = n, !.clocks = k] \in MemoryRecords
  BY <1>1, <1>2 DEF MemoryRecords
<1> QED
  BY <1>3, <1>4

\* And a sell fill: the entry count never becomes negative.
LEMMA SellFillTyped ==
  ASSUME NEW r \in MemoryRecords, NEW base \in Nat, NEW qty \in Nat, NEW reason
  PROVE  ApplySellFill(r, base, qty, reason) \in MemoryRecords
<1> DEFINE part == reason = "partial_take_profit" /\ ~Cleared(base, qty)
<1>1. EntryCountAfter(r, base, qty) \in Nat
  BY DEF EntryCountAfter, MemoryRecords
<1>2. SellClocks(r.clocks, reason, part) \in ClockRecords
  BY ClocksTyped DEF MemoryRecords
<1> QED
  BY <1>1, <1>2 DEF ApplySellFill, MemoryRecords

\* Time passing keeps the memory and the history typed.
LEMMA AgingTyped ==
  /\ \A r \in MemoryRecords : [r EXCEPT !.clocks = OlderClocks(@)] \in MemoryRecords
  /\ \A led \in LedgerRecords : [led EXCEPT !.clocks = OlderClocks(@)] \in LedgerRecords
<1>1. ASSUME NEW r \in MemoryRecords
      PROVE  [r EXCEPT !.clocks = OlderClocks(@)] \in MemoryRecords
  BY ClocksTyped DEF MemoryRecords
<1>2. ASSUME NEW led \in LedgerRecords
      PROVE  [led EXCEPT !.clocks = OlderClocks(@)] \in LedgerRecords
  BY ClocksTyped DEF LedgerRecords
<1> QED
  BY <1>1, <1>2

\* How every replay step is typed: field by field.
LEMMA LedgerUpdated ==
  ASSUME NEW led \in LedgerRecords, NEW left \in Nat, NEW l \in SUBSET BuyIds,
         NEW ends \in SUBSET Nat, \A e \in ends : e <= left,
         NEW tp \in BOOLEAN, NEW sl \in BOOLEAN, NEW k \in ClockRecords
  PROVE  [led EXCEPT !.left = left, !.lots = l, !.ends = ends, !.tpDone = tp,
                     !.slDone = sl, !.clocks = k] \in LedgerRecords
BY DEF LedgerRecords

\* Replaying a buy gives a history record: open legs end within the remainder.
LEMMA ReplayBuyTyped ==
  ASSUME NEW led \in LedgerRecords, NEW id \in BuyIds, NEW qty \in Nat
  PROVE  ReplayBuy(led, id, qty) \in LedgerRecords
<1>1. led.left \in Nat /\ led.ends \in SUBSET Nat /\ \A e \in led.ends : e <= led.left
  BY DEF LedgerRecords
<1> DEFINE left == led.left + qty
           l == led.lots \cup {id}
           ends == (IF led.left = 0 THEN {} ELSE led.ends) \cup {left}
           tp == ~(led.left = 0) /\ led.tpDone
           sl == ~(led.left = 0) /\ led.slDone
           k == TradeClocks(led.clocks)
<1>2. left \in Nat /\ ends \in SUBSET Nat /\ \A e \in ends : e <= left
  BY <1>1
<1>3. tp \in BOOLEAN /\ sl \in BOOLEAN
  BY DEF LedgerRecords
<1>4. k \in ClockRecords
  BY ClocksTyped DEF LedgerRecords
<1>5. l \in SUBSET BuyIds
  BY DEF LedgerRecords
<1> DEFINE next == [led EXCEPT !.left = left, !.lots = l, !.ends = ends,
                               !.tpDone = tp, !.slDone = sl, !.clocks = k]
<1>6. ReplayBuy(led, id, qty) = next
  BY DEF ReplayBuy, LedgerRecords
<1>7. next \in LedgerRecords
  <2> HIDE DEF left, l, ends, tp, sl, k
  <2> QED
    BY <1>2, <1>3, <1>4, <1>5, LedgerUpdated
<1> HIDE DEF next
<1> QED
  BY <1>6, <1>7

\* Clearing gives a history record.
LEMMA ClearRecoveredTyped ==
  ASSUME NEW led \in LedgerRecords
  PROVE  ClearRecovered(led) \in LedgerRecords
BY DEF ClearRecovered, LedgerRecords

\* Replaying a sell gives a history record: first-in-first-out consumption keeps
\* the open legs within the remainder.
LEMMA ReplaySellTyped ==
  ASSUME NEW led \in LedgerRecords, NEW rec, rec.qty \in Nat
  PROVE  ReplaySell(led, rec) \in LedgerRecords
<1>1. led.left \in Nat /\ led.ends \in SUBSET Nat /\ \A e \in led.ends : e <= led.left
  BY DEF LedgerRecords
<1> DEFINE left == IF rec.qty < led.left THEN led.left - rec.qty ELSE 0
           ends == ConsumeLegs(led.ends, rec.qty)
           tp == led.tpDone \/ (rec.reason = "partial_take_profit" /\ left > 0)
           sl == led.slDone \/ (rec.reason = "partial_stop_loss" /\ left > 0)
           k == SellClocks(led.clocks, rec.reason,
                           rec.reason = "partial_take_profit" /\ left > 0)
           next == [led EXCEPT !.left = left, !.lots = led.lots, !.ends = ends,
                               !.tpDone = tp, !.slDone = sl, !.clocks = k]
<1>2. left \in Nat /\ ends \in SUBSET Nat /\ \A e \in ends : e <= left
  BY <1>1 DEF ConsumeLegs
<1>3. tp \in BOOLEAN /\ sl \in BOOLEAN
  BY DEF LedgerRecords
<1>4. k \in ClockRecords
  BY ClocksTyped DEF LedgerRecords
<1>5. next \in LedgerRecords
  <2> HIDE DEF left, ends, tp, sl, k
  <2>1. led.lots \in SUBSET BuyIds
    BY DEF LedgerRecords
  <2> QED
    BY <2>1, <1>2, <1>3, <1>4, LedgerUpdated
<1>6. ReplayHeldSell(led, rec) = ClearRecovered(next) \/ ReplayHeldSell(led, rec) = next
  BY DEF ReplayHeldSell, LedgerRecords
<1>7. ReplayHeldSell(led, rec) \in LedgerRecords
  <2> HIDE DEF next
  <2> QED
    BY <1>5, <1>6, ClearRecoveredTyped
<1>8. ClearRecovered([led EXCEPT !.clocks = TradeClocks(@)]) \in LedgerRecords
  <2>1. [led EXCEPT !.clocks = TradeClocks(@)] \in LedgerRecords
    BY ClocksTyped DEF LedgerRecords
  <2> QED
    BY <2>1, ClearRecoveredTyped
<1> QED
  BY <1>7, <1>8 DEF ReplaySell

\* What a restart recovers is a memory record: the open legs are finitely many.
LEMMA RecoveredTyped ==
  ASSUME NEW led \in LedgerRecords
  PROVE  RecoveredMemory(led) \in MemoryRecords
<1>1. led.left \in Nat /\ led.ends \in SUBSET Nat /\ \A e \in led.ends : e <= led.left
  BY DEF LedgerRecords
<1>2. Cardinality(led.ends) \in Nat
  BY <1>1, FS_BoundedSetOfNaturals, FS_CardinalityType
<1> QED
  BY <1>2, LifecycleAssumption DEF RecoveredMemory, LedgerRecords, MemoryRecords

-----------------------------------------------------------------------------
(* Type correctness                                                        *)

LEMMA NoOrderTyped == NoOrder \in OrderRecords
BY BotAssumption DEF NoOrder, OrderRecords, Markets, BuyIds

LEMMA InitTyped == Init => TypeOK
<1> SUFFICES ASSUME Init PROVE TypeOK
  OBVIOUS
<1>1. BotTyped
  <2>1. mem \in [Markets -> MemoryRecords]
    BY BlankTyped DEF Init
  <2>2. at \in 0..MarketCount
    BY BotAssumption DEF Init
  <2>3. order \in OrderRecords
    BY NoOrderTyped DEF Init
  <2>4. up \in BOOLEAN /\ loaded \in BOOLEAN
    BY Zenon DEF Init
  <2>5. pnl \in Int
    BY DEF Init
  <2>6. snap \in [Markets -> Nat]
    BY DEF Init
  <2> QED
    BY <2>1, <2>2, <2>3, <2>4, <2>5, <2>6 DEF BotTyped
<1>2. ExchangeTyped
  BY DEF Init, ExchangeTyped
<1>3. HistoryTyped
  BY BlankTyped DEF Init, HistoryTyped
<1>4. ObserversTyped
  BY BlankTyped, BotAssumption DEF Init, ObserversTyped
<1> QED
  BY <1>1, <1>2, <1>3, <1>4 DEF Init, TypeOK

\* Unchanged groups of variables stay typed.
LEMMA UnchangedTyped ==
  /\ BotTyped /\ UNCHANGED bot => BotTyped'
  /\ ExchangeTyped /\ UNCHANGED exchange => ExchangeTyped'
  /\ HistoryTyped /\ UNCHANGED history => HistoryTyped'
  /\ ObserversTyped /\ UNCHANGED observers => ObserversTyped'
<1>1. BotTyped /\ UNCHANGED bot => BotTyped'
  BY DEF BotTyped, bot
<1>2. ExchangeTyped /\ UNCHANGED exchange => ExchangeTyped'
  BY DEF ExchangeTyped, exchange
<1>3. HistoryTyped /\ UNCHANGED history => HistoryTyped'
  BY DEF HistoryTyped, history
<1>4. ObserversTyped /\ UNCHANGED observers => ObserversTyped'
  BY DEF ObserversTyped, observers, readings
<1> QED
  BY <1>1, <1>2, <1>3, <1>4

LEMMA NextMarketTyped ==
  ASSUME BotTyped
  PROVE  NextMarket \in 0..MarketCount
BY BotAssumption DEF BotTyped, NextMarket

LEMMA FaultTyped ==
  ASSUME faults \in Nat, NEW kind, Fault(kind)
  PROVE  faults' \in Nat
BY DEF Fault

LEMMA PassTyped ==
  ASSUME TypeOK,
         StartPass \/ \E m \in Markets : FetchFails(m) \/ HoldUnrecoverable(m)
  PROVE  TypeOK'
<1>1. CASE StartPass
  <2>1. BotTyped'
    <3>1. at' \in 0..MarketCount
      BY <1>1, BotAssumption DEF StartPass
    <3>2. up' \in BOOLEAN /\ loaded' \in BOOLEAN
      BY <1>1, Zenon DEF StartPass, TypeOK, BotTyped
    <3>3. snap' \in [Markets -> Nat] /\ pnl' \in Int
      BY <1>1 DEF StartPass, TypeOK, BotTyped, ExchangeTyped, HistoryTyped
    <3>4. mem' \in [Markets -> MemoryRecords] /\ order' \in OrderRecords
      BY <1>1 DEF StartPass, TypeOK, BotTyped
    <3> QED
      BY <3>1, <3>2, <3>3, <3>4 DEF BotTyped
  <2>2. faults' \in Nat
    BY <1>1, FaultTyped DEF StartPass, TypeOK
  <2> QED
    BY <1>1, <2>1, <2>2, UnchangedTyped DEF TypeOK, StartPass
<1>2. ASSUME NEW m \in Markets, FetchFails(m) \/ HoldUnrecoverable(m)
      PROVE  TypeOK'
  <2>1. BotTyped'
    <3>1. BotTyped /\ at' = NextMarket
      BY <1>2 DEF TypeOK, FetchFails, HoldUnrecoverable
    <3>2. at' \in 0..MarketCount
      BY <3>1, NextMarketTyped
    <3>3. UNCHANGED <<up, loaded, snap, mem, pnl, order>>
      BY <1>2 DEF FetchFails, HoldUnrecoverable
    <3>4. up' \in BOOLEAN /\ loaded' \in BOOLEAN
      BY <3>1, <3>3, Zenon DEF BotTyped
    <3>5. /\ snap' \in [Markets -> Nat] /\ mem' \in [Markets -> MemoryRecords]
          /\ pnl' \in Int /\ order' \in OrderRecords
      BY <3>1, <3>3 DEF BotTyped
    <3> QED
      BY <3>2, <3>4, <3>5 DEF BotTyped
  <2>2. faults' \in Nat
    BY <1>2, FaultTyped DEF FetchFails, HoldUnrecoverable, TypeOK
  <2> QED
    BY <1>2, <2>1, <2>2, UnchangedTyped DEF TypeOK, FetchFails, HoldUnrecoverable
<1> QED
  BY <1>1, <1>2

\* The symbol's memory after the part of a visit that precedes the orders
LEMMA VisitedTyped ==
  ASSUME TypeOK, NEW m \in Markets, NEW c \in BOOLEAN
  PROVE  Visited(m, c) \in MemoryRecords
<1>1. mem[m] \in MemoryRecords
  BY DEF TypeOK, BotTyped
<1>2. ClearPosition(mem[m]) \in MemoryRecords
  BY <1>1, VisitTyped
<1>3. HasPosition(m) \in BOOLEAN
  BY DEF HasPosition
<1> QED
  BY <1>1, <1>2, <1>3, VisitTyped, Zenon DEF Visited

LEMMA BaseTyped ==
  ASSUME TypeOK, NEW m \in Markets
  PROVE  BaseFree(m) \in Nat
BY DEF TypeOK, BotTyped, ExchangeTyped, BaseFree

LEMMA WaitTyped ==
  ASSUME TypeOK, NEW m \in Markets, Wait(m)
  PROVE  TypeOK'
<1>1. BotTyped'
  <2>1. mem' \in [Markets -> MemoryRecords]
    BY VisitedTyped DEF Wait, TypeOK, BotTyped
  <2>2. at' \in 0..MarketCount
    BY NextMarketTyped DEF Wait, TypeOK
  <2>3. up' \in BOOLEAN /\ loaded' \in BOOLEAN
    BY Zenon DEF Wait, TypeOK, BotTyped
  <2>4. snap' \in [Markets -> Nat] /\ pnl' \in Int /\ order' \in OrderRecords
    BY DEF Wait, TypeOK, BotTyped
  <2> QED
    BY <2>1, <2>2, <2>3, <2>4 DEF BotTyped
<1> QED
  BY <1>1, UnchangedTyped DEF TypeOK, Wait

LEMMA SubmitBuyTyped ==
  ASSUME TypeOK, NEW m \in Markets, SubmitBuy(m)
  PROVE  TypeOK'
<1>1. BotTyped'
  <2>1. mem' \in [Markets -> MemoryRecords]
    BY VisitedTyped DEF SubmitBuy, TypeOK, BotTyped
  <2>2. order' \in OrderRecords
    <3>1. order' = [NoOrder EXCEPT !.stage = "sent", !.market = m,
                                   !.base = BaseFree(m), !.id = bought]
      BY DEF SubmitBuy
    <3>2. bought \in BuyIds
      BY BotAssumption DEF SubmitBuy, TypeOK, ObserversTyped, BuyIds
    <3> QED
      BY <3>1, <3>2, BaseTyped, NoOrderTyped DEF OrderRecords
  <2>3. up' \in BOOLEAN /\ loaded' \in BOOLEAN
    BY Zenon DEF SubmitBuy, TypeOK, BotTyped
  <2>4. snap' \in [Markets -> Nat] /\ pnl' \in Int /\ at' \in 0..MarketCount
    BY DEF SubmitBuy, TypeOK, BotTyped
  <2> QED
    BY <2>1, <2>2, <2>3, <2>4 DEF BotTyped
<1>2. ObserversTyped'
  BY BotAssumption DEF SubmitBuy, TypeOK, ObserversTyped, readings
<1> QED
  BY <1>1, <1>2, UnchangedTyped DEF TypeOK, SubmitBuy

\* A planned sell is of an amount the visit believes to own.
LEMMA SellPlanTyped ==
  ASSUME TypeOK, NEW m \in Markets, NEW T \in Signals(m), T # {}
  PROVE  /\ SellPlan(m, T).qty \in Nat
         /\ SellPlan(m, T).qty <= BaseFree(m)
         /\ SellPlan(m, T).reason \in Reasons
<1>1. T \in SUBSET Triggers
  BY BotAssumption DEF Signals
<1>2. mem[m].tpDone \in BOOLEAN /\ mem[m].slDone \in BOOLEAN
  BY DEF TypeOK, BotTyped, MemoryRecords
<1> QED
  BY <1>1, <1>2, BaseTyped, SellOrdersAreCovered DEF SellPlan

LEMMA SubmitSellTyped ==
  ASSUME TypeOK, NEW m \in Markets, SubmitSell(m)
  PROVE  TypeOK'
<1>1. BotTyped'
  <2>1. mem' \in [Markets -> MemoryRecords]
    BY VisitedTyped DEF SubmitSell, TypeOK, BotTyped
  <2>2. order' \in OrderRecords
    <3>1. PICK T \in Signals(m) :
            /\ WantsSell(m, T)
            /\ order' = [stage |-> "sent", side |-> "sell", market |-> m,
                         base |-> BaseFree(m), id |-> 0, qty |-> SellPlan(m, T).qty,
                         reason |-> SellPlan(m, T).reason, gross |-> 0]
      BY DEF SubmitSell
    <3>2. T # {}
      BY <3>1 DEF WantsSell, ExitReady
    <3>3. SellPlan(m, T).qty \in Nat /\ SellPlan(m, T).reason \in Reasons
      BY <3>2, SellPlanTyped
    <3>4. 0 \in BuyIds
      BY BotAssumption DEF BuyIds
    <3> QED
      BY <3>1, <3>3, <3>4, BaseTyped DEF OrderRecords
  <2>3. up' \in BOOLEAN /\ loaded' \in BOOLEAN
    BY Zenon DEF SubmitSell, TypeOK, BotTyped
  <2>4. snap' \in [Markets -> Nat] /\ pnl' \in Int /\ at' \in 0..MarketCount
    BY DEF SubmitSell, TypeOK, BotTyped
  <2> QED
    BY <2>1, <2>2, <2>3, <2>4 DEF BotTyped
<1> QED
  BY <1>1, UnchangedTyped DEF TypeOK, SubmitSell

-----------------------------------------------------------------------------
(* The exchange *)

LEMMA ExecuteTyped ==
  ASSUME ExchangeTyped, NEW m \in Markets
  PROVE  /\ \A id \in BuyIds : ExecuteBuy(m, id) =>
              held' \in [Markets -> Nat] /\ lots' \in [Markets -> SUBSET BuyIds]
         /\ \A qty \in Nat : Covered(m, qty) /\ ExecuteSell(m, qty) =>
              held' \in [Markets -> Nat] /\ lots' \in [Markets -> SUBSET BuyIds]
<1>1. ASSUME NEW id \in BuyIds, ExecuteBuy(m, id)
      PROVE  held' \in [Markets -> Nat] /\ lots' \in [Markets -> SUBSET BuyIds]
  <2>1. PICK q \in BuyFills :
          /\ held' = [held EXCEPT ![m] = @ + q]
          /\ lots' = [lots EXCEPT ![m] = OwnedLots(held[m] + q, @ \cup {id})]
    BY <1>1 DEF ExecuteBuy
  <2>2. q \in Nat
    BY BotAssumption
  <2>3. held' \in [Markets -> Nat]
    BY <2>1, <2>2 DEF ExchangeTyped
  <2>4. OwnedLots(held[m] + q, lots[m] \cup {id}) \in SUBSET BuyIds
    BY DEF ExchangeTyped, OwnedLots
  <2> QED
    BY <2>1, <2>3, <2>4 DEF ExchangeTyped
<1>2. ASSUME NEW qty \in Nat, Covered(m, qty), ExecuteSell(m, qty)
      PROVE  held' \in [Markets -> Nat] /\ lots' \in [Markets -> SUBSET BuyIds]
  <2>1. held' \in [Markets -> Nat]
    BY <1>2 DEF ExchangeTyped, Covered, ExecuteSell
  <2>2. OwnedLots(held[m] - qty, lots[m]) \in SUBSET BuyIds
    BY DEF ExchangeTyped, OwnedLots
  <2> QED
    BY <1>2, <2>1, <2>2 DEF ExchangeTyped, ExecuteSell
<1> QED
  BY <1>1, <1>2

LEMMA OrderFieldsTyped ==
  ASSUME TypeOK
  PROVE  /\ order.market \in Markets /\ order.id \in BuyIds
         /\ order.base \in Nat /\ order.qty \in Nat /\ order.gross \in Int
         /\ order.reason \in Reasons \cup {"entry"}
BY DEF TypeOK, BotTyped, OrderRecords

LEMMA ExchangeFillsTyped ==
  ASSUME TypeOK, ExchangeFills
  PROVE  TypeOK'
<1>1. BotTyped'
  <2>1. order' \in OrderRecords
    BY DEF ExchangeFills, TypeOK, BotTyped, OrderRecords
  <2>2. up' \in BOOLEAN /\ loaded' \in BOOLEAN
    BY Zenon DEF ExchangeFills, TypeOK, BotTyped
  <2>3. /\ snap' \in [Markets -> Nat] /\ pnl' \in Int /\ at' \in 0..MarketCount
        /\ mem' \in [Markets -> MemoryRecords]
    BY DEF ExchangeFills, TypeOK, BotTyped
  <2> QED
    BY <2>1, <2>2, <2>3 DEF BotTyped
<1>2. ExchangeTyped'
  <2>1. ExchangeTyped
    BY DEF TypeOK
  <2>2. \/ ExecuteBuy(order.market, order.id)
        \/ Covered(order.market, order.qty) /\ ExecuteSell(order.market, order.qty)
    BY DEF ExchangeFills
  <2>3. held' \in [Markets -> Nat] /\ lots' \in [Markets -> SUBSET BuyIds]
    BY <2>1, <2>2, OrderFieldsTyped, ExecuteTyped
  <2>4. UNCHANGED <<lateBuys, lateSells>>
    BY DEF ExchangeFills
  <2> QED
    BY <2>1, <2>3, <2>4 DEF ExchangeTyped
<1>3. ObserversTyped'
  <2>1. order.market \in Markets
    BY OrderFieldsTyped
  <2>2. cut' \subseteq Markets /\ misread' \subseteq Markets
    BY <2>1 DEF ExchangeFills, Observed, readings, TypeOK, ObserversTyped
  <2> QED
    BY <2>2 DEF ExchangeFills, TypeOK, ObserversTyped
<1> QED
  BY <1>1, <1>2, <1>3, UnchangedTyped DEF TypeOK, ExchangeFills

LEMMA LateFillsTyped ==
  ASSUME TypeOK, NEW m \in Markets, LateBuyFills(m) \/ LateSellFills(m)
  PROVE  TypeOK'
<1>1. ExchangeTyped
  BY DEF TypeOK
<1>2. ExchangeTyped'
  <2>1. CASE LateBuyFills(m)
    <3>1. PICK id \in lateBuys[m] :
            ExecuteBuy(m, id) /\ lateBuys' = [lateBuys EXCEPT ![m] = @ \ {id}]
      BY <2>1 DEF LateBuyFills
    <3>2. id \in BuyIds
      BY <1>1 DEF ExchangeTyped
    <3>3. held' \in [Markets -> Nat] /\ lots' \in [Markets -> SUBSET BuyIds]
      BY <1>1, <3>1, <3>2, ExecuteTyped
    <3>4. lateBuys' \in [Markets -> SUBSET BuyIds]
      BY <1>1, <3>1 DEF ExchangeTyped
    <3>5. UNCHANGED lateSells
      BY <2>1 DEF LateBuyFills
    <3> QED
      BY <1>1, <3>3, <3>4, <3>5 DEF ExchangeTyped
  <2>2. CASE LateSellFills(m)
    <3>1. lateSells[m] \in Nat
      BY <1>1 DEF ExchangeTyped
    <3>2. \/ Covered(m, lateSells[m]) /\ ExecuteSell(m, lateSells[m])
          \/ UNCHANGED <<held, lots>>
      BY <2>2 DEF LateSellFills
    <3>3. held' \in [Markets -> Nat] /\ lots' \in [Markets -> SUBSET BuyIds]
      <4>1. CASE Covered(m, lateSells[m]) /\ ExecuteSell(m, lateSells[m])
        BY <1>1, <3>1, <4>1, ExecuteTyped
      <4>2. CASE UNCHANGED <<held, lots>>
        BY <1>1, <4>2 DEF ExchangeTyped
      <4> QED
        BY <3>2, <4>1, <4>2
    <3>4. lateSells' \in [Markets -> Nat] /\ UNCHANGED lateBuys
      BY <1>1, <2>2 DEF LateSellFills, ExchangeTyped
    <3> QED
      BY <1>1, <3>3, <3>4 DEF ExchangeTyped
  <2> QED
    BY <2>1, <2>2
<1>3. BotTyped' /\ HistoryTyped' /\ ObserversTyped'
  BY UnchangedTyped DEF TypeOK, LateBuyFills, LateSellFills
<1> QED
  BY <1>2, <1>3 DEF TypeOK, LateBuyFills, LateSellFills

-----------------------------------------------------------------------------
(* The bot's side of an order *)

LEMMA GiveUpTyped ==
  ASSUME TypeOK, GiveUp
  PROVE  BotTyped'
<1>1. at' \in 0..MarketCount
  BY NextMarketTyped DEF GiveUp, TypeOK
<1>2. order' \in OrderRecords
  BY NoOrderTyped DEF GiveUp
<1>3. up' \in BOOLEAN /\ loaded' \in BOOLEAN
  BY Zenon DEF GiveUp, TypeOK, BotTyped
<1>4. /\ snap' \in [Markets -> Nat] /\ pnl' \in Int
      /\ mem' \in [Markets -> MemoryRecords]
  BY DEF GiveUp, TypeOK, BotTyped
<1> QED
  BY <1>1, <1>2, <1>3, <1>4 DEF BotTyped

\* Counting one more disturbance of the order's symbol
LEMMA CountTyped ==
  ASSUME NEW f \in [Markets -> Nat], NEW m \in Markets
  PROVE  [f EXCEPT ![m] = @ + 1] \in [Markets -> Nat]
OBVIOUS

LEMMA PostponeTyped ==
  ASSUME TypeOK, Postpone(order)
  PROVE  /\ lates' \in [Markets -> Nat]
         /\ lateBuys' \in [Markets -> SUBSET BuyIds]
         /\ lateSells' \in [Markets -> Nat]
<1>1. lates' \in [Markets -> Nat]
  BY OrderFieldsTyped, CountTyped DEF Postpone, TypeOK, ObserversTyped
<1>2. lateBuys' \in [Markets -> SUBSET BuyIds]
  BY OrderFieldsTyped DEF Postpone, TypeOK, ExchangeTyped
<1>3. lateSells' \in [Markets -> Nat]
  BY OrderFieldsTyped DEF Postpone, TypeOK, ExchangeTyped
<1> QED
  BY <1>1, <1>2, <1>3

LEMMA AbandonedTyped ==
  ASSUME TypeOK, Rejected \/ ResponseLost \/ TimesOut \/ BookkeepingFails
  PROVE  TypeOK'
<1>1. BotTyped'
  BY GiveUpTyped DEF Rejected, ResponseLost, TimesOut, BookkeepingFails
<1>2. faults' \in Nat
  BY FaultTyped DEF TypeOK, Rejected, ResponseLost, TimesOut, BookkeepingFails
<1>3. ExchangeTyped /\ HistoryTyped /\ ObserversTyped
  BY DEF TypeOK
<1>4. CASE Rejected
  BY <1>1, <1>2, <1>3, <1>4, UnchangedTyped DEF TypeOK, Rejected
<1>5. CASE ResponseLost \/ BookkeepingFails
  <2>1. missed' \in [Markets -> Nat]
    <3>1. missed' = [missed EXCEPT ![order.market] = @ + 1]
      BY <1>5 DEF ResponseLost, BookkeepingFails
    <3> QED
      BY <1>3, <3>1, OrderFieldsTyped, CountTyped DEF ObserversTyped
  <2>2. ObserversTyped'
    BY <1>3, <1>5, <2>1 DEF ResponseLost, BookkeepingFails, ObserversTyped, readings
  <2> QED
    BY <1>1, <1>2, <1>5, <2>2, UnchangedTyped DEF TypeOK, ResponseLost, BookkeepingFails
<1>6. CASE TimesOut
  <2>1. missed' \in [Markets -> Nat]
    BY <1>6, OrderFieldsTyped, CountTyped DEF TimesOut, TypeOK, ObserversTyped
  <2>2. ObserversTyped'
    BY <1>3, <1>6, <2>1, PostponeTyped DEF TimesOut, ObserversTyped, readings
  <2>3. ExchangeTyped'
    BY <1>3, <1>6, PostponeTyped DEF TimesOut, ExchangeTyped
  <2> QED
    BY <1>1, <1>2, <1>6, <2>2, <2>3, UnchangedTyped DEF TypeOK, TimesOut
<1> QED
  BY <1>4, <1>5, <1>6

LEMMA GrossTyped ==
  ASSUME NEW gross \in Gross(order)
  PROVE  gross \in Int
BY BotAssumption DEF Gross

LEMMA ApplyFillTyped ==
  ASSUME TypeOK, NEW gross \in Int, ApplyFill(order, gross)
  PROVE  /\ order' \in OrderRecords /\ pnl' \in Int
         /\ mem' \in [Markets -> MemoryRecords]
<1>1. order' \in OrderRecords
  BY DEF ApplyFill, TypeOK, BotTyped, OrderRecords
<1>2. pnl' \in Int
  BY DEF ApplyFill, TypeOK, BotTyped
<1>3. mem[order.market] \in MemoryRecords
  BY OrderFieldsTyped DEF TypeOK, BotTyped
<1>0. (order.base >= PositionThreshold) \in BOOLEAN
  OBVIOUS
<1>4. /\ ApplyBuyFill(mem[order.market], order.id, order.base >= PositionThreshold)
           \in MemoryRecords
      /\ ApplySellFill(mem[order.market], order.base, order.qty, order.reason)
           \in MemoryRecords
  BY <1>0, <1>3, OrderFieldsTyped, BuyFillTyped, SellFillTyped
<1>5. mem' \in [Markets -> MemoryRecords]
  BY <1>4 DEF ApplyFill, TypeOK, BotTyped
<1> QED
  BY <1>1, <1>2, <1>5

LEMMA AcknowledgedTyped ==
  ASSUME TypeOK, Acknowledged \/ AcknowledgedEarly
  PROVE  TypeOK'
<1>1. PICK gross \in Gross(order) : ApplyFill(order, gross)
  BY DEF Acknowledged, AcknowledgedEarly
<1>2. /\ order' \in OrderRecords /\ pnl' \in Int
      /\ mem' \in [Markets -> MemoryRecords]
  BY <1>1, GrossTyped, ApplyFillTyped
<1>3. snap' \in [Markets -> Nat]
  BY DEF Acknowledged, AcknowledgedEarly, TypeOK, BotTyped, ExchangeTyped
<1>4. at' \in 0..MarketCount
  BY DEF Acknowledged, AcknowledgedEarly, TypeOK, BotTyped
<1>5. up' \in BOOLEAN /\ loaded' \in BOOLEAN
  BY Zenon DEF Acknowledged, AcknowledgedEarly, TypeOK, BotTyped
<1>6. BotTyped'
  BY <1>2, <1>3, <1>4, <1>5 DEF BotTyped
<1>7. faults' \in Nat
  BY FaultTyped DEF Acknowledged, AcknowledgedEarly, TypeOK
<1>8. ExchangeTyped /\ ObserversTyped
  BY DEF TypeOK
<1>9. CASE Acknowledged
  BY <1>6, <1>7, <1>9, UnchangedTyped DEF TypeOK, Acknowledged
<1>10. CASE AcknowledgedEarly
  <2>1. ExchangeTyped'
    BY <1>8, <1>10, PostponeTyped DEF AcknowledgedEarly, ExchangeTyped
  <2>2. ObserversTyped'
    BY <1>8, <1>10, PostponeTyped DEF AcknowledgedEarly, ObserversTyped, readings
  <2> QED
    BY <1>6, <1>7, <1>10, <2>1, <2>2, UnchangedTyped DEF TypeOK, AcknowledgedEarly
<1> QED
  BY <1>9, <1>10

LEMMA RecordTyped ==
  ASSUME TypeOK, Record
  PROVE  TypeOK'
<1> DEFINE m == order.market
<1>1. m \in Markets
  BY OrderFieldsTyped
<1>2. BotTyped'
  <2>1. at' \in 0..MarketCount
    BY NextMarketTyped DEF Record, TypeOK
  <2>2. mem' \in [Markets -> MemoryRecords]
    <3>1. mem[m] \in MemoryRecords /\ ClearPosition(mem[m]) \in MemoryRecords
      BY <1>1, VisitTyped DEF TypeOK, BotTyped
    <3>2. mem' = [mem EXCEPT ![m] = ClearPosition(@)] \/ mem' = mem
      BY DEF Record, AfterRecord
    <3> QED
      BY <3>1, <3>2 DEF TypeOK, BotTyped
  <2>3. order' \in OrderRecords
    BY NoOrderTyped DEF Record
  <2>4. up' \in BOOLEAN /\ loaded' \in BOOLEAN
    BY Zenon DEF Record, TypeOK, BotTyped
  <2>5. snap' \in [Markets -> Nat] /\ pnl' \in Int
    BY DEF Record, TypeOK, BotTyped
  <2> QED
    BY <2>1, <2>2, <2>3, <2>4, <2>5 DEF BotTyped
<1>3. HistoryTyped'
  <2>1. ledger[m] \in LedgerRecords
    BY <1>1 DEF TypeOK, HistoryTyped
  <2>2. ReplayBuy(ledger[m], order.id, BuyAmount) \in LedgerRecords
    BY <2>1, OrderFieldsTyped, BotAssumption, ReplayBuyTyped
  <2>3. ReplaySell(ledger[m], SellRecord(order)) \in LedgerRecords
    BY <2>1, OrderFieldsTyped, ReplaySellTyped DEF SellRecord
  <2>4. ledger' \in [Markets -> LedgerRecords]
    <3>1. \/ ledger' = [ledger EXCEPT ![m] = ReplayBuy(@, order.id, BuyAmount)]
          \/ ledger' = [ledger EXCEPT ![m] = ReplaySell(@, SellRecord(order))]
      BY DEF Record
    <3> QED
      BY <2>2, <2>3, <3>1 DEF TypeOK, HistoryTyped
  <2>5. today' \in [gross : Int, net : Int]
    BY OrderFieldsTyped, BotAssumption DEF Record, TypeOK, HistoryTyped
  <2> QED
    BY <2>4, <2>5 DEF HistoryTyped
<1>4. ObserversTyped'
  <2>1. /\ recorded[m].clocks \in ClockRecords
        /\ recorded[m].parts \in SUBSET PartialReasons
    BY <1>1 DEF TypeOK, ObserversTyped
  <2> DEFINE partial == order.reason \in PartialReasons /\ ~Cleared(order.base, order.qty)
             clocks == SellClocks(recorded[m].clocks, order.reason,
                                  partial /\ order.reason = "partial_take_profit")
             parts == IF held[m] < PositionThreshold THEN {}
                      ELSE IF partial THEN recorded[m].parts \cup {order.reason}
                      ELSE recorded[m].parts
  <2>2. clocks \in ClockRecords
    BY <2>1, ClocksTyped
  <2>3. parts \in SUBSET PartialReasons
    BY <2>1
  <2>4. Observe(recorded[m], order) = [clocks |-> clocks, parts |-> parts]
    BY DEF Observe
  <2>5. recorded' = [recorded EXCEPT ![m] = Observe(@, order)]
    BY DEF Record
  <2> HIDE DEF clocks, parts
  <2>6. Observe(recorded[m], order)
          \in [clocks : ClockRecords, parts : SUBSET PartialReasons]
    BY <2>2, <2>3, <2>4
  <2>7. recorded' \in [Markets -> [clocks : ClockRecords, parts : SUBSET PartialReasons]]
    BY <2>5, <2>6 DEF TypeOK, ObserversTyped
  <2> QED
    BY <2>7 DEF Record, TypeOK, ObserversTyped, readings
<1>5. ExchangeTyped'
  BY UnchangedTyped DEF TypeOK, Record
<1>6. faults' \in Nat
  BY FaultTyped DEF Record, TypeOK
<1> QED
  BY <1>2, <1>3, <1>4, <1>5, <1>6 DEF TypeOK, Record

-----------------------------------------------------------------------------
(* Crashes, restarts, time and prices *)

LEMMA CrashTyped ==
  ASSUME TypeOK, Crash
  PROVE  TypeOK'
<1>1. BotTyped'
  <2>1. mem' \in [Markets -> MemoryRecords] /\ order' \in OrderRecords
    BY BlankTyped, NoOrderTyped DEF Crash
  <2>2. up' \in BOOLEAN /\ loaded' \in BOOLEAN
    BY Zenon DEF Crash
  <2>3. snap' \in [Markets -> Nat] /\ pnl' \in Int /\ at' \in 0..MarketCount
    BY BotAssumption DEF Crash
  <2> QED
    BY <2>1, <2>2, <2>3 DEF BotTyped
<1>2. /\ lates' \in [Markets -> Nat] /\ missed' \in [Markets -> Nat]
      /\ ExchangeTyped'
  <2>1. CASE UNCHANGED <<exchange, missed, lates>>
    BY <2>1, UnchangedTyped DEF TypeOK, ObserversTyped
  <2>2. CASE /\ missed' = [missed EXCEPT ![order.market] = @ + 1]
             /\ UNCHANGED <<exchange, lates>>
    BY <2>2, UnchangedTyped, OrderFieldsTyped, CountTyped DEF TypeOK, ObserversTyped
  <2>3. CASE /\ missed' = [missed EXCEPT ![order.market] = @ + 1]
             /\ Postpone(order)
             /\ UNCHANGED <<held, lots>>
    <3>1. ExchangeTyped'
      BY <2>3, PostponeTyped DEF TypeOK, ExchangeTyped
    <3> QED
      BY <2>3, <3>1, PostponeTyped, OrderFieldsTyped, CountTyped
         DEF TypeOK, ObserversTyped
  <2> QED
    BY <2>1, <2>2, <2>3 DEF Crash
<1>3. ObserversTyped'
  BY <1>2 DEF Crash, TypeOK, ObserversTyped, readings
<1>4. HistoryTyped' /\ faults' \in Nat
  BY UnchangedTyped, FaultTyped DEF Crash, TypeOK
<1> QED
  BY <1>1, <1>2, <1>3, <1>4 DEF TypeOK, Crash

LEMMA StartTyped ==
  ASSUME TypeOK, Start
  PROVE  TypeOK'
<1>1. BotTyped'
  <2>1. mem' \in [Markets -> MemoryRecords]
    BY RecoveredTyped DEF Start, TypeOK, HistoryTyped
  <2>2. up' \in BOOLEAN /\ loaded' \in BOOLEAN
    BY Zenon DEF Start, TypeOK, BotTyped
  <2>3. pnl' \in Int
    BY DEF Start, TypeOK, HistoryTyped
  <2>4. snap' \in [Markets -> Nat] /\ at' \in 0..MarketCount /\ order' \in OrderRecords
    BY DEF Start, TypeOK, BotTyped
  <2> QED
    BY <2>1, <2>2, <2>3, <2>4 DEF BotTyped
<1>2. ExchangeTyped' /\ HistoryTyped'
  BY UnchangedTyped DEF TypeOK, Start
<1>3. ObserversTyped'
  BY DEF TypeOK, ObserversTyped, Start
<1> QED
  BY <1>1, <1>2, <1>3 DEF TypeOK, Start

LEMMA TickTyped ==
  ASSUME TypeOK, Tick
  PROVE  TypeOK'
<1>1. BotTyped'
  <2>1. mem' \in [Markets -> MemoryRecords]
    BY AgingTyped DEF Tick, TypeOK, BotTyped
  <2>2. up' \in BOOLEAN /\ loaded' \in BOOLEAN
    BY Zenon DEF Tick, TypeOK, BotTyped
  <2>3. /\ snap' \in [Markets -> Nat] /\ at' \in 0..MarketCount
        /\ order' \in OrderRecords /\ pnl' \in Int
    BY DEF Tick, TypeOK, BotTyped
  <2> QED
    BY <2>1, <2>2, <2>3 DEF BotTyped
<1>2. HistoryTyped'
  <2>1. ledger' \in [Markets -> LedgerRecords]
    BY AgingTyped DEF Tick, TypeOK, HistoryTyped
  <2> QED
    BY <2>1 DEF Tick, TypeOK, HistoryTyped
<1>3. ObserversTyped'
  <2> DEFINE Marks == [clocks : ClockRecords, parts : SUBSET PartialReasons]
  <2>1. ASSUME NEW r \in Marks
        PROVE  [r EXCEPT !.clocks = OlderClocks(@)] \in Marks
    BY ClocksTyped
  <2>2. recorded' \in [Markets -> Marks]
    BY <2>1 DEF Tick, TypeOK, ObserversTyped
  <2> QED
    BY <2>2 DEF Tick, TypeOK, ObserversTyped, readings
<1>4. ExchangeTyped'
  BY UnchangedTyped DEF TypeOK, Tick
<1> QED
  BY <1>1, <1>2, <1>3, <1>4 DEF TypeOK, Tick

LEMMA OutsideTyped ==
  ASSUME TypeOK, NewDay \/ \E m \in Markets : PriceTurns(m)
  PROVE  TypeOK'
<1>1. CASE NewDay
  <2>1. HistoryTyped'
    BY <1>1 DEF NewDay, TypeOK, HistoryTyped
  <2> QED
    BY <1>1, <2>1, UnchangedTyped DEF NewDay, TypeOK
<1>2. ASSUME NEW m \in Markets, PriceTurns(m) PROVE TypeOK'
  <2>1. falling' \in [Markets -> BOOLEAN]
    BY <1>2 DEF PriceTurns, TypeOK
  <2> QED
    BY <1>2, <2>1, UnchangedTyped DEF PriceTurns, TypeOK
<1> QED
  BY <1>1, <1>2

-----------------------------------------------------------------------------
LEMMA NextTyped == TypeOK /\ [Next]_vars => TypeOK'
<1> SUFFICES ASSUME TypeOK, [Next]_vars PROVE TypeOK'
  OBVIOUS
<1>1. CASE Thread
  <2>1. CASE \E m \in Markets : Visit(m)
    BY <2>1, PassTyped, WaitTyped, SubmitBuyTyped, SubmitSellTyped DEF Visit
  <2>2. CASE FinishOrder
    BY <2>2, AbandonedTyped, AcknowledgedTyped, RecordTyped DEF FinishOrder
  <2> QED
    BY <1>1, <2>1, <2>2, PassTyped DEF Thread
<1>2. CASE Environment
  BY <1>2, ExchangeFillsTyped, LateFillsTyped, OutsideTyped, CrashTyped, StartTyped,
     TickTyped DEF Environment
<1>3. CASE UNCHANGED vars
  BY <1>3, UnchangedTyped DEF vars, TypeOK
<1> QED
  BY <1>1, <1>2, <1>3 DEF Next

\* Every variable of the bot, the exchange, the history and the observers keeps
\* its type, across every fault and restart: amounts never become negative, open
\* legs of the replay end within its remainder.
THEOREM TypeCorrect == Spec => []TypeOK
<1>1. Init => TypeOK
  BY InitTyped
<1>2. TypeOK /\ [Next]_vars => TypeOK'
  BY NextTyped
<1> QED
  BY <1>1, <1>2, PTL DEF Spec

-----------------------------------------------------------------------------
(* Why the bot never doubles a position and never sells what it does not   *)
(* have.  The balances the bot decides on were read at the start of the    *)
(* pass, or after the last fill of the pass, and other orders change the   *)
(* account meanwhile; ViewsHold says what they are still worth when the    *)
(* symbol's turn comes.                                                    *)

\* A symbol the current pass has not decided about yet
Ahead(m) == at > 0 /\ (m > at \/ (m = at /\ order.stage = "none"))

Pending(m) ==
  IF order.stage = "sent" /\ order.side = "buy" /\ order.market = m THEN 1 ELSE 0

\* An order belongs to the symbol being visited.
OrderIsVisited ==
  /\ at > 0 => up
  /\ order.stage # "none" => at > 0 /\ order.market = at

DustIsNoLot(m) == held[m] < PositionThreshold => lots[m] = {}

LateOrdersCounted(m) ==
  /\ Cardinality(lateBuys[m]) <= lates[m]
  /\ lates[m] = 0 => lateSells[m] = 0

\* What the account shows or will show is bounded by the orders sent.
LotsBounded(m) ==
  Cardinality(lots[m]) + Cardinality(lateBuys[m]) + Pending(m) <= 1 + lates[m]

\* A snapshot without a position leaves room for a buy; a snapshot promises no
\* coins that are gone.
SnapshotHolds(m) ==
  Ahead(m) /\ loaded =>
    /\ snap[m] < PositionThreshold
         => Cardinality(lots[m]) + Cardinality(lateBuys[m]) <= lates[m]
    /\ lates[m] = 0 => snap[m] = held[m]

SellCovered(m) ==
  order.stage = "sent" /\ order.side = "sell" /\ order.market = m /\ lates[m] = 0
    => order.qty <= held[m]

View(m) ==
  /\ DustIsNoLot(m) /\ LateOrdersCounted(m) /\ LotsBounded(m)
  /\ SnapshotHolds(m) /\ SellCovered(m)

ViewsHold == OrderIsVisited /\ \A m \in Markets : View(m)

-----------------------------------------------------------------------------
(* Counting buys *)

LEMMA BuysAreFinite ==
  ASSUME NEW S \in SUBSET BuyIds
  PROVE  IsFiniteSet(S) /\ Cardinality(S) \in Nat
<1>1. IsFiniteSet(BuyIds)
  BY BotAssumption, FS_Interval DEF BuyIds
<1> QED
  BY <1>1, FS_Subset, FS_CardinalityType

LEMMA CountingBuys ==
  ASSUME NEW S \in SUBSET BuyIds, NEW id \in BuyIds
  PROVE  /\ Cardinality({}) = 0
         /\ Cardinality(S \cup {id}) <= Cardinality(S) + 1
         /\ id \in S => Cardinality(S \ {id}) = Cardinality(S) - 1
         /\ \A R \in SUBSET S : Cardinality(R) <= Cardinality(S)
<1>1. IsFiniteSet(S) /\ Cardinality(S) \in Nat
  BY BuysAreFinite
<1>2. Cardinality({}) = 0
  BY FS_EmptySet
<1>3. Cardinality(S \cup {id}) <= Cardinality(S) + 1
  BY <1>1, FS_AddElement
<1>4. id \in S => Cardinality(S \ {id}) = Cardinality(S) - 1
  BY <1>1, FS_RemoveElement
<1>5. \A R \in SUBSET S : Cardinality(R) <= Cardinality(S)
  BY <1>1, FS_Subset
<1> QED
  BY <1>2, <1>3, <1>4, <1>5

\* What the typing says of one symbol, and of its counts
LEMMA SymbolTyped ==
  ASSUME TypeOK, NEW m \in Markets
  PROVE  /\ held[m] \in Nat /\ snap[m] \in Nat /\ lates[m] \in Nat
         /\ lateSells[m] \in Nat
         /\ lots[m] \in SUBSET BuyIds /\ lateBuys[m] \in SUBSET BuyIds
         /\ Cardinality(lots[m]) \in Nat /\ Cardinality(lateBuys[m]) \in Nat
         /\ at \in 0..MarketCount /\ m \in Nat /\ m > 0
         /\ PositionThreshold \in Nat /\ PositionThreshold > 0
<1>1. /\ held[m] \in Nat /\ snap[m] \in Nat /\ lates[m] \in Nat
      /\ lateSells[m] \in Nat
      /\ lots[m] \in SUBSET BuyIds /\ lateBuys[m] \in SUBSET BuyIds
  BY DEF TypeOK, BotTyped, ExchangeTyped, ObserversTyped
<1>2. Cardinality(lots[m]) \in Nat /\ Cardinality(lateBuys[m]) \in Nat
  BY <1>1, BuysAreFinite
<1>3. at \in 0..MarketCount /\ m \in Nat /\ m > 0
  BY BotAssumption DEF TypeOK, BotTyped, Markets
<1>4. PositionThreshold \in Nat /\ PositionThreshold > 0
  BY ExitAssumption DEF PositionThreshold
<1> QED
  BY <1>1, <1>2, <1>3, <1>4

-----------------------------------------------------------------------------
(* Steps of the bot's thread *)

LEMMA ViewsInit == Init => ViewsHold
<1> SUFFICES ASSUME Init PROVE ViewsHold
  OBVIOUS
<1>1. OrderIsVisited
  BY DEF Init, OrderIsVisited, NoOrder
<1>2. ASSUME NEW m \in Markets PROVE View(m)
  <2>1. Cardinality({}) = 0
    BY FS_EmptySet
  <2>2. lots[m] = {} /\ lateBuys[m] = {} /\ lates[m] = 0 /\ lateSells[m] = 0
    BY DEF Init
  <2>3. at = 0 /\ order.stage = "none"
    BY DEF Init, NoOrder
  <2> QED
    BY <2>1, <2>2, <2>3
       DEF View, DustIsNoLot, LateOrdersCounted, LotsBounded, SnapshotHolds,
           SellCovered, Ahead, Pending
<1> QED
  BY <1>1, <1>2 DEF ViewsHold

\* The symbols after the one just finished were ahead before.
LEMMA ViewsPassOn ==
  ASSUME TypeOK, ViewsHold, up, at > 0,
         at' = NextMarket, order'.stage = "none",
         UNCHANGED <<up, loaded, snap, held, lots, lateBuys, lateSells, lates>>
  PROVE  ViewsHold'
<1>1. OrderIsVisited'
  BY DEF OrderIsVisited
<1>2. ASSUME NEW m \in Markets PROVE View(m)'
  <2>1. View(m)
    BY DEF ViewsHold
  <2>2. Ahead(m)' => Ahead(m)
    BY SymbolTyped DEF Ahead, NextMarket
  <2>3. SnapshotHolds(m)'
    BY <2>1, <2>2 DEF View, SnapshotHolds
  <2>4. LotsBounded(m)'
    BY <2>1, SymbolTyped DEF View, LotsBounded, Pending
  <2>5. DustIsNoLot(m)' /\ LateOrdersCounted(m)' /\ SellCovered(m)'
    BY <2>1 DEF View, DustIsNoLot, LateOrdersCounted, SellCovered
  <2> QED
    BY <2>3, <2>4, <2>5 DEF View
<1> QED
  BY <1>1, <1>2 DEF ViewsHold

\* Steps that touch neither the account nor the pass
LEMMA ViewsFrame ==
  ASSUME ViewsHold, UNCHANGED <<up, at, loaded, snap, order, exchange, lates>>
  PROVE  ViewsHold'
<1>1. OrderIsVisited'
  BY DEF ViewsHold, OrderIsVisited
<1>2. ASSUME NEW m \in Markets PROVE View(m)'
  BY DEF ViewsHold, View, DustIsNoLot, LateOrdersCounted, LotsBounded, SnapshotHolds,
         SellCovered, Ahead, Pending, exchange
<1> QED
  BY <1>1, <1>2 DEF ViewsHold

\* A fresh snapshot is right about every symbol.
LEMMA FreshSnapshot ==
  ASSUME TypeOK, NEW m \in Markets, DustIsNoLot(m), LateOrdersCounted(m)
  PROVE  held[m] < PositionThreshold
           => Cardinality(lots[m]) + Cardinality(lateBuys[m]) <= lates[m]
<1>1. Cardinality({}) = 0
  BY FS_EmptySet
<1>2. held[m] < PositionThreshold => Cardinality(lots[m]) = 0
  BY <1>1 DEF DustIsNoLot
<1> QED
  BY <1>2, SymbolTyped DEF LateOrdersCounted

LEMMA StartPassViews ==
  ASSUME TypeOK, ViewsHold, StartPass
  PROVE  ViewsHold'
<1>1. order.stage = "none"
  BY DEF ViewsHold, OrderIsVisited, StartPass
<1>2. OrderIsVisited'
  BY <1>1 DEF OrderIsVisited, StartPass
<1>3. ASSUME NEW m \in Markets PROVE View(m)'
  <2>1. View(m)
    BY DEF ViewsHold
  <2>2. UNCHANGED <<held, lots, lateBuys, lateSells, lates, order>>
    BY DEF StartPass, exchange, observers
  <2>3. SnapshotHolds(m)'
    <3>1. CASE loaded' = TRUE /\ snap' = held
      <4>1. held[m] < PositionThreshold
              => Cardinality(lots[m]) + Cardinality(lateBuys[m]) <= lates[m]
        BY <2>1, FreshSnapshot DEF View
      <4> QED
        BY <2>2, <3>1, <4>1, SymbolTyped DEF SnapshotHolds
    <3>2. CASE loaded' = FALSE
      BY <3>2 DEF SnapshotHolds
    <3> QED
      BY <3>1, <3>2 DEF StartPass
  <2>4. DustIsNoLot(m)' /\ LateOrdersCounted(m)' /\ LotsBounded(m)' /\ SellCovered(m)'
    BY <2>1, <2>2 DEF View, DustIsNoLot, LateOrdersCounted, LotsBounded, SellCovered,
                      Pending
  <2> QED
    BY <2>3, <2>4 DEF View
<1> QED
  BY <1>2, <1>3 DEF ViewsHold

\* A buy is only submitted for a symbol whose view shows no position.
LEMMA BuysWithoutPosition ==
  ASSUME TypeOK, NEW m \in Markets, SubmitBuy(m)
  PROVE  ~HasPosition(m)
<1>1. EntryTimingReady(Visited(m, TRUE))
  BY DEF SubmitBuy, EntryReady
<1>2. Visited(m, TRUE).confirm >= Confirmations
  BY <1>1 DEF EntryTimingReady
<1> SUFFICES ASSUME HasPosition(m) PROVE FALSE
  OBVIOUS
<1>3. Visited(m, TRUE) = [mem[m] EXCEPT !.confirm = 0]
  BY DEF Visited, UpdateEntryTiming
<1>4. mem[m] \in MemoryRecords
  BY DEF TypeOK, BotTyped
<1>5. Visited(m, TRUE).confirm = 0
  BY <1>3, <1>4 DEF MemoryRecords
<1>6. 0 >= Confirmations
  BY <1>2, <1>5
<1>7. Confirmations \in Nat \ {0}
  BY LifecycleAssumption
<1> QED
  BY <1>6, <1>7

LEMMA SubmitViews ==
  ASSUME TypeOK, ViewsHold, NEW m \in Markets, SubmitBuy(m) \/ SubmitSell(m)
  PROVE  ViewsHold'
<1>1. /\ up /\ at = m /\ order.stage = "none"
      /\ order'.stage = "sent" /\ order'.market = m
      /\ UNCHANGED <<up, at, loaded, snap, held, lots, lateBuys, lateSells, lates>>
  <2>1. CASE SubmitBuy(m)
    BY <2>1 DEF SubmitBuy, Visiting, NoOrder, exchange
  <2>2. CASE SubmitSell(m)
    BY <2>2 DEF SubmitSell, Visiting, exchange, observers
  <2> QED
    BY <2>1, <2>2
<1>2. OrderIsVisited'
  BY <1>1, SymbolTyped DEF OrderIsVisited
<1>3. ASSUME NEW n \in Markets PROVE View(n)'
  <2>1. View(n) /\ View(m)
    BY DEF ViewsHold
  <2>2. SnapshotHolds(n)'
    <3>1. Ahead(n)' => Ahead(n)
      BY <1>1 DEF Ahead
    <3> QED
      BY <1>1, <2>1, <3>1 DEF View, SnapshotHolds
  <2>3. DustIsNoLot(n)' /\ LateOrdersCounted(n)'
    BY <1>1, <2>1 DEF View, DustIsNoLot, LateOrdersCounted
  <2>4. Ahead(m)
    BY <1>1, SymbolTyped DEF Ahead
  <2>5. LotsBounded(n)'
    <3>1. CASE n = m /\ SubmitBuy(m)
      <4>1. BaseFree(m) < PositionThreshold
        BY <3>1, BuysWithoutPosition, BaseTyped, SymbolTyped DEF HasPosition
      <4>2. Cardinality(lots[m]) + Cardinality(lateBuys[m]) <= lates[m]
        <5>1. CASE loaded
          BY <2>1, <2>4, <4>1, <5>1 DEF View, SnapshotHolds, BaseFree
        <5>2. CASE ~loaded
          BY <2>1, <4>1, <5>2, FreshSnapshot DEF View, BaseFree
        <5> QED
          BY <5>1, <5>2
      <4> QED
        BY <1>1, <3>1, <4>2, SymbolTyped DEF LotsBounded, Pending
    <3>2. CASE n # m \/ SubmitSell(m)
      <4>1. ~(order'.side = "buy" /\ order'.market = n)
        BY <1>1, <3>2 DEF SubmitSell
      <4>2. Cardinality(lots[n]) + Cardinality(lateBuys[n]) <= 1 + lates[n]
        BY <2>1, SymbolTyped DEF View, LotsBounded, Pending
      <4> QED
        BY <1>1, <4>1, <4>2, SymbolTyped DEF LotsBounded, Pending
    <3> QED
      BY <1>1, <3>1, <3>2
  <2>6. SellCovered(n)'
    <3>1. CASE n = m /\ SubmitSell(m)
      <4>1. PICK T \in Signals(m) :
              WantsSell(m, T) /\ order'.qty = SellPlan(m, T).qty
        BY <3>1 DEF SubmitSell
      <4>2. order'.qty \in Nat /\ order'.qty <= BaseFree(m)
        BY <4>1, SellPlanTyped DEF WantsSell, ExitReady
      <4>3. lates[m] = 0 => BaseFree(m) <= held[m]
        BY <2>1, <2>4, SymbolTyped DEF View, SnapshotHolds, BaseFree
      <4> QED
        BY <1>1, <3>1, <4>2, <4>3, BaseTyped, SymbolTyped DEF SellCovered
    <3>2. CASE n # m \/ SubmitBuy(m)
      BY <1>1, <3>2 DEF SellCovered, SubmitBuy, NoOrder
    <3> QED
      BY <3>1, <3>2
  <2> QED
    BY <2>2, <2>3, <2>5, <2>6 DEF View
<1> QED
  BY <1>2, <1>3 DEF ViewsHold

-----------------------------------------------------------------------------
(* Steps of the exchange *)

\* A buy adds one lot to one symbol and a sell none.
LEMMA ExecutionCounted ==
  ASSUME TypeOK, NEW m \in Markets
  PROVE  /\ \A id \in BuyIds : ExecuteBuy(m, id) =>
              /\ Cardinality(lots'[m]) <= Cardinality(lots[m]) + 1
              /\ held'[m] >= held[m]
              /\ DustIsNoLot(m)'
              /\ \A n \in Markets \ {m} : held'[n] = held[n] /\ lots'[n] = lots[n]
         /\ \A qty \in Nat : Covered(m, qty) /\ ExecuteSell(m, qty) =>
              /\ Cardinality(lots'[m]) <= Cardinality(lots[m])
              /\ DustIsNoLot(m)'
              /\ \A n \in Markets \ {m} : held'[n] = held[n] /\ lots'[n] = lots[n]
<1>1. held \in [Markets -> Nat] /\ lots \in [Markets -> SUBSET BuyIds]
  BY DEF TypeOK, ExchangeTyped
<1>2. ASSUME NEW id \in BuyIds, ExecuteBuy(m, id)
      PROVE  /\ Cardinality(lots'[m]) <= Cardinality(lots[m]) + 1
             /\ held'[m] >= held[m]
             /\ DustIsNoLot(m)'
             /\ \A n \in Markets \ {m} : held'[n] = held[n] /\ lots'[n] = lots[n]
  <2>1. PICK q \in BuyFills :
          /\ held' = [held EXCEPT ![m] = @ + q]
          /\ lots' = [lots EXCEPT ![m] = OwnedLots(held[m] + q, @ \cup {id})]
    BY <1>2 DEF ExecuteBuy
  <2>2. held'[m] = held[m] + q /\ q \in Nat
    BY <1>1, <2>1, BotAssumption
  <2>3. lots'[m] = OwnedLots(held'[m], lots[m] \cup {id})
    BY <1>1, <2>1, <2>2
  <2>4. lots'[m] = lots[m] \cup {id} \/ lots'[m] = {}
    BY <2>3 DEF OwnedLots
  <2>5. Cardinality(lots'[m]) <= Cardinality(lots[m]) + 1
    <3>1. CASE lots'[m] = lots[m] \cup {id}
      BY <3>1, SymbolTyped, CountingBuys
    <3>2. CASE lots'[m] = {}
      <4>1. Cardinality(lots'[m]) = 0
        BY <3>2, FS_EmptySet
      <4> QED
        BY <4>1, SymbolTyped
    <3> QED
      BY <2>4, <3>1, <3>2
  <2>6. DustIsNoLot(m)'
    BY <2>3, <2>2, SymbolTyped DEF DustIsNoLot, OwnedLots
  <2>7. \A n \in Markets \ {m} : held'[n] = held[n] /\ lots'[n] = lots[n]
    BY <1>1, <2>1
  <2> QED
    BY <2>2, <2>5, <2>6, <2>7, SymbolTyped
<1>3. ASSUME NEW qty \in Nat, Covered(m, qty), ExecuteSell(m, qty)
      PROVE  /\ Cardinality(lots'[m]) <= Cardinality(lots[m])
             /\ DustIsNoLot(m)'
             /\ \A n \in Markets \ {m} : held'[n] = held[n] /\ lots'[n] = lots[n]
  <2>1. held'[m] = held[m] - qty /\ held'[m] \in Nat
    BY <1>1, <1>3 DEF ExecuteSell, Covered
  <2>2. lots'[m] = OwnedLots(held'[m], lots[m])
    BY <1>1, <1>3, <2>1 DEF ExecuteSell
  <2>3. lots'[m] \in SUBSET lots[m]
    BY <2>2 DEF OwnedLots
  <2>4. Cardinality(lots'[m]) <= Cardinality(lots[m])
    <3>1. 0 \in BuyIds
      BY BotAssumption DEF BuyIds
    <3> QED
      BY <2>3, <3>1, SymbolTyped, CountingBuys
  <2>5. DustIsNoLot(m)'
    BY <2>1, <2>2, SymbolTyped DEF DustIsNoLot, OwnedLots
  <2>6. \A n \in Markets \ {m} : held'[n] = held[n] /\ lots'[n] = lots[n]
    BY <1>1, <1>3 DEF ExecuteSell
  <2> QED
    BY <2>4, <2>5, <2>6
<1> QED
  BY <1>2, <1>3

LEMMA ExchangeFillsViews ==
  ASSUME TypeOK, ViewsHold, ExchangeFills
  PROVE  ViewsHold'
<1> DEFINE m == order.market
<1>1. /\ m \in Markets /\ order.id \in BuyIds /\ order.qty \in Nat
      /\ order.stage = "sent" /\ order.side \in {"buy", "sell"}
  BY OrderFieldsTyped DEF ExchangeFills, TypeOK, BotTyped, OrderRecords
<1>2. UNCHANGED <<up, at, loaded, snap, lateBuys, lateSells, lates>>
  BY DEF ExchangeFills, observers
<1>3. order'.stage = "filled" /\ order'.market = m
  BY DEF ExchangeFills, TypeOK, BotTyped, OrderRecords
<1>4. at > 0 /\ m = at /\ up
  BY <1>1 DEF ViewsHold, OrderIsVisited
<1>5. OrderIsVisited'
  BY <1>2, <1>3, <1>4 DEF OrderIsVisited
<1>6. /\ Cardinality(lots'[m]) <= Cardinality(lots[m]) + Pending(m)
      /\ held'[m] < PositionThreshold => lots'[m] = {}
      /\ \A n \in Markets \ {m} : held'[n] = held[n] /\ lots'[n] = lots[n]
  <2>1. CASE order.side = "buy"
    BY <1>1, <2>1, ExecutionCounted
       DEF ExchangeFills, Pending, DustIsNoLot
  <2>2. CASE order.side = "sell"
    BY <1>1, <2>2, ExecutionCounted, SymbolTyped
       DEF ExchangeFills, Pending, DustIsNoLot
  <2> QED
    BY <1>1, <2>1, <2>2
<1>7. ASSUME NEW n \in Markets PROVE View(n)'
  <2>1. View(n)
    BY DEF ViewsHold
  <2>2. SellCovered(n)'
    BY <1>3 DEF SellCovered
  <2>3. Pending(n)' = 0
    BY <1>3 DEF Pending
  <2>4. CASE n = m
    <3>1. ~Ahead(n)'
      BY <1>2, <1>3, <1>4, <2>4, SymbolTyped DEF Ahead
    <3>2. SnapshotHolds(n)'
      BY <3>1 DEF SnapshotHolds
    <3>3. LateOrdersCounted(n)'
      BY <1>2, <2>1 DEF View, LateOrdersCounted
    <3>4. Cardinality(lots'[n]) \in Nat
      <4>1. lots'[n] \in SUBSET BuyIds
        BY ExchangeFillsTyped DEF TypeOK, ExchangeTyped
      <4> QED
        BY <4>1, BuysAreFinite
    <3>5. LotsBounded(n)'
      BY <1>2, <1>6, <2>1, <2>3, <2>4, <3>4, SymbolTyped
         DEF View, LotsBounded, Pending
    <3>6. DustIsNoLot(n)'
      BY <1>6, <2>4 DEF DustIsNoLot
    <3> QED
      BY <2>2, <3>2, <3>3, <3>5, <3>6 DEF View
  <2>5. CASE n # m
    <3>1. held'[n] = held[n] /\ lots'[n] = lots[n]
      BY <1>6, <2>5
    <3>2. DustIsNoLot(n)' /\ LateOrdersCounted(n)'
      BY <1>2, <2>1, <3>1 DEF View, DustIsNoLot, LateOrdersCounted
    <3>3. LotsBounded(n)'
      BY <1>2, <2>1, <2>3, <3>1, SymbolTyped DEF View, LotsBounded, Pending
    <3>4. Ahead(n)' => Ahead(n)
      BY <1>2, <1>3 DEF Ahead
    <3>5. SnapshotHolds(n)'
      BY <1>2, <2>1, <3>1, <3>4 DEF View, SnapshotHolds
    <3> QED
      BY <2>2, <3>2, <3>3, <3>5 DEF View
  <2> QED
    BY <2>4, <2>5
<1> QED
  BY <1>5, <1>7 DEF ViewsHold

\* A late order only executes for a symbol that has one.
LEMMA LateFillsCounted ==
  ASSUME TypeOK, NEW m \in Markets, View(m), LateBuyFills(m) \/ LateSellFills(m)
  PROVE  lates[m] # 0
<1> SUFFICES ASSUME lates[m] = 0 PROVE FALSE
  OBVIOUS
<1>1. lateSells[m] = 0 /\ Cardinality(lateBuys[m]) <= 0
  BY DEF View, LateOrdersCounted
<1>2. LateBuyFills(m)
  BY <1>1 DEF LateSellFills
<1>3. PICK id \in lateBuys[m] : TRUE
  BY <1>2 DEF LateBuyFills
<1>4. IsFiniteSet(lateBuys[m]) /\ Cardinality(lateBuys[m]) = 0
  BY <1>1, SymbolTyped, BuysAreFinite
<1>5. lateBuys[m] = {}
  BY <1>4, FS_EmptySet
<1> QED
  BY <1>3, <1>5

LEMMA LateFillsViews ==
  ASSUME TypeOK, ViewsHold, NEW m \in Markets, LateBuyFills(m) \/ LateSellFills(m)
  PROVE  ViewsHold'
<1>1. UNCHANGED <<up, at, loaded, snap, order, lates>>
  BY DEF LateBuyFills, LateSellFills, bot, observers
<1>2. OrderIsVisited'
  BY <1>1 DEF ViewsHold, OrderIsVisited
<1>3. /\ lots'[m] \in SUBSET BuyIds /\ lateBuys'[m] \in SUBSET BuyIds
      /\ Cardinality(lots'[m]) \in Nat /\ Cardinality(lateBuys'[m]) \in Nat
  <2>1. lots'[m] \in SUBSET BuyIds /\ lateBuys'[m] \in SUBSET BuyIds
    BY LateFillsTyped DEF TypeOK, ExchangeTyped
  <2> QED
    BY <2>1, BuysAreFinite
<1>4. View(m)
  BY DEF ViewsHold
<1>5. /\ Cardinality(lots'[m]) + Cardinality(lateBuys'[m])
           <= Cardinality(lots[m]) + Cardinality(lateBuys[m])
      /\ Cardinality(lateBuys'[m]) <= Cardinality(lateBuys[m])
      /\ DustIsNoLot(m)'
      /\ lates[m] = 0 => lateSells'[m] = 0 /\ held'[m] >= held[m]
      /\ \A n \in Markets \ {m} :
           /\ held'[n] = held[n] /\ lots'[n] = lots[n]
           /\ lateBuys'[n] = lateBuys[n] /\ lateSells'[n] = lateSells[n]
  <2>1. CASE LateBuyFills(m)
    <3>1. PICK id \in lateBuys[m] :
            ExecuteBuy(m, id) /\ lateBuys' = [lateBuys EXCEPT ![m] = @ \ {id}]
      BY <2>1 DEF LateBuyFills
    <3>2. id \in BuyIds
      BY SymbolTyped
    <3>3. /\ Cardinality(lots'[m]) <= Cardinality(lots[m]) + 1
          /\ held'[m] >= held[m]
          /\ DustIsNoLot(m)'
          /\ \A n \in Markets \ {m} : held'[n] = held[n] /\ lots'[n] = lots[n]
      BY <3>1, <3>2, ExecutionCounted
    <3>4. /\ lateBuys'[m] = lateBuys[m] \ {id}
          /\ \A n \in Markets \ {m} : lateBuys'[n] = lateBuys[n]
      BY <3>1 DEF TypeOK, ExchangeTyped
    <3>5. Cardinality(lateBuys'[m]) = Cardinality(lateBuys[m]) - 1
      BY <3>2, <3>4, SymbolTyped, CountingBuys
    <3>6. UNCHANGED lateSells
      BY <2>1 DEF LateBuyFills
    <3>7. lates[m] = 0 => lateSells[m] = 0
      BY <1>4 DEF View, LateOrdersCounted
    <3> QED
      BY <1>3, <3>3, <3>4, <3>5, <3>6, <3>7, SymbolTyped
  <2>2. CASE LateSellFills(m)
    <3>1. lates[m] # 0
      BY <1>4, <2>2, SymbolTyped DEF LateSellFills, View, LateOrdersCounted
    <3>2. \/ Covered(m, lateSells[m]) /\ ExecuteSell(m, lateSells[m])
          \/ UNCHANGED <<held, lots>>
      BY <2>2 DEF LateSellFills
    <3>3. /\ Cardinality(lots'[m]) <= Cardinality(lots[m])
          /\ DustIsNoLot(m)'
          /\ \A n \in Markets \ {m} : held'[n] = held[n] /\ lots'[n] = lots[n]
      <4>1. CASE Covered(m, lateSells[m]) /\ ExecuteSell(m, lateSells[m])
        BY <4>1, SymbolTyped, ExecutionCounted
      <4>2. CASE UNCHANGED <<held, lots>>
        BY <1>4, <4>2, SymbolTyped DEF View, DustIsNoLot
      <4> QED
        BY <3>2, <4>1, <4>2
    <3>4. UNCHANGED lateBuys /\ lateSells' = [lateSells EXCEPT ![m] = 0]
      BY <2>2 DEF LateSellFills
    <3>5. \A n \in Markets \ {m} : lateSells'[n] = lateSells[n]
      BY <3>4 DEF TypeOK, ExchangeTyped
    <3> QED
      BY <1>3, <3>1, <3>3, <3>4, <3>5, SymbolTyped
  <2> QED
    BY <2>1, <2>2
<1>6. ASSUME NEW n \in Markets PROVE View(n)'
  <2>1. View(n) /\ (Ahead(n)' <=> Ahead(n)) /\ Pending(n)' = Pending(n)
    BY <1>1 DEF ViewsHold, Ahead, Pending
  <2>2. CASE n = m
    <3>1. LotsBounded(n)'
      BY <1>1, <1>3, <1>5, <2>1, <2>2, SymbolTyped DEF View, LotsBounded, Pending
    <3>2. LateOrdersCounted(n)'
      BY <1>1, <1>3, <1>5, <2>1, <2>2, SymbolTyped DEF View, LateOrdersCounted
    <3>3. SnapshotHolds(n)'
      <4>1. held'[n] \in Nat
        BY LateFillsTyped DEF TypeOK, ExchangeTyped
      <4> QED
        BY <1>1, <1>3, <1>5, <2>1, <2>2, <4>1, SymbolTyped, LateFillsCounted
           DEF View, SnapshotHolds
    <3>4. SellCovered(n)'
      <4>1. held'[n] \in Nat
        BY LateFillsTyped DEF TypeOK, ExchangeTyped
      <4> QED
        BY <1>1, <1>5, <2>1, <2>2, <4>1, SymbolTyped, OrderFieldsTyped
           DEF View, SellCovered
    <3> QED
      BY <1>5, <2>2, <3>1, <3>2, <3>3, <3>4 DEF View
  <2>3. CASE n # m
    <3>1. /\ held'[n] = held[n] /\ lots'[n] = lots[n]
          /\ lateBuys'[n] = lateBuys[n] /\ lateSells'[n] = lateSells[n]
      BY <1>5, <2>3
    <3>2. DustIsNoLot(n)' /\ LateOrdersCounted(n)' /\ SellCovered(n)'
      BY <1>1, <2>1, <3>1 DEF View, DustIsNoLot, LateOrdersCounted, SellCovered
    <3>3. LotsBounded(n)'
      BY <1>1, <2>1, <3>1 DEF View, LotsBounded
    <3>4. SnapshotHolds(n)'
      BY <1>1, <2>1, <3>1 DEF View, SnapshotHolds
    <3> QED
      BY <3>2, <3>3, <3>4 DEF View
  <2> QED
    BY <2>2, <2>3
<1> QED
  BY <1>2, <1>6 DEF ViewsHold

-----------------------------------------------------------------------------
(* Late executions, crashes and restarts *)

\* Whatever becomes of a postponed order is accounted for beforehand.
LEMMA PostponeCounted ==
  ASSUME TypeOK, ViewsHold, order.stage = "sent", Postpone(order),
         NEW m \in Markets
  PROVE  /\ LateOrdersCounted(m)'
         /\ lates'[m] \in Nat /\ lates'[m] >= lates[m]
         /\ Cardinality(lots[m]) + Cardinality(lateBuys'[m]) <= 1 + lates'[m]
         /\ m # order.market =>
              lates'[m] = lates[m] /\ lateBuys'[m] = lateBuys[m]
<1>1. View(m)
  BY DEF ViewsHold
<1>2. /\ lates \in [Markets -> Nat] /\ lateSells \in [Markets -> Nat]
      /\ lateBuys \in [Markets -> SUBSET BuyIds]
  BY DEF TypeOK, ExchangeTyped, ObserversTyped
<1>3. /\ order.market \in Markets /\ order.id \in BuyIds
      /\ order.side \in {"buy", "sell"}
  BY OrderFieldsTyped DEF TypeOK, BotTyped, OrderRecords
<1>4. lates' = [lates EXCEPT ![order.market] = @ + 1]
  BY DEF Postpone
<1>5. CASE m # order.market
  <2>1. lates'[m] = lates[m]
    BY <1>2, <1>3, <1>4, <1>5
  <2>2. lateBuys'[m] = lateBuys[m] /\ lateSells'[m] = lateSells[m]
    BY <1>2, <1>3, <1>5 DEF Postpone
  <2>3. LateOrdersCounted(m)'
    BY <1>1, <2>1, <2>2 DEF View, LateOrdersCounted
  <2>4. Cardinality(lots[m]) + Cardinality(lateBuys[m]) <= 1 + lates[m]
    BY <1>1, SymbolTyped DEF View, LotsBounded, Pending
  <2> QED
    BY <2>1, <2>2, <2>3, <2>4, SymbolTyped
<1>6. CASE m = order.market
  <2>1. lates'[m] = lates[m] + 1
    BY <1>2, <1>4, <1>6
  <2>2. lateBuys'[m] = lateBuys[m] \cup {order.id} \/ lateBuys'[m] = lateBuys[m]
    BY <1>2, <1>6 DEF Postpone
  <2>3. CASE order.side = "buy"
    <3>1. Pending(m) = 1
      BY <1>6, <2>3 DEF Pending
    <3>2. lateBuys'[m] \in SUBSET BuyIds
      BY <1>3, <2>2, SymbolTyped
    <3>3. /\ Cardinality(lateBuys'[m]) \in Nat
          /\ Cardinality(lateBuys'[m]) <= Cardinality(lateBuys[m]) + 1
      <4>1. Cardinality(lateBuys'[m]) \in Nat
        BY <3>2, BuysAreFinite
      <4>2. Cardinality(lateBuys[m] \cup {order.id}) <= Cardinality(lateBuys[m]) + 1
        BY <1>3, SymbolTyped, CountingBuys
      <4>3. CASE lateBuys'[m] = lateBuys[m] \cup {order.id}
        BY <4>1, <4>2, <4>3
      <4>4. CASE lateBuys'[m] = lateBuys[m]
        BY <4>1, <4>4, SymbolTyped
      <4> QED
        BY <2>2, <4>3, <4>4
    <3>4. Cardinality(lots[m]) + Cardinality(lateBuys'[m]) <= 1 + lates'[m]
      BY <1>1, <2>1, <3>1, <3>3, SymbolTyped DEF View, LotsBounded
    <3>5. LateOrdersCounted(m)'
      BY <1>1, <2>1, <3>3, SymbolTyped DEF View, LateOrdersCounted
    <3> QED
      BY <1>6, <2>1, <3>4, <3>5, SymbolTyped
  <2>4. CASE order.side = "sell"
    <3>1. lateBuys'[m] = lateBuys[m]
      BY <2>4 DEF Postpone
    <3>2. Pending(m) = 0
      BY <2>4 DEF Pending
    <3>3. Cardinality(lots[m]) + Cardinality(lateBuys'[m]) <= 1 + lates'[m]
      BY <1>1, <2>1, <3>1, <3>2, SymbolTyped DEF View, LotsBounded
    <3>4. LateOrdersCounted(m)'
      BY <1>1, <2>1, <3>1, SymbolTyped DEF View, LateOrdersCounted
    <3> QED
      BY <1>6, <2>1, <3>3, <3>4, SymbolTyped
  <2> QED
    BY <1>3, <2>3, <2>4
<1> QED
  BY <1>5, <1>6

LEMMA TimesOutViews ==
  ASSUME TypeOK, ViewsHold, TimesOut
  PROVE  ViewsHold'
<1>1. /\ UNCHANGED <<up, loaded, snap, held, lots>>
      /\ order.stage = "sent" /\ order' = NoOrder /\ at' = NextMarket
      /\ Postpone(order)
  BY DEF TimesOut, GiveUp
<1>2. at > 0 /\ up /\ order.market = at
  BY <1>1 DEF ViewsHold, OrderIsVisited
<1>3. OrderIsVisited'
  BY <1>1, <1>2 DEF OrderIsVisited, NoOrder
<1>4. ASSUME NEW m \in Markets PROVE View(m)'
  <2>1. View(m)
    BY DEF ViewsHold
  <2>2. DustIsNoLot(m)' /\ SellCovered(m)'
    BY <1>1, <2>1 DEF View, DustIsNoLot, SellCovered, NoOrder
  <2>3. LateOrdersCounted(m)'
    BY <1>1, PostponeCounted
  <2>4. LotsBounded(m)'
    <3>1. Pending(m)' = 0
      BY <1>1 DEF Pending, NoOrder
    <3>2. Cardinality(lots[m]) + Cardinality(lateBuys'[m]) <= 1 + lates'[m]
      BY <1>1, PostponeCounted
    <3>3. Cardinality(lots[m]) \in Nat /\ Cardinality(lateBuys'[m]) \in Nat
      <4>1. lateBuys'[m] \in SUBSET BuyIds
        BY <1>1, PostponeTyped
      <4> QED
        BY <4>1, BuysAreFinite, SymbolTyped
    <3> QED
      BY <1>1, <3>1, <3>2, <3>3 DEF LotsBounded
  <2>5. SnapshotHolds(m)'
    <3>1. Ahead(m)' => Ahead(m) /\ m # order.market
      BY <1>1, <1>2, SymbolTyped DEF Ahead, NextMarket, NoOrder
    <3>2. m # order.market => lates'[m] = lates[m] /\ lateBuys'[m] = lateBuys[m]
      BY <1>1, PostponeCounted
    <3> QED
      BY <1>1, <2>1, <3>1, <3>2 DEF View, SnapshotHolds
  <2> QED
    BY <2>2, <2>3, <2>4, <2>5 DEF View
<1> QED
  BY <1>3, <1>4 DEF ViewsHold

LEMMA AcknowledgedViews ==
  ASSUME TypeOK, ViewsHold, Acknowledged \/ AcknowledgedEarly
  PROVE  ViewsHold'
<1>1. /\ UNCHANGED <<up, at, held, lots>>
      /\ order.stage # "none" /\ order'.stage = "acked" /\ order'.market = order.market
      /\ loaded' => snap' = held
  <2>1. order.stage # "none" /\ UNCHANGED <<up, at, held, lots>>
    BY DEF Acknowledged, AcknowledgedEarly, exchange
  <2>2. PICK gross \in Gross(order) : ApplyFill(order, gross)
    BY DEF Acknowledged, AcknowledgedEarly
  <2>3. order'.stage = "acked" /\ order'.market = order.market
    BY <2>2 DEF ApplyFill, TypeOK, BotTyped, OrderRecords
  <2>4. loaded' => snap' = held
    BY DEF Acknowledged, AcknowledgedEarly
  <2> QED
    BY <2>1, <2>3, <2>4
<1>2. at > 0 /\ up /\ order.market = at
  BY <1>1 DEF ViewsHold, OrderIsVisited
<1>3. OrderIsVisited'
  BY <1>1, <1>2 DEF OrderIsVisited
<1>4. ASSUME NEW m \in Markets PROVE View(m)'
  <2>1. View(m)
    BY DEF ViewsHold
  <2>2. DustIsNoLot(m)' /\ SellCovered(m)'
    BY <1>1, <2>1 DEF View, DustIsNoLot, SellCovered
  <2>3. /\ LateOrdersCounted(m)' /\ lates'[m] \in Nat
        /\ Cardinality(lots[m]) + Cardinality(lateBuys'[m]) <= 1 + lates'[m]
        /\ m # order.market => lates'[m] = lates[m] /\ lateBuys'[m] = lateBuys[m]
    <3>1. CASE Acknowledged
      <4>1. UNCHANGED <<lateBuys, lateSells, lates>>
        BY <3>1 DEF Acknowledged, exchange, observers
      <4>2. Cardinality(lots[m]) + Cardinality(lateBuys[m]) <= 1 + lates[m]
        BY <2>1, SymbolTyped DEF View, LotsBounded, Pending
      <4> QED
        BY <2>1, <4>1, <4>2, SymbolTyped DEF View, LateOrdersCounted
    <3>2. CASE AcknowledgedEarly
      BY <3>2, PostponeCounted DEF AcknowledgedEarly
    <3> QED
      BY <3>1, <3>2
  <2>4. LotsBounded(m)'
    <3>1. Pending(m)' = 0
      BY <1>1 DEF Pending
    <3>2. Cardinality(lots[m]) \in Nat /\ Cardinality(lateBuys'[m]) \in Nat
      <4>1. lateBuys'[m] \in SUBSET BuyIds
        BY AcknowledgedTyped DEF TypeOK, ExchangeTyped
      <4> QED
        BY <4>1, BuysAreFinite, SymbolTyped
    <3> QED
      BY <1>1, <2>3, <3>1, <3>2 DEF LotsBounded
  <2>5. SnapshotHolds(m)'
    <3>1. Ahead(m)' => m # order.market
      BY <1>1, <1>2, SymbolTyped DEF Ahead
    <3>2. held[m] < PositionThreshold
            => Cardinality(lots[m]) + Cardinality(lateBuys[m]) <= lates[m]
      BY <2>1, FreshSnapshot DEF View
    <3> QED
      BY <1>1, <2>3, <3>1, <3>2, SymbolTyped DEF SnapshotHolds
  <2> QED
    BY <2>2, <2>3, <2>4, <2>5 DEF View
<1> QED
  BY <1>3, <1>4 DEF ViewsHold

LEMMA CrashViews ==
  ASSUME TypeOK, ViewsHold, Crash
  PROVE  ViewsHold'
<1>1. at' = 0 /\ order' = NoOrder /\ UNCHANGED <<held, lots>>
  BY DEF Crash, exchange
<1>2. OrderIsVisited'
  BY <1>1 DEF OrderIsVisited, NoOrder
<1>3. ASSUME NEW m \in Markets PROVE View(m)'
  <2>1. View(m)
    BY DEF ViewsHold
  <2>2. DustIsNoLot(m)' /\ SellCovered(m)' /\ SnapshotHolds(m)'
    BY <1>1, <2>1 DEF View, DustIsNoLot, SellCovered, SnapshotHolds, Ahead, NoOrder
  <2>3. /\ LateOrdersCounted(m)'
        /\ Cardinality(lots[m]) + Cardinality(lateBuys'[m]) <= 1 + lates'[m]
    <3>1. CASE UNCHANGED <<exchange, lates>>
      <4>1. Cardinality(lots[m]) + Cardinality(lateBuys[m]) <= 1 + lates[m]
        BY <2>1, SymbolTyped DEF View, LotsBounded, Pending
      <4> QED
        BY <2>1, <3>1, <4>1 DEF View, LateOrdersCounted, exchange
    <3>2. CASE order.stage = "sent" /\ Postpone(order)
      BY <3>2, PostponeCounted
    <3> QED
      BY <3>1, <3>2 DEF Crash
  <2>4. Pending(m)' = 0
    BY <1>1 DEF Pending, NoOrder
  <2>5. Cardinality(lots[m]) \in Nat /\ Cardinality(lateBuys'[m]) \in Nat
    <3>1. lateBuys'[m] \in SUBSET BuyIds
      BY CrashTyped DEF TypeOK, ExchangeTyped
    <3> QED
      BY <3>1, BuysAreFinite, SymbolTyped
  <2>6. LotsBounded(m)'
    BY <1>1, <2>3, <2>4, <2>5 DEF LotsBounded
  <2> QED
    BY <2>2, <2>3, <2>6 DEF View
<1> QED
  BY <1>2, <1>3 DEF ViewsHold

LEMMA StartViews ==
  ASSUME TypeOK, ViewsHold, Start
  PROVE  ViewsHold'
<1>1. /\ ~up /\ up' = TRUE
      /\ UNCHANGED <<at, loaded, snap, order, held, lots, lateBuys, lateSells, lates>>
  BY DEF Start, exchange, observers
<1>2. OrderIsVisited'
  BY <1>1 DEF ViewsHold, OrderIsVisited
<1>3. ASSUME NEW m \in Markets PROVE View(m)'
  BY <1>1 DEF ViewsHold, View, DustIsNoLot, LateOrdersCounted, LotsBounded,
              SnapshotHolds, SellCovered, Ahead, Pending
<1> QED
  BY <1>2, <1>3 DEF ViewsHold

-----------------------------------------------------------------------------
LEMMA ViewsNext == TypeOK /\ ViewsHold /\ [Next]_vars => ViewsHold'
<1> SUFFICES ASSUME TypeOK, ViewsHold, [Next]_vars PROVE ViewsHold'
  OBVIOUS
<1>1. ASSUME NEW m \in Markets, Visit(m) PROVE ViewsHold'
  <2>1. CASE SubmitBuy(m) \/ SubmitSell(m)
    BY <2>1, SubmitViews
  <2>2. CASE FetchFails(m) \/ HoldUnrecoverable(m) \/ Wait(m)
    <3>1. /\ up /\ at > 0 /\ at' = NextMarket /\ order'.stage = "none"
          /\ UNCHANGED <<up, loaded, snap, held, lots, lateBuys, lateSells, lates>>
      BY <2>2, SymbolTyped
         DEF FetchFails, HoldUnrecoverable, Wait, Visiting, exchange, observers
    <3> QED
      BY <3>1, ViewsPassOn
  <2> QED
    BY <1>1, <2>1, <2>2 DEF Visit
<1>2. CASE FinishOrder
  <2>1. CASE Rejected \/ ResponseLost \/ Record \/ BookkeepingFails
    <3>1. /\ order.stage # "none" /\ at' = NextMarket /\ order' = NoOrder
          /\ UNCHANGED <<up, loaded, snap, held, lots, lateBuys, lateSells, lates>>
      BY <2>1 DEF Rejected, ResponseLost, Record, BookkeepingFails, GiveUp, exchange,
                  observers
    <3>2. up /\ at > 0
      BY <3>1 DEF ViewsHold, OrderIsVisited
    <3>3. order'.stage = "none"
      BY <3>1 DEF NoOrder
    <3> QED
      BY <3>1, <3>2, <3>3, ViewsPassOn
  <2> QED
    BY <1>2, <2>1, TimesOutViews, AcknowledgedViews DEF FinishOrder
<1>3. CASE StartPass
  BY <1>3, StartPassViews
<1>4. CASE Environment
  <2>1. CASE NewDay \/ Tick \/ \E m \in Markets : PriceTurns(m)
    <3>1. UNCHANGED <<up, at, loaded, snap, order, exchange, lates>>
      BY <2>1 DEF NewDay, Tick, PriceTurns, bot, observers
    <3> QED
      BY <3>1, ViewsFrame
  <2> QED
    BY <1>4, <2>1, ExchangeFillsViews, LateFillsViews, CrashViews, StartViews
       DEF Environment
<1>5. CASE UNCHANGED vars
  BY <1>5, ViewsFrame DEF vars, bot, observers
<1> QED
  BY <1>1, <1>2, <1>3, <1>4, <1>5 DEF Next, Thread

LEMMA ViewsCorrect == Spec => [](TypeOK /\ ViewsHold)
<1>1. Init => TypeOK /\ ViewsHold
  BY InitTyped, ViewsInit
<1>2. TypeOK /\ ViewsHold /\ [Next]_vars => TypeOK' /\ ViewsHold'
  BY NextTyped, ViewsNext
<1> QED
  BY <1>1, <1>2, PTL DEF Spec

\* The bot never buys into a position: the account holds, of every symbol, what
\* one order bought, plus at most one lot for each order the bot had stopped
\* waiting for, although balances are read once per pass and change meanwhile.
THEOREM NeverDoubled == Spec => []OneLotPerOrder
<1>1. TypeOK /\ ViewsHold => OneLotPerOrder
  <2> SUFFICES ASSUME TypeOK, ViewsHold, NEW m \in Markets
               PROVE  Cardinality(lots[m]) <= 1 + lates[m]
    BY DEF OneLotPerOrder
  <2> QED
    BY SymbolTyped DEF ViewsHold, View, LotsBounded, Pending
<1> QED
  BY <1>1, ViewsCorrect, PTL

\* No sell order asks for more coins than the account holds, as long as every
\* order of the symbol executed while the bot waited for it.
THEOREM NeverOversold == Spec => []NoOversell
<1>1. ViewsHold => NoOversell
  BY DEF ViewsHold, View, SellCovered, NoOversell
<1> QED
  BY <1>1, ViewsCorrect, PTL

-----------------------------------------------------------------------------
(* Why the history is enough: what the bot remembers of a symbol, what its  *)
(* trade history says of it, what the account holds and what the observer   *)
(* saw.                                                                     *)

-----------------------------------------------------------------------------
(* What the history says, of a symbol whose fills all reached it, whose      *)
(* orders all executed while the bot waited for them and whose sales left    *)
(* what their reasons say                                                    *)

Takes(reason) == reason = "partial_take_profit"
Cuts(reason) == reason = "partial_stop_loss"

Ordering(m, side) == order.stage # "none" /\ order.market = m /\ order.side = side
InStage(m, stages) == order.market = m /\ order.stage \in stages
Idle(m) == order.stage = "none" \/ order.market # m

\* The observer saw what the history says, and the history of a symbol without a
\* holding is blank but for its clocks.
RecordsAgree(m) ==
  /\ recorded[m].clocks = ledger[m].clocks
  /\ "partial_take_profit" \in recorded[m].parts => ledger[m].tpDone
  /\ "partial_stop_loss" \in recorded[m].parts => ledger[m].slDone
  /\ ledger[m].left = 0 =>
       /\ ledger[m].lots = {} /\ ledger[m].ends = {}
       /\ ~ledger[m].tpDone /\ ~ledger[m].slDone
  /\ ledger[m].left > 0 => ledger[m].ends = {ledger[m].left}

\* Between an execution and its record the history is behind.  Buys enter with an
\* estimate, so what is held exceeds the history by less than a position.
HistoryKnows(m) ==
  ~InStage(m, {"filled", "acked"}) =>
    /\ Held(m) <=> ledger[m].left > 0
    /\ Held(m) => /\ ledger[m].lots = lots[m]
                  /\ held[m] < ledger[m].left + PositionThreshold

MemoryMatches(m) ==
  up =>
    /\ mem[m].count <= 1
    /\ ~InStage(m, {"acked"}) =>
         /\ mem[m].clocks = ledger[m].clocks
         /\ ledger[m].left > 0 =>
              /\ mem[m].price = ledger[m].lots
              /\ mem[m].tpDone <=> ledger[m].tpDone
              /\ mem[m].slDone <=> ledger[m].slDone

BuyFits(m) ==
  Ordering(m, "buy") =>
    /\ ledger[m].left = 0 /\ order.base < PositionThreshold /\ order.reason = "entry"
    /\ ~mem[m].tpDone /\ ~mem[m].slDone
    /\ order.stage \in {"sent", "filled"} => mem[m].count = 0
    /\ order.stage \in {"filled", "acked"} =>
         /\ Held(m) /\ lots[m] = {order.id}
         /\ held[m] < BuyAmount + PositionThreshold
    /\ order.stage = "acked" =>
         /\ mem[m].price = {order.id}
         /\ mem[m].clocks = TradeClocks(ledger[m].clocks)

\* An executed sale left what its reason says.
Leaves(plan, base) == plan.qty <= base /\ LeavesAsTold(plan.reason, base - plan.qty)

SellFits(m) ==
  Ordering(m, "sell") =>
    /\ ledger[m].left > 0
    /\ order.base < ledger[m].left + PositionThreshold
    /\ Takes(order.reason) => ~ledger[m].tpDone
    /\ Cuts(order.reason) => ~ledger[m].slDone
    /\ order.stage = "sent" => held[m] = order.base
    /\ order.stage \in {"filled", "acked"} =>
         /\ Leaves(order, order.base)
         /\ held[m] = order.base - order.qty
         /\ Held(m) => lots[m] = ledger[m].lots
    /\ order.stage = "acked" =>
         /\ mem[m].price = ledger[m].lots /\ mem[m].count = 0
         /\ mem[m].tpDone <=> ledger[m].tpDone \/ Takes(order.reason)
         /\ mem[m].slDone <=> ledger[m].slDone \/ Cuts(order.reason)
         /\ mem[m].clocks = SellClocks(ledger[m].clocks, order.reason, Takes(order.reason))

AsTold(m) == Undisturbed(m) /\ m \notin cut

Told(m) ==
  AsTold(m) =>
    /\ RecordsAgree(m) /\ HistoryKnows(m) /\ MemoryMatches(m)
    /\ BuyFits(m) /\ SellFits(m)

HistoryTold == \A m \in Markets : Told(m)

-----------------------------------------------------------------------------
(* Facts about the operators *)

\* A partial sale is decided once for profit and once for loss; the minimum order
\* may make a full sale of it.
LEMMA PlanFits ==
  ASSUME NEW base \in Nat, NEW T \in SUBSET Triggers, T # {},
         NEW tpDone \in BOOLEAN, NEW slDone \in BOOLEAN
  PROVE  LET plan == SellOrder(base, SellIntent(T, tpDone, slDone))
         IN  /\ plan.qty \in Nat
             /\ Takes(plan.reason) => ~tpDone
             /\ Cuts(plan.reason) => ~slDone
<1> DEFINE intent == SellIntent(T, tpDone, slDone)
           plan == SellOrder(base, intent)
<1>1. (Takes(intent.reason) => ~tpDone) /\ (Cuts(intent.reason) => ~slDone)
  <2>1. Leading(T) \in Triggers
    BY LeadingIsTrigger
  <2> HIDE DEF Leading
  <2> QED
    BY <2>1 DEF SellIntent, Takes, Cuts, Triggers, Priority
<1>2. plan.qty \in Nat
  BY SellOrdersAreCovered
<1> HIDE DEF intent
<1>3. plan.reason \in {intent.reason, PromotePartialExitReason(intent.reason)}
  BY DEF SellOrder
<1>4. ~Takes(PromotePartialExitReason(intent.reason)) \/ Takes(intent.reason)
  BY DEF PromotePartialExitReason, Takes
<1>5. ~Cuts(PromotePartialExitReason(intent.reason)) \/ Cuts(intent.reason)
  BY DEF PromotePartialExitReason, Cuts
<1> QED
  BY <1>1, <1>2, <1>3, <1>4, <1>5 DEF Takes, Cuts, intent

\* A buy into a blank history
LEMMA ReplayOfFirstBuy ==
  ASSUME NEW led \in LedgerRecords, led.left = 0, led.lots = {},
         NEW id \in BuyIds, NEW qty \in Nat
  PROVE  LET next == ReplayBuy(led, id, qty)
         IN  /\ next.left = qty /\ next.lots = {id} /\ next.ends = {qty}
             /\ ~next.tpDone /\ ~next.slDone
             /\ next.clocks = TradeClocks(led.clocks)
<1> DEFINE left == led.left + qty
           l == led.lots \cup {id}
           ends == (IF led.left = 0 THEN {} ELSE led.ends) \cup {led.left + qty}
           tp == ~(led.left = 0) /\ led.tpDone
           sl == ~(led.left = 0) /\ led.slDone
           k == TradeClocks(led.clocks)
           next == [led EXCEPT !.left = left, !.lots = l, !.ends = ends,
                               !.tpDone = tp, !.slDone = sl, !.clocks = k]
<1>1. ReplayBuy(led, id, qty) = next
  BY DEF ReplayBuy
<1>2. left = qty /\ l = {id} /\ ends = {qty} /\ ~tp /\ ~sl
  OBVIOUS
<1> HIDE DEF left, l, ends, tp, sl, k
<1>3. /\ next.left = left /\ next.lots = l /\ next.ends = ends
      /\ next.tpDone = tp /\ next.slDone = sl /\ next.clocks = k
  BY DEF LedgerRecords
<1> HIDE DEF next
<1> QED
  BY <1>1, <1>2, <1>3 DEF k

\* A partial sale of less than the history knows of
LEMMA ReplayOfPartialSale ==
  ASSUME NEW led \in LedgerRecords, led.ends = {led.left}, NEW rec,
         rec.qty \in Nat, rec.qty < led.left, rec.reason \in PartialReasons
  PROVE  LET next == ReplaySell(led, rec)
         IN  /\ next.left = led.left - rec.qty /\ next.lots = led.lots
             /\ next.ends = {next.left}
             /\ next.tpDone <=> led.tpDone \/ Takes(rec.reason)
             /\ next.slDone <=> led.slDone \/ Cuts(rec.reason)
             /\ next.clocks = SellClocks(led.clocks, rec.reason, Takes(rec.reason))
<1> DEFINE left == IF rec.qty < led.left THEN led.left - rec.qty ELSE 0
           tp == led.tpDone \/ (rec.reason = "partial_take_profit" /\ left > 0)
           sl == led.slDone \/ (rec.reason = "partial_stop_loss" /\ left > 0)
           k == SellClocks(led.clocks, rec.reason,
                           rec.reason = "partial_take_profit" /\ left > 0)
           ends == ConsumeLegs(led.ends, rec.qty)
           next == [led EXCEPT !.left = left, !.ends = ends, !.tpDone = tp,
                               !.slDone = sl, !.clocks = k]
<1>1. led.left \in Nat /\ led.left > 0 /\ left = led.left - rec.qty /\ left > 0
  BY DEF LedgerRecords
<1>2. ends = {left}
  BY <1>1 DEF ConsumeLegs
<1>3. ~IsExplicitFinalExit(rec)
  BY DEF IsExplicitFinalExit
<1>4. ReplayHeldSell(led, rec) = IF left = 0 THEN ClearRecovered(next) ELSE next
  BY <1>3 DEF ReplayHeldSell
<1>5. ReplaySell(led, rec) = next
  <2> HIDE DEF next, left
  <2> QED
    BY <1>1, <1>4 DEF ReplaySell
<1>6. /\ tp <=> led.tpDone \/ Takes(rec.reason)
      /\ sl <=> led.slDone \/ Cuts(rec.reason)
  BY <1>1 DEF Takes, Cuts
<1>7. k = SellClocks(led.clocks, rec.reason, Takes(rec.reason))
  BY <1>1 DEF SellClocks, Takes
<1> HIDE DEF left, tp, sl, k, ends
<1>8. /\ next.left = left /\ next.lots = led.lots /\ next.ends = ends
      /\ next.tpDone = tp /\ next.slDone = sl /\ next.clocks = k
  BY DEF LedgerRecords
<1> HIDE DEF next
<1> QED
  BY <1>1, <1>2, <1>5, <1>6, <1>7, <1>8

\* Any other sale after which the entry count is zero
LEMMA ReplayOfFullSale ==
  ASSUME NEW led \in LedgerRecords, led.left > 0, NEW rec,
         rec.qty \in Nat, rec.reason \notin PartialReasons, rec.countAfter = 0
  PROVE  LET next == ReplaySell(led, rec)
         IN  /\ next.left = 0 /\ next.lots = {} /\ next.ends = {}
             /\ ~next.tpDone /\ ~next.slDone
             /\ next.clocks = SellClocks(led.clocks, rec.reason, FALSE)
<1> DEFINE left == IF rec.qty < led.left THEN led.left - rec.qty ELSE 0
           ends == ConsumeLegs(led.ends, rec.qty)
           k == SellClocks(led.clocks, rec.reason, FALSE)
           tp == led.tpDone \/ (rec.reason = "partial_take_profit" /\ left > 0)
           sl == led.slDone \/ (rec.reason = "partial_stop_loss" /\ left > 0)
           next == [led EXCEPT !.left = left, !.ends = ends, !.tpDone = tp,
                               !.slDone = sl, !.clocks = k]
<1>1. IsExplicitFinalExit(rec)
  BY DEF IsExplicitFinalExit
<1>2. SellClocks(led.clocks, rec.reason, rec.reason = "partial_take_profit" /\ left > 0) = k
  BY DEF SellClocks, PartialReasons
<1>3. ReplaySell(led, rec) = ClearRecovered(next)
  BY <1>1, <1>2 DEF ReplaySell, ReplayHeldSell
<1> HIDE DEF left, ends, tp, sl, k
<1>4. LET c == ClearRecovered(next)
      IN  /\ c.left = 0 /\ c.lots = {} /\ c.ends = {}
          /\ ~c.tpDone /\ ~c.slDone /\ c.clocks = k
  BY DEF ClearRecovered, LedgerRecords
<1> QED
  BY <1>3, <1>4 DEF k

\* What a restart recovers is what the history says, with one entry at most.
LEMMA RecoveredFields ==
  ASSUME NEW led \in LedgerRecords, led.ends = {} \/ led.ends = {led.left}
  PROVE  LET r == RecoveredMemory(led)
         IN  /\ led.left > 0 => r.price = led.lots
             /\ r.count <= 1
             /\ r.tpDone = led.tpDone /\ r.slDone = led.slDone
             /\ r.clocks = led.clocks
<1>1. Cardinality({}) = 0 /\ Cardinality({led.left}) = 1
  BY FS_EmptySet, FS_Singleton
<1>2. Cardinality(led.ends) <= 1
  BY <1>1
<1> QED
  BY <1>2 DEF RecoveredMemory

\* The fill of a buy decided without a position
LEMMA FirstBuyFields ==
  ASSUME NEW r \in MemoryRecords, NEW id \in BuyIds
  PROVE  LET next == ApplyBuyFill(r, id, FALSE)
         IN  /\ next.price = {id} /\ next.count = r.count + 1
             /\ next.tpDone = r.tpDone /\ next.slDone = r.slDone
             /\ next.clocks = TradeClocks(r.clocks)
BY DEF ApplyBuyFill, MemoryRecords

\* A partial sale leaves more than dust.
LEMMA PartlyIsNotCleared ==
  ASSUME NEW plan, NEW base \in Nat, plan.qty \in Nat,
         Leaves(plan, base), plan.reason \in PartialReasons
  PROVE  ~Cleared(base, plan.qty) /\ base - plan.qty >= PositionThreshold
<1>1. ClearThreshold \in Nat /\ PositionThreshold \in Nat /\ PositionThreshold > 0
  BY ExitAssumption, LifecycleAssumption DEF PositionThreshold
<1> QED
  BY <1>1 DEF Leaves, LeavesAsTold, Cleared, Remaining

\* The fill of a sale
LEMMA SaleFields ==
  ASSUME NEW r \in MemoryRecords, r.count <= 1,
         NEW plan, NEW base \in Nat, plan.qty \in Nat, Leaves(plan, base)
  PROVE  LET next == ApplySellFill(r, base, plan.qty, plan.reason)
         IN  /\ next.price = r.price /\ next.count = 0
             /\ next.tpDone <=> r.tpDone \/ Takes(plan.reason)
             /\ next.slDone <=> r.slDone \/ Cuts(plan.reason)
             /\ next.clocks = SellClocks(r.clocks, plan.reason, Takes(plan.reason))
<1> DEFINE takes == plan.reason = "partial_take_profit" /\ ~Cleared(base, plan.qty)
           cuts == plan.reason = "partial_stop_loss" /\ ~Cleared(base, plan.qty)
           n == EntryCountAfter(r, base, plan.qty)
           tp == r.tpDone \/ takes
           sl == r.slDone \/ cuts
           k == SellClocks(r.clocks, plan.reason, takes)
           next == [r EXCEPT !.count = n, !.tpDone = tp, !.slDone = sl, !.clocks = k]
<1>1. n = 0
  BY DEF EntryCountAfter, MemoryRecords
<1>2. (takes <=> Takes(plan.reason)) /\ (cuts <=> Cuts(plan.reason))
  BY PartlyIsNotCleared DEF Takes, Cuts, PartialReasons
<1>3. k = SellClocks(r.clocks, plan.reason, Takes(plan.reason))
  BY <1>2 DEF SellClocks
<1>4. ApplySellFill(r, base, plan.qty, plan.reason) = next
  BY DEF ApplySellFill
<1> HIDE DEF takes, cuts, n, k
<1>5. (tp <=> r.tpDone \/ Takes(plan.reason)) /\ (sl <=> r.slDone \/ Cuts(plan.reason))
  BY <1>2
<1> HIDE DEF tp, sl
<1>6. /\ next.price = r.price /\ next.count = n /\ next.tpDone = tp /\ next.slDone = sl
      /\ next.clocks = k
  BY DEF MemoryRecords
<1> HIDE DEF next
<1> QED
  BY <1>1, <1>3, <1>4, <1>5, <1>6

-----------------------------------------------------------------------------
(* Steps that leave a symbol alone *)

\* Nothing of the symbol changes that outlives the process.
SameRecords(m) ==
  /\ ledger'[m] = ledger[m] /\ recorded'[m] = recorded[m]
  /\ held'[m] = held[m] /\ lots'[m] = lots[m]
  /\ missed'[m] = missed[m] /\ lates'[m] = lates[m]
  /\ (m \in cut)' = (m \in cut) /\ (m \in misread)' = (m \in misread)

LEMMA OthersTold ==
  ASSUME NEW m \in Markets, Told(m), SameRecords(m), Idle(m), Idle(m)',
         up' => up /\ mem'[m] = mem[m]
  PROVE  Told(m)'
<1> SUFFICES ASSUME AsTold(m)'
             PROVE  /\ RecordsAgree(m)' /\ HistoryKnows(m)' /\ MemoryMatches(m)'
                    /\ BuyFits(m)' /\ SellFits(m)'
  BY DEF Told
<1>1. /\ RecordsAgree(m) /\ HistoryKnows(m) /\ MemoryMatches(m)
  BY DEF AsTold, Undisturbed, SameRecords, Told
<1>2. RecordsAgree(m)'
  BY <1>1 DEF RecordsAgree, SameRecords
<1>3. HistoryKnows(m)'
  BY <1>1 DEF HistoryKnows, SameRecords, InStage, Idle, Held
<1>4. MemoryMatches(m)'
  BY <1>1 DEF MemoryMatches, SameRecords, InStage, Idle
<1>5. BuyFits(m)' /\ SellFits(m)'
  BY DEF BuyFits, SellFits, Ordering, Idle
<1> QED
  BY <1>2, <1>3, <1>4, <1>5

\* Only what changes a row disturbs it: counters of lost and late fills grow.
LEMMA RowTyped ==
  ASSUME TypeOK, NEW m \in Markets
  PROVE  /\ mem[m] \in MemoryRecords /\ ledger[m] \in LedgerRecords
         /\ recorded[m].clocks \in ClockRecords
         /\ recorded[m].parts \in SUBSET PartialReasons
         /\ held[m] \in Nat /\ lots[m] \in SUBSET BuyIds
         /\ missed[m] \in Nat /\ lates[m] \in Nat
         /\ mem[m].count \in Nat /\ ledger[m].left \in Nat
         /\ mem[m].clocks \in ClockRecords /\ ledger[m].clocks \in ClockRecords
<1>1. /\ mem[m] \in MemoryRecords /\ ledger[m] \in LedgerRecords
      /\ recorded[m].clocks \in ClockRecords
      /\ recorded[m].parts \in SUBSET PartialReasons
      /\ held[m] \in Nat /\ lots[m] \in SUBSET BuyIds
      /\ missed[m] \in Nat /\ lates[m] \in Nat
  BY DEF TypeOK, BotTyped, ExchangeTyped, HistoryTyped, ObserversTyped
<1> QED
  BY <1>1 DEF MemoryRecords, LedgerRecords

LEMMA ToldInit == Init => HistoryTold
<1> SUFFICES ASSUME Init, NEW m \in Markets PROVE Told(m)
  BY DEF HistoryTold
<1>1. /\ mem[m] = BlankMemory /\ ledger[m] = EmptyLedger
      /\ recorded[m] = [clocks |-> NoClocks, parts |-> {}]
      /\ held[m] = 0 /\ at = 0 /\ order.stage = "none"
  BY DEF Init, NoOrder
<1>2. PositionThreshold \in Nat /\ PositionThreshold > 0
  BY ExitAssumption DEF PositionThreshold
<1>3. RecordsAgree(m)
  BY <1>1 DEF RecordsAgree, EmptyLedger
<1>4. HistoryKnows(m)
  BY <1>1, <1>2 DEF HistoryKnows, EmptyLedger, Held
<1>5. MemoryMatches(m)
  BY <1>1 DEF MemoryMatches, BlankMemory, EmptyLedger
<1>6. BuyFits(m) /\ SellFits(m)
  BY <1>1 DEF BuyFits, SellFits, Ordering
<1> QED
  BY <1>3, <1>4, <1>5, <1>6 DEF Told

-----------------------------------------------------------------------------
(* Visits *)

\* The balance a visit decides on is the one the account has.
LEMMA VisitSeesTruth ==
  ASSUME TypeOK, ViewsHold, NEW m \in Markets, lates[m] = 0, Visiting(m)
  PROVE  BaseFree(m) = held[m] /\ (HasPosition(m) <=> Held(m))
<1>1. Ahead(m)
  BY SymbolTyped DEF Visiting, Ahead
<1>2. BaseFree(m) = held[m]
  BY <1>1 DEF ViewsHold, View, SnapshotHolds, BaseFree
<1> QED
  BY <1>2 DEF HasPosition, Held

LEMMA VisitKnows ==
  ASSUME TypeOK, ViewsHold, NEW m \in Markets, Told(m), AsTold(m), Visiting(m)
  PROVE  /\ BaseFree(m) = held[m] /\ (HasPosition(m) <=> Held(m))
         /\ RecordsAgree(m) /\ HistoryKnows(m) /\ MemoryMatches(m)
         /\ ~InStage(m, {"acked"}) /\ ~InStage(m, {"filled", "acked"})
BY VisitSeesTruth DEF Told, AsTold, Undisturbed, InStage, Visiting

\* What a visit makes of the memory
LEMMA VisitedFields ==
  ASSUME TypeOK, NEW m \in Markets, NEW c \in BOOLEAN
  PROVE  LET v == Visited(m, c)
         IN  /\ v \in MemoryRecords /\ v.clocks = mem[m].clocks
             /\ HasPosition(m) =>
                  /\ v.price = mem[m].price /\ v.count = mem[m].count
                  /\ v.tpDone = mem[m].tpDone /\ v.slDone = mem[m].slDone
             /\ ~HasPosition(m) =>
                  v.price = {} /\ v.count = 0 /\ ~v.tpDone /\ ~v.slDone
<1>1. mem[m] \in MemoryRecords
  BY RowTyped
<1>2. Visited(m, c) \in MemoryRecords
  BY VisitedTyped
<1> DEFINE cleared == ClearPosition(mem[m])
<1>3. /\ cleared \in MemoryRecords /\ cleared.clocks = mem[m].clocks
      /\ cleared.price = {} /\ cleared.count = 0 /\ ~cleared.tpDone /\ ~cleared.slDone
  BY <1>1 DEF ClearPosition, MemoryRecords
<1> HIDE DEF cleared
<1>4. CASE HasPosition(m)
  <2>1. Visited(m, c) = [mem[m] EXCEPT !.confirm = 0]
    BY <1>4 DEF Visited, UpdateEntryTiming
  <2> QED
    BY <1>1, <1>2, <1>4, <2>1 DEF MemoryRecords
<1>5. CASE ~HasPosition(m)
  <2> DEFINE n == IF ~c THEN 0
                  ELSE IF cleared.confirm < Confirmations THEN cleared.confirm + 1
                  ELSE Confirmations
  <2>1. Visited(m, c) = [cleared EXCEPT !.confirm = n]
    BY <1>5 DEF Visited, UpdateEntryTiming, cleared
  <2> HIDE DEF n
  <2> QED
    BY <1>2, <1>3, <1>5, <2>1 DEF MemoryRecords
<1> QED
  BY <1>4, <1>5

LEMMA StartPassTold ==
  ASSUME TypeOK, ViewsHold, HistoryTold, StartPass, NEW m \in Markets
  PROVE  Told(m)'
<1>1. Told(m) /\ order.stage = "none"
  BY DEF HistoryTold, ViewsHold, OrderIsVisited, StartPass
<1>2. SameRecords(m) /\ order' = order /\ mem'[m] = mem[m] /\ up' = up
  BY DEF StartPass, SameRecords, exchange, history, observers, readings
<1> QED
  BY <1>1, <1>2, OthersTold DEF Idle

LEMMA WaitTold ==
  ASSUME TypeOK, ViewsHold, HistoryTold, NEW v \in Markets, Wait(v), NEW m \in Markets
  PROVE  Told(m)'
<1>1. /\ Told(m) /\ Visiting(v) /\ order' = order /\ at' = NextMarket
      /\ UNCHANGED <<up, loaded, snap, held, lots, ledger, recorded, missed, lates,
                   cut, misread>>
  BY DEF HistoryTold, Wait, exchange, history, observers, readings
<1>2. PICK c \in BOOLEAN : mem' = [mem EXCEPT ![v] = Visited(v, c)]
  BY DEF Wait
<1>3. SameRecords(m) /\ order.stage = "none" /\ at = v /\ at > 0
  BY <1>1, SymbolTyped DEF SameRecords, Visiting
<1>4. CASE m # v
  <2>1. mem'[m] = mem[m]
    BY <1>2, <1>4 DEF TypeOK, BotTyped
  <2> QED
    BY <1>1, <1>3, <2>1, OthersTold DEF Idle
<1>5. CASE m = v
  <2> SUFFICES ASSUME AsTold(m)'
               PROVE  /\ RecordsAgree(m)' /\ HistoryKnows(m)' /\ MemoryMatches(m)'
                      /\ BuyFits(m)' /\ SellFits(m)'
    BY DEF Told
  <2>1. AsTold(m)
    BY <1>1 DEF AsTold, Undisturbed
  <2>2. /\ (HasPosition(m) <=> Held(m))
        /\ RecordsAgree(m) /\ HistoryKnows(m) /\ MemoryMatches(m)
        /\ ~InStage(m, {"acked"}) /\ ~InStage(m, {"filled", "acked"})
    BY <1>1, <1>5, <2>1, VisitKnows
  <2>3. mem'[m] = Visited(m, c)
    BY <1>2, <1>5 DEF TypeOK, BotTyped
  <2>4. RecordsAgree(m)' /\ HistoryKnows(m)'
    BY <1>1, <2>2 DEF RecordsAgree, HistoryKnows, InStage, Held
  <2>5. MemoryMatches(m)'
    <3>1. /\ mem'[m].clocks = mem[m].clocks
          /\ HasPosition(m) =>
               /\ mem'[m].price = mem[m].price /\ mem'[m].count = mem[m].count
               /\ mem'[m].tpDone = mem[m].tpDone /\ mem'[m].slDone = mem[m].slDone
          /\ ~HasPosition(m) => mem'[m].count = 0
      BY <2>3, VisitedFields
    <3>2. Held(m) <=> ledger[m].left > 0
      BY <2>2 DEF HistoryKnows
    <3> QED
      BY <1>1, <2>2, <3>1, <3>2 DEF MemoryMatches
  <2>6. BuyFits(m)' /\ SellFits(m)'
    BY <1>1, <1>3 DEF BuyFits, SellFits, Ordering
  <2> QED
    BY <2>4, <2>5, <2>6
<1> QED
  BY <1>4, <1>5

\* A submitted order belongs to the visited symbol; the others stay as they are.
LEMMA SubmitOthersTold ==
  ASSUME TypeOK, NEW v \in Markets, Visiting(v), order'.market = v,
         NEW r, mem' = [mem EXCEPT ![v] = r],
         UNCHANGED <<up, at, loaded, snap, exchange, history, recorded, missed, lates,
                   cut, misread>>,
         NEW m \in Markets, m # v, Told(m), order'.stage = "sent"
  PROVE  Told(m)'
<1>1. SameRecords(m) /\ mem'[m] = mem[m]
  BY DEF SameRecords, exchange, history, TypeOK, BotTyped
<1>2. Idle(m) /\ Idle(m)'
  BY DEF Idle, Visiting
<1> QED
  BY <1>1, <1>2, OthersTold

LEMMA SubmitBuyTold ==
  ASSUME TypeOK, ViewsHold, HistoryTold, NEW v \in Markets, SubmitBuy(v), NEW m \in Markets
  PROVE  Told(m)'
<1>1. /\ Told(m) /\ Visiting(v) /\ mem' = [mem EXCEPT ![v] = Visited(v, TRUE)]
      /\ order' = [NoOrder EXCEPT !.stage = "sent", !.market = v, !.base = BaseFree(v),
                                  !.id = bought]
      /\ UNCHANGED <<up, at, loaded, snap, exchange, history, recorded, missed, lates,
                   cut, misread>>
  BY DEF HistoryTold, SubmitBuy, readings
<1>2. /\ order'.stage = "sent" /\ order'.market = v /\ order'.side = "buy"
      /\ order'.base = BaseFree(v) /\ order'.reason = "entry"
  BY <1>1 DEF NoOrder
<1>3. CASE m # v
  BY <1>1, <1>2, <1>3, SubmitOthersTold
<1>4. CASE m = v
  <2> SUFFICES ASSUME AsTold(m)'
               PROVE  /\ RecordsAgree(m)' /\ HistoryKnows(m)' /\ MemoryMatches(m)'
                      /\ BuyFits(m)' /\ SellFits(m)'
    BY DEF Told
  <2>1. AsTold(m)
    BY <1>1 DEF AsTold, Undisturbed
  <2>2. /\ BaseFree(m) = held[m] /\ (HasPosition(m) <=> Held(m))
        /\ RecordsAgree(m) /\ HistoryKnows(m) /\ MemoryMatches(m)
        /\ ~InStage(m, {"acked"}) /\ ~InStage(m, {"filled", "acked"})
    BY <1>1, <1>4, <2>1, VisitKnows
  <2>3. ~HasPosition(m)
    BY <1>4, BuysWithoutPosition
  <2>4. mem'[m] = Visited(m, TRUE)
    BY <1>1, <1>4 DEF TypeOK, BotTyped
  <2>5. /\ mem'[m].clocks = mem[m].clocks /\ mem'[m].count = 0
        /\ ~mem'[m].tpDone /\ ~mem'[m].slDone
    BY <2>3, <2>4, VisitedFields
  <2>6. ledger[m].left = 0 /\ BaseFree(m) < PositionThreshold
    <3>1. ~(ledger[m].left > 0)
      BY <2>2, <2>3 DEF HistoryKnows
    <3> QED
      BY <2>3, <3>1, RowTyped, BaseTyped, SymbolTyped DEF HasPosition
  <2>7. RecordsAgree(m)' /\ HistoryKnows(m)'
    BY <1>1, <1>2, <2>2 DEF RecordsAgree, HistoryKnows, InStage, Held, exchange, history
  <2>8. MemoryMatches(m)'
    <3>1. /\ mem'[m].clocks = mem[m].clocks /\ mem'[m].count = 0 /\ up' = up
          /\ ledger'[m] = ledger[m] /\ ledger'[m].left = 0
      BY <1>1, <2>5, <2>6 DEF history
    <3>2. up => mem[m].clocks = ledger[m].clocks
      BY <2>2 DEF MemoryMatches
    <3> QED
      BY <3>1, <3>2 DEF MemoryMatches
  <2>9. SellFits(m)'
    BY <1>2 DEF SellFits, Ordering
  <2>10. BuyFits(m)'
    BY <1>1, <1>2, <1>4, <2>5, <2>6 DEF BuyFits, Ordering, history
  <2> QED
    BY <2>7, <2>8, <2>9, <2>10
<1> QED
  BY <1>3, <1>4

LEMMA SubmitSellTold ==
  ASSUME TypeOK, ViewsHold, HistoryTold, NEW v \in Markets, SubmitSell(v),
         NEW m \in Markets
  PROVE  Told(m)'
<1>1. /\ Told(m) /\ Visiting(v)
      /\ UNCHANGED <<up, at, loaded, snap, exchange, history, recorded, missed, lates,
                   cut, misread>>
  BY DEF HistoryTold, SubmitSell, observers, readings
<1>2. PICK c \in BOOLEAN : mem' = [mem EXCEPT ![v] = Visited(v, c)]
  BY DEF SubmitSell
<1>3. PICK T \in Signals(v) :
        /\ WantsSell(v, T)
        /\ order' = [stage |-> "sent", side |-> "sell", market |-> v,
                     base |-> BaseFree(v), id |-> 0, qty |-> SellPlan(v, T).qty,
                     reason |-> SellPlan(v, T).reason, gross |-> 0]
  BY DEF SubmitSell
<1>4. /\ order'.stage = "sent" /\ order'.market = v /\ order'.side = "sell"
      /\ order'.base = BaseFree(v) /\ order'.qty = SellPlan(v, T).qty
      /\ order'.reason = SellPlan(v, T).reason
  BY <1>3
<1>5. CASE m # v
  BY <1>1, <1>2, <1>4, <1>5, SubmitOthersTold
<1>6. CASE m = v
  <2> SUFFICES ASSUME AsTold(m)'
               PROVE  /\ RecordsAgree(m)' /\ HistoryKnows(m)' /\ MemoryMatches(m)'
                      /\ BuyFits(m)' /\ SellFits(m)'
    BY DEF Told
  <2>1. AsTold(m)
    BY <1>1 DEF AsTold, Undisturbed
  <2>2. /\ BaseFree(m) = held[m] /\ (HasPosition(m) <=> Held(m))
        /\ RecordsAgree(m) /\ HistoryKnows(m) /\ MemoryMatches(m)
        /\ ~InStage(m, {"acked"}) /\ ~InStage(m, {"filled", "acked"})
    BY <1>1, <1>6, <2>1, VisitKnows
  <2>3. HasPosition(m) /\ T # {} /\ T \in SUBSET Triggers
    BY <1>3, <1>6, BotAssumption DEF WantsSell, ExitReady, HasPosition, Signals
  <2>4. /\ ledger[m].left > 0 /\ held[m] < ledger[m].left + PositionThreshold
        /\ (mem[m].tpDone <=> ledger[m].tpDone) /\ (mem[m].slDone <=> ledger[m].slDone)
    BY <1>1, <1>6, <2>2, <2>3 DEF HistoryKnows, MemoryMatches, Visiting
  <2>5. /\ order'.qty \in Nat
        /\ Takes(order'.reason) => ~mem[m].tpDone
        /\ Cuts(order'.reason) => ~mem[m].slDone
    <3>1. mem[m].tpDone \in BOOLEAN /\ mem[m].slDone \in BOOLEAN
      BY RowTyped DEF MemoryRecords
    <3>2. /\ SellPlan(m, T).qty \in Nat
          /\ Takes(SellPlan(m, T).reason) => ~mem[m].tpDone
          /\ Cuts(SellPlan(m, T).reason) => ~mem[m].slDone
      BY <2>3, <3>1, BaseTyped, PlanFits DEF SellPlan
    <3> QED
      BY <1>4, <1>6, <3>2
  <2>6. /\ mem'[m].clocks = mem[m].clocks /\ mem'[m].count = mem[m].count
        /\ mem'[m].price = mem[m].price
        /\ mem'[m].tpDone = mem[m].tpDone /\ mem'[m].slDone = mem[m].slDone
    <3>1. mem'[m] = Visited(m, c)
      BY <1>2, <1>6 DEF TypeOK, BotTyped
    <3> QED
      BY <2>3, <3>1, VisitedFields
  <2>7. RecordsAgree(m)' /\ HistoryKnows(m)'
    BY <1>1, <1>4, <2>2 DEF RecordsAgree, HistoryKnows, InStage, Held, exchange, history
  <2>8. MemoryMatches(m)'
    BY <1>1, <1>4, <2>2, <2>6 DEF MemoryMatches, history
  <2>9. BuyFits(m)'
    BY <1>4 DEF BuyFits, Ordering
  <2>10. SellFits(m)'
    BY <1>1, <1>4, <1>6, <2>2, <2>4, <2>5 DEF SellFits, Ordering, history, exchange
  <2> QED
    BY <2>7, <2>8, <2>9, <2>10
<1> QED
  BY <1>5, <1>6

-----------------------------------------------------------------------------
(* Orders that come to nothing, and those nobody hears of *)

\* An order that was not executed leaves the symbol as it was.
LEMMA GivenUpTold ==
  ASSUME TypeOK, ViewsHold, NEW m \in Markets, Told(m), SameRecords(m),
         order.stage # "none", order.market # m \/ order.stage = "sent",
         order' = NoOrder, at' = NextMarket, UNCHANGED <<up, loaded, snap, mem>>
  PROVE  Told(m)'
<1>1. at > 0 /\ up /\ order.market = at /\ order'.stage = "none"
  BY DEF ViewsHold, OrderIsVisited, NoOrder
<1>2. CASE order.market # m
  BY <1>1, <1>2, OthersTold DEF Idle
<1>3. CASE order.market = m /\ order.stage = "sent"
  <2> SUFFICES ASSUME AsTold(m)'
               PROVE  /\ RecordsAgree(m)' /\ HistoryKnows(m)' /\ MemoryMatches(m)'
                      /\ BuyFits(m)' /\ SellFits(m)'
    BY DEF Told
  <2>1. RecordsAgree(m) /\ HistoryKnows(m) /\ MemoryMatches(m)
    BY DEF AsTold, Undisturbed, SameRecords, Told
  <2>2. RecordsAgree(m)' /\ HistoryKnows(m)' /\ MemoryMatches(m)'
    BY <1>3, <2>1 DEF RecordsAgree, HistoryKnows, MemoryMatches, SameRecords, InStage, Held
  <2>3. BuyFits(m)' /\ SellFits(m)'
    BY <1>1 DEF BuyFits, SellFits, Ordering
  <2> QED
    BY <2>2, <2>3
<1> QED
  BY <1>2, <1>3

\* The counters of lost and late orders
LEMMA Counted ==
  ASSUME TypeOK, NEW m \in Markets, NEW n \in Markets
  PROVE  /\ missed' = [missed EXCEPT ![n] = @ + 1] =>
              IF m = n THEN missed'[m] # 0 ELSE missed'[m] = missed[m]
         /\ lates' = [lates EXCEPT ![n] = @ + 1] =>
              IF m = n THEN lates'[m] # 0 ELSE lates'[m] = lates[m]
BY DEF TypeOK, ObserversTyped

LEMMA RejectedTold ==
  ASSUME TypeOK, ViewsHold, HistoryTold, Rejected, NEW m \in Markets
  PROVE  Told(m)'
<1>1. Told(m) /\ SameRecords(m)
  BY DEF HistoryTold, SameRecords, Rejected, exchange, history, observers, readings
<1>2. /\ order.stage = "sent" /\ order' = NoOrder /\ at' = NextMarket
      /\ UNCHANGED <<up, loaded, snap, mem>>
  BY DEF Rejected, GiveUp
<1> QED
  BY <1>1, <1>2, GivenUpTold

LEMMA LostTold ==
  ASSUME TypeOK, ViewsHold, HistoryTold, ResponseLost \/ TimesOut \/ BookkeepingFails,
         NEW m \in Markets
  PROVE  Told(m)'
<1>1. /\ order.stage # "none" /\ order' = NoOrder /\ at' = NextMarket
      /\ missed' = [missed EXCEPT ![order.market] = @ + 1]
      /\ UNCHANGED <<up, loaded, snap, mem, held, lots, ledger, recorded, cut, misread>>
      /\ lates' = lates \/ lates' = [lates EXCEPT ![order.market] = @ + 1]
  BY DEF ResponseLost, TimesOut, BookkeepingFails, GiveUp, Postpone, exchange, history, readings
<1>2. order.market \in Markets
  BY OrderFieldsTyped
<1>3. CASE m = order.market
  BY <1>1, <1>2, <1>3, Counted DEF Told, AsTold, Undisturbed
<1>4. CASE m # order.market
  <2>1. SameRecords(m) /\ Told(m)
    BY <1>1, <1>2, <1>4, Counted DEF SameRecords, HistoryTold
  <2> QED
    BY <1>1, <1>4, <2>1, GivenUpTold
<1> QED
  BY <1>3, <1>4

LEMMA CrashTold ==
  ASSUME TypeOK, ViewsHold, HistoryTold, Crash, NEW m \in Markets
  PROVE  Told(m)'
<1>1. /\ Told(m) /\ up' = FALSE /\ at' = 0 /\ loaded' = FALSE /\ order'.stage = "none"
      /\ UNCHANGED <<held, lots, ledger, recorded, cut, misread>>
  BY DEF HistoryTold, Crash, NoOrder, exchange, history, readings
<1>2. order.market \in Markets
  BY OrderFieldsTyped
<1>3. \/ order.stage \in {"none", "sent"} /\ UNCHANGED <<missed, lates>>
      \/ /\ missed' = [missed EXCEPT ![order.market] = @ + 1]
         /\ lates' = lates \/ lates' = [lates EXCEPT ![order.market] = @ + 1]
         /\ order.stage # "none"
  BY DEF Crash, Postpone
<1> SUFFICES ASSUME AsTold(m)'
             PROVE  /\ RecordsAgree(m)' /\ HistoryKnows(m)' /\ MemoryMatches(m)'
                    /\ BuyFits(m)' /\ SellFits(m)'
  BY DEF Told
<1>4. AsTold(m) /\ ~InStage(m, {"filled", "acked"})
  BY <1>1, <1>2, <1>3, Counted DEF AsTold, Undisturbed, InStage
<1>5. RecordsAgree(m) /\ HistoryKnows(m)
  BY <1>1, <1>4 DEF Told
<1>6. RecordsAgree(m)' /\ HistoryKnows(m)'
  BY <1>1, <1>4, <1>5 DEF RecordsAgree, HistoryKnows, InStage, Held
<1>7. MemoryMatches(m)' /\ BuyFits(m)' /\ SellFits(m)'
  BY <1>1 DEF MemoryMatches, BuyFits, SellFits, Ordering
<1> QED
  BY <1>6, <1>7

\* A restart reads the history.
LEMMA StartTold ==
  ASSUME TypeOK, ViewsHold, HistoryTold, Start, NEW m \in Markets
  PROVE  Told(m)'
<1>1. /\ Told(m) /\ ~up /\ at' = at
      /\ mem' = [n \in Markets |-> RecoveredMemory(ledger[n])]
      /\ UNCHANGED <<loaded, snap, order, held, lots, ledger, recorded, missed, lates,
                     cut>>
  BY DEF HistoryTold, Start, exchange, history, observers, readings
<1>2. at \in 0..MarketCount /\ ~(at > 0) /\ order.stage = "none"
  BY <1>1, SymbolTyped DEF ViewsHold, OrderIsVisited
<1> SUFFICES ASSUME AsTold(m)'
             PROVE  /\ RecordsAgree(m)' /\ HistoryKnows(m)' /\ MemoryMatches(m)'
                    /\ BuyFits(m)' /\ SellFits(m)'
  BY DEF Told
<1>3. RecordsAgree(m) /\ HistoryKnows(m)
  BY <1>1 DEF Told, AsTold, Undisturbed
<1>4. RecordsAgree(m)' /\ HistoryKnows(m)'
  BY <1>1, <1>3 DEF RecordsAgree, HistoryKnows, InStage, Held
<1>5. MemoryMatches(m)'
  <2>1. mem'[m] = RecoveredMemory(ledger[m])
    BY <1>1
  <2>2. ledger[m].ends = {} \/ ledger[m].ends = {ledger[m].left}
    BY <1>3, RowTyped DEF RecordsAgree
  <2>3. /\ ledger[m].left > 0 => mem'[m].price = ledger[m].lots
        /\ mem'[m].count <= 1
        /\ mem'[m].tpDone = ledger[m].tpDone /\ mem'[m].slDone = ledger[m].slDone
        /\ mem'[m].clocks = ledger[m].clocks
    BY <2>1, <2>2, RowTyped, RecoveredFields
  <2> QED
    BY <1>1, <2>3 DEF MemoryMatches
<1>6. BuyFits(m)' /\ SellFits(m)'
  BY <1>1, <1>2 DEF BuyFits, SellFits, Ordering
<1> QED
  BY <1>4, <1>5, <1>6

\* All clocks age together.
LEMMA TickTold ==
  ASSUME TypeOK, HistoryTold, Tick, NEW m \in Markets
  PROVE  Told(m)'
<1>1. /\ Told(m) /\ order.stage = "none"
      /\ UNCHANGED <<up, at, loaded, snap, order, held, lots, missed, lates, cut, misread>>
  BY DEF HistoryTold, Tick, exchange, readings
<1>2. /\ ledger'[m] = [ledger[m] EXCEPT !.clocks = OlderClocks(@)]
      /\ recorded'[m] = [recorded[m] EXCEPT !.clocks = OlderClocks(@)]
      /\ up => mem'[m] = [mem[m] EXCEPT !.clocks = OlderClocks(@)]
  BY DEF Tick
<1>3. /\ ledger'[m].clocks = OlderClocks(ledger[m].clocks)
      /\ ledger'[m].left = ledger[m].left /\ ledger'[m].lots = ledger[m].lots
      /\ ledger'[m].ends = ledger[m].ends
      /\ ledger'[m].tpDone = ledger[m].tpDone /\ ledger'[m].slDone = ledger[m].slDone
  BY <1>2, RowTyped DEF LedgerRecords
<1>4. /\ recorded'[m].clocks = OlderClocks(recorded[m].clocks)
      /\ recorded'[m].parts = recorded[m].parts
  <2>1. recorded[m] \in [clocks : ClockRecords, parts : SUBSET PartialReasons]
    BY DEF TypeOK, ObserversTyped
  <2> QED
    BY <1>2, <2>1
<1>5. up => /\ mem'[m].clocks = OlderClocks(mem[m].clocks)
            /\ mem'[m].price = mem[m].price /\ mem'[m].count = mem[m].count
            /\ mem'[m].tpDone = mem[m].tpDone /\ mem'[m].slDone = mem[m].slDone
  BY <1>2, RowTyped DEF MemoryRecords
<1> SUFFICES ASSUME AsTold(m)'
             PROVE  /\ RecordsAgree(m)' /\ HistoryKnows(m)' /\ MemoryMatches(m)'
                    /\ BuyFits(m)' /\ SellFits(m)'
  BY DEF Told
<1>6. RecordsAgree(m) /\ HistoryKnows(m) /\ MemoryMatches(m)
  BY <1>1 DEF Told, AsTold, Undisturbed
<1>7. RecordsAgree(m)'
  BY <1>3, <1>4, <1>6 DEF RecordsAgree
<1>8. HistoryKnows(m)'
  BY <1>1, <1>3, <1>6 DEF HistoryKnows, InStage, Held
<1>9. MemoryMatches(m)'
  BY <1>1, <1>3, <1>5, <1>6 DEF MemoryMatches, InStage
<1>10. BuyFits(m)' /\ SellFits(m)'
  BY <1>1 DEF BuyFits, SellFits, Ordering
<1> QED
  BY <1>7, <1>8, <1>9, <1>10

-----------------------------------------------------------------------------
(* Executions *)

\* An execution changes one symbol of the account.
LEMMA ExecutedElsewhere ==
  ASSUME TypeOK, NEW n \in Markets, NEW m \in Markets, m # n
  PROVE  /\ \A id \in BuyIds : ExecuteBuy(n, id) => held'[m] = held[m] /\ lots'[m] = lots[m]
         /\ \A qty \in Nat : ExecuteSell(n, qty) => held'[m] = held[m] /\ lots'[m] = lots[m]
BY DEF ExecuteBuy, ExecuteSell, TypeOK, ExchangeTyped

LEMMA ExchangeFillsTold ==
  ASSUME TypeOK, ViewsHold, HistoryTold, ExchangeFills, NEW m \in Markets
  PROVE  Told(m)'
<1>1. /\ Told(m) /\ View(m) /\ order.stage = "sent" /\ order' = [order EXCEPT !.stage = "filled"]
      /\ UNCHANGED <<up, mem, ledger, recorded, missed, lates>>
      /\ \A n \in Markets : n \in cut => n \in cut'
      /\ \A n \in Markets \ {order.market} :
           (n \in cut)' = (n \in cut) /\ (n \in misread)' = (n \in misread)
  BY DEF HistoryTold, ViewsHold, ExchangeFills, Observed, readings, history
<1>2. /\ order'.stage = "filled" /\ order'.market = order.market /\ order'.side = order.side
      /\ order'.base = order.base /\ order'.qty = order.qty /\ order'.id = order.id
      /\ order'.reason = order.reason
  BY <1>1 DEF TypeOK, BotTyped, OrderRecords
<1>3. order.side \in {"buy", "sell"}
  BY DEF TypeOK, BotTyped, OrderRecords
<1>4. CASE m # order.market
  <2>1. SameRecords(m)
    BY <1>1, <1>4, OrderFieldsTyped, ExecutedElsewhere DEF ExchangeFills, SameRecords
  <2>2. Idle(m) /\ Idle(m)'
    BY <1>2, <1>4 DEF Idle
  <2> QED
    BY <1>1, <2>1, <2>2, OthersTold
<1>5. CASE m = order.market
  <2> SUFFICES ASSUME AsTold(m)'
               PROVE  /\ RecordsAgree(m)' /\ HistoryKnows(m)' /\ MemoryMatches(m)'
                      /\ BuyFits(m)' /\ SellFits(m)'
    BY DEF Told
  <2>1. /\ RecordsAgree(m) /\ HistoryKnows(m) /\ MemoryMatches(m) /\ BuyFits(m) /\ SellFits(m)
    BY <1>1 DEF Told, AsTold, Undisturbed
  <2>2. RecordsAgree(m)' /\ HistoryKnows(m)'
    BY <1>1, <1>2, <1>5, <2>1 DEF RecordsAgree, HistoryKnows, InStage
  <2>3. MemoryMatches(m)'
    BY <1>1, <1>2, <2>1 DEF MemoryMatches, InStage
  <2>4. /\ Held(m) <=> ledger[m].left > 0
        /\ Held(m) => ledger[m].lots = lots[m]
    BY <1>1, <2>1 DEF HistoryKnows, InStage
  <2>5. CASE order.side = "buy"
    <3>1. PICK q \in BuyFills :
            /\ held' = [held EXCEPT ![m] = @ + q]
            /\ lots' = [lots EXCEPT ![m] = OwnedLots(held[m] + q, @ \cup {order.id})]
      BY <1>5, <2>5 DEF ExchangeFills, ExecuteBuy
    <3>2. /\ held'[m] = held[m] + q
          /\ lots'[m] = OwnedLots(held[m] + q, lots[m] \cup {order.id})
      BY <3>1 DEF TypeOK, ExchangeTyped
    <3>3. q \in Nat /\ q >= PositionThreshold /\ q <= BuyAmount
      BY BotAssumption
    <3>4. ledger[m].left = 0
      BY <1>1, <1>5, <2>1, <2>5 DEF BuyFits, Ordering
    <3>5. held[m] < PositionThreshold /\ lots[m] = {}
      BY <1>1, <2>4, <3>4, SymbolTyped DEF Held, View, DustIsNoLot
    <3>6. /\ Held(m)' /\ held'[m] < BuyAmount + PositionThreshold
          /\ lots'[m] = {order.id}
      BY <3>2, <3>3, <3>5, SymbolTyped, BotAssumption DEF Held, OwnedLots
    <3>7. BuyFits(m)'
      BY <1>1, <1>2, <1>5, <2>1, <2>5, <3>6 DEF BuyFits, Ordering
    <3>8. SellFits(m)'
      BY <1>2, <2>5 DEF SellFits, Ordering
    <3> QED
      BY <2>2, <2>3, <3>7, <3>8
  <2>6. CASE order.side = "sell"
    <3>1. ExecuteSell(m, order.qty) /\ Covered(m, order.qty)
      BY <1>5, <2>6 DEF ExchangeFills
    <3>2. /\ held'[m] = held[m] - order.qty
          /\ lots'[m] = OwnedLots(held[m] - order.qty, lots[m])
      BY <3>1 DEF ExecuteSell, TypeOK, ExchangeTyped
    <3>3. ledger[m].left > 0 /\ held[m] = order.base
      BY <1>1, <1>5, <2>1, <2>6 DEF SellFits, Ordering
    <3>4. /\ held'[m] = order.base - order.qty
          /\ Held(m)' => lots'[m] = ledger[m].lots
      BY <2>4, <3>2, <3>3 DEF OwnedLots, Held
    <3>5. Leaves(order', order'.base)
      <4>1. cut' = Observed(cut, m, ~LeavesAsTold(order.reason, held[m] - order.qty))
        BY <1>5, <2>6 DEF ExchangeFills
      <4>2. m \notin cut'
        BY DEF AsTold
      <4>3. LeavesAsTold(order.reason, held[m] - order.qty)
        BY <4>1, <4>2 DEF Observed
      <4> QED
        BY <1>2, <3>1, <3>3, <4>3, SymbolTyped, OrderFieldsTyped DEF Leaves, Covered
    <3>6. SellFits(m)'
      BY <1>1, <1>2, <1>5, <2>1, <2>6, <3>4, <3>5 DEF SellFits, Ordering
    <3>7. BuyFits(m)'
      BY <1>2, <2>6 DEF BuyFits, Ordering
    <3> QED
      BY <2>2, <2>3, <3>6, <3>7
  <2> QED
    BY <1>3, <2>5, <2>6
<1> QED
  BY <1>4, <1>5

\* A late order only executes for a symbol that has one.
LEMMA LateFillsTold ==
  ASSUME TypeOK, ViewsHold, HistoryTold, NEW n \in Markets,
         LateBuyFills(n) \/ LateSellFills(n), NEW m \in Markets
  PROVE  Told(m)'
<1>1. /\ Told(m) /\ View(n)
      /\ UNCHANGED <<up, at, loaded, snap, mem, order, ledger, recorded, missed, lates,
                   cut, misread>>
  BY DEF HistoryTold, ViewsHold, LateBuyFills, LateSellFills, bot, history, observers, readings
<1>2. lates[n] # 0
  BY <1>1, LateFillsCounted
<1>3. CASE m = n
  BY <1>1, <1>2, <1>3 DEF Told, AsTold, Undisturbed
<1>4. CASE m # n
  <2>1. lateBuys[n] \subseteq BuyIds /\ lateSells[n] \in Nat
    BY SymbolTyped
  <2>2. held'[m] = held[m] /\ lots'[m] = lots[m]
    BY <1>4, <2>1, ExecutedElsewhere DEF LateBuyFills, LateSellFills
  <2> SUFFICES ASSUME AsTold(m)'
               PROVE  /\ RecordsAgree(m)' /\ HistoryKnows(m)' /\ MemoryMatches(m)'
                      /\ BuyFits(m)' /\ SellFits(m)'
    BY DEF Told
  <2>3. /\ RecordsAgree(m) /\ HistoryKnows(m) /\ MemoryMatches(m)
        /\ BuyFits(m) /\ SellFits(m)
    BY <1>1 DEF Told, AsTold, Undisturbed
  <2>4. RecordsAgree(m)' /\ HistoryKnows(m)' /\ MemoryMatches(m)'
    BY <1>1, <2>2, <2>3
       DEF RecordsAgree, HistoryKnows, MemoryMatches, InStage, Held
  <2>5. BuyFits(m)' /\ SellFits(m)'
    BY <1>1, <2>2, <2>3 DEF BuyFits, SellFits, Ordering, Held
  <2> QED
    BY <2>4, <2>5
<1> QED
  BY <1>3, <1>4

\* Time of day, prices and stuttering
LEMMA FrameTold ==
  ASSUME HistoryTold, NEW m \in Markets,
         UNCHANGED <<up, at, loaded, snap, mem, order, held, lots, ledger, recorded,
                     missed, lates, cut, misread>>
  PROVE  Told(m)'
<1>1. Told(m)
  BY DEF HistoryTold
<1> SUFFICES ASSUME AsTold(m)'
             PROVE  /\ RecordsAgree(m)' /\ HistoryKnows(m)' /\ MemoryMatches(m)'
                    /\ BuyFits(m)' /\ SellFits(m)'
  BY DEF Told
<1>2. /\ RecordsAgree(m) /\ HistoryKnows(m) /\ MemoryMatches(m)
      /\ BuyFits(m) /\ SellFits(m)
  BY <1>1 DEF Told, AsTold, Undisturbed
<1>3. RecordsAgree(m)' /\ HistoryKnows(m)' /\ MemoryMatches(m)'
  BY <1>2 DEF RecordsAgree, HistoryKnows, MemoryMatches, InStage, Held
<1>4. BuyFits(m)' /\ SellFits(m)'
  BY <1>2 DEF BuyFits, SellFits, Ordering, Held
<1> QED
  BY <1>3, <1>4

-----------------------------------------------------------------------------
(* Responses and records *)

LEMMA AcknowledgedTold ==
  ASSUME TypeOK, ViewsHold, HistoryTold, Acknowledged \/ AcknowledgedEarly,
         NEW m \in Markets
  PROVE  Told(m)'
<1>1. PICK gross \in Gross(order) : ApplyFill(order, gross)
  BY DEF Acknowledged, AcknowledgedEarly
<1>2. /\ Told(m) /\ order.stage # "none"
      /\ UNCHANGED <<up, held, lots, ledger, recorded, missed, cut, misread>>
      /\ lates' = lates \/ lates' = [lates EXCEPT ![order.market] = @ + 1]
  BY DEF HistoryTold, Acknowledged, AcknowledgedEarly, Postpone, exchange, history, observers, readings,
         readings
<1>3. /\ order'.stage = "acked" /\ order'.market = order.market /\ order'.side = order.side
      /\ order'.base = order.base /\ order'.qty = order.qty /\ order'.id = order.id
      /\ order'.reason = order.reason
  BY <1>1 DEF ApplyFill, TypeOK, BotTyped, OrderRecords
<1>4. /\ order.side \in {"buy", "sell"} /\ order.market \in Markets
      /\ order.base \in Nat /\ order.qty \in Nat /\ order.id \in BuyIds
  BY DEF TypeOK, BotTyped, OrderRecords
<1>5. at > 0 /\ order.market = at
  BY <1>2 DEF ViewsHold, OrderIsVisited
<1>6. CASE m # order.market
  <2>1. mem'[m] = mem[m]
    BY <1>1, <1>4, <1>6 DEF ApplyFill, TypeOK, BotTyped
  <2>2. lates'[m] = lates[m]
    BY <1>2, <1>4, <1>6, Counted
  <2>3. SameRecords(m) /\ Idle(m) /\ Idle(m)'
    BY <1>2, <1>3, <1>6, <2>2 DEF SameRecords, Idle
  <2> QED
    BY <1>2, <2>1, <2>3, OthersTold
<1>7. CASE m = order.market
  <2> SUFFICES ASSUME AsTold(m)'
               PROVE  /\ RecordsAgree(m)' /\ HistoryKnows(m)' /\ MemoryMatches(m)'
                      /\ BuyFits(m)' /\ SellFits(m)'
    BY DEF Told
  <2>1. lates' = lates /\ AsTold(m)
    BY <1>2, <1>4, <1>7, Counted DEF AsTold, Undisturbed
  <2>2. order.stage = "filled"
    <3>1. CASE Acknowledged
      BY <3>1 DEF Acknowledged
    <3>2. CASE AcknowledgedEarly
      <4>1. lates'[m] # 0
        BY <1>7, <3>2, Counted DEF AcknowledgedEarly, Postpone
      <4> QED
        BY <4>1 DEF AsTold, Undisturbed
    <3> QED
      BY <3>1, <3>2
  <2>3. /\ RecordsAgree(m) /\ MemoryMatches(m) /\ BuyFits(m) /\ SellFits(m)
    BY <1>2, <2>1 DEF Told
  <2>4. RecordsAgree(m)' /\ HistoryKnows(m)'
    BY <1>2, <1>3, <1>7, <2>3 DEF RecordsAgree, HistoryKnows, InStage
  <2>5. /\ mem[m].count <= 1 /\ mem[m].clocks = ledger[m].clocks
        /\ ledger[m].left > 0 => /\ mem[m].price = ledger[m].lots
                                 /\ mem[m].tpDone <=> ledger[m].tpDone
                                 /\ mem[m].slDone <=> ledger[m].slDone
    BY <1>5, <2>2, <2>3 DEF MemoryMatches, InStage, ViewsHold, OrderIsVisited
  <2>6. CASE order.side = "buy"
    <3>1. Ordering(m, "buy") /\ Ordering(m, "buy")'
      BY <1>2, <1>3, <1>7, <2>6 DEF Ordering
    <3>2. /\ ledger[m].left = 0 /\ order.base < PositionThreshold /\ order.reason = "entry"
          /\ ~mem[m].tpDone /\ ~mem[m].slDone /\ mem[m].count = 0
          /\ Held(m) /\ lots[m] = {order.id} /\ held[m] < BuyAmount + PositionThreshold
      BY <2>2, <2>3, <3>1 DEF BuyFits
    <3>3. mem'[m] = ApplyBuyFill(mem[m], order.id, FALSE)
      <4>1. (order.base >= PositionThreshold) = FALSE
        BY <1>4, <3>2, SymbolTyped
      <4>2. mem'[m] = ApplyBuyFill(mem[m], order.id, order.base >= PositionThreshold)
        BY <1>1, <1>7, <2>6 DEF ApplyFill, TypeOK, BotTyped
      <4> QED
        BY <4>1, <4>2
    <3>4. /\ mem'[m].price = {order.id} /\ mem'[m].count = 1
          /\ mem'[m].tpDone = mem[m].tpDone /\ mem'[m].slDone = mem[m].slDone
          /\ mem'[m].clocks = TradeClocks(mem[m].clocks)
      <4>1. mem[m] \in MemoryRecords
        BY RowTyped
      <4> DEFINE next == ApplyBuyFill(mem[m], order.id, FALSE)
      <4>2. /\ next.price = {order.id} /\ next.count = mem[m].count + 1
            /\ next.tpDone = mem[m].tpDone /\ next.slDone = mem[m].slDone
            /\ next.clocks = TradeClocks(mem[m].clocks)
        BY <1>4, <4>1, FirstBuyFields
      <4>3. mem'[m] = next
        BY <3>3
      <4> HIDE DEF next
      <4> QED
        BY <3>2, <4>2, <4>3
    <3>5. MemoryMatches(m)'
      BY <1>3, <1>7, <3>4 DEF MemoryMatches, InStage
    <3>6. BuyFits(m)'
      BY <1>2, <1>3, <2>5, <3>2, <3>4 DEF BuyFits, Held
    <3>7. SellFits(m)'
      BY <1>3, <2>6 DEF SellFits, Ordering
    <3> QED
      BY <2>4, <3>5, <3>6, <3>7
  <2>7. CASE order.side = "sell"
    <3>1. Ordering(m, "sell") /\ Ordering(m, "sell")'
      BY <1>2, <1>3, <1>7, <2>7 DEF Ordering
    <3>2. /\ ledger[m].left > 0 /\ order.base < ledger[m].left + PositionThreshold
          /\ Leaves(order, order.base)
          /\ Takes(order.reason) => ~ledger[m].tpDone
          /\ Cuts(order.reason) => ~ledger[m].slDone
          /\ held[m] = order.base - order.qty
          /\ Held(m) => lots[m] = ledger[m].lots
      BY <2>2, <2>3, <3>1 DEF SellFits
    <3>3. mem'[m] = ApplySellFill(mem[m], order.base, order.qty, order.reason)
      BY <1>1, <1>7, <2>7 DEF ApplyFill, TypeOK, BotTyped
    <3>4. /\ mem'[m].price = mem[m].price /\ mem'[m].count = 0
          /\ mem'[m].tpDone <=> mem[m].tpDone \/ Takes(order.reason)
          /\ mem'[m].slDone <=> mem[m].slDone \/ Cuts(order.reason)
          /\ mem'[m].clocks = SellClocks(mem[m].clocks, order.reason, Takes(order.reason))
      BY <1>4, <2>5, <3>2, <3>3, RowTyped, SaleFields
    <3>5. MemoryMatches(m)'
      BY <1>3, <1>7, <3>4 DEF MemoryMatches, InStage
    <3>6. SellFits(m)'
      <4>1. /\ ledger'[m] = ledger[m] /\ held'[m] = held[m] /\ lots'[m] = lots[m]
            /\ Leaves(order', order'.base)
        BY <1>2, <1>3, <3>2 DEF Leaves
      <4>2. /\ mem'[m].price = ledger'[m].lots /\ mem'[m].count = 0
            /\ mem'[m].tpDone <=> ledger'[m].tpDone \/ Takes(order'.reason)
            /\ mem'[m].slDone <=> ledger'[m].slDone \/ Cuts(order'.reason)
            /\ mem'[m].clocks =
                 SellClocks(ledger'[m].clocks, order'.reason, Takes(order'.reason))
        BY <1>3, <2>5, <3>2, <3>4, <4>1
      <4> QED
        BY <1>3, <3>2, <4>1, <4>2 DEF SellFits, Held
    <3>7. BuyFits(m)'
      BY <1>3, <2>7 DEF BuyFits, Ordering
    <3> QED
      BY <2>4, <3>5, <3>6, <3>7
  <2> QED
    BY <1>4, <2>6, <2>7
<1> QED
  BY <1>6, <1>7

\* The record of a fill brings the history level with the account again.
LEMMA RecordBuyTold ==
  ASSUME TypeOK, ViewsHold, HistoryTold, Record, order.side = "buy",
         NEW m \in Markets, m = order.market, AsTold(m)
  PROVE  RecordsAgree(m)' /\ HistoryKnows(m)' /\ MemoryMatches(m)'
<1>1. /\ order.stage = "acked" /\ order'.stage = "none" /\ mem' = mem
      /\ UNCHANGED <<up, held, lots>>
      /\ ledger' = [ledger EXCEPT ![m] = ReplayBuy(@, order.id, BuyAmount)]
      /\ recorded' = [recorded EXCEPT ![m] = Observe(@, order)]
  BY DEF Record, AfterRecord, NoOrder, exchange
<1>2. RecordsAgree(m) /\ MemoryMatches(m) /\ BuyFits(m)
  BY DEF HistoryTold, Told
<1>3. /\ ledger[m].left = 0 /\ order.reason = "entry"
      /\ ~mem[m].tpDone /\ ~mem[m].slDone /\ Held(m) /\ lots[m] = {order.id}
      /\ held[m] < BuyAmount + PositionThreshold
      /\ mem[m].price = {order.id} /\ mem[m].clocks = TradeClocks(ledger[m].clocks)
  BY <1>1, <1>2 DEF BuyFits, Ordering
<1>4. ledger[m].lots = {} /\ ~ledger[m].tpDone /\ ~ledger[m].slDone
  BY <1>2, <1>3 DEF RecordsAgree
<1>5. ledger[m] \in LedgerRecords /\ order.id \in BuyIds /\ BuyAmount \in Nat
  BY RowTyped, OrderFieldsTyped, BotAssumption
<1>6. ledger'[m] = ReplayBuy(ledger[m], order.id, BuyAmount)
  BY <1>1 DEF TypeOK, HistoryTyped
<1>7. /\ ledger'[m].left = BuyAmount /\ ledger'[m].lots = {order.id}
      /\ ledger'[m].ends = {BuyAmount}
      /\ ~ledger'[m].tpDone /\ ~ledger'[m].slDone
      /\ ledger'[m].clocks = TradeClocks(ledger[m].clocks)
  <2> DEFINE next == ReplayBuy(ledger[m], order.id, BuyAmount)
  <2>1. /\ next.left = BuyAmount /\ next.lots = {order.id} /\ next.ends = {BuyAmount}
        /\ ~next.tpDone /\ ~next.slDone
        /\ next.clocks = TradeClocks(ledger[m].clocks)
    BY <1>3, <1>4, <1>5, ReplayOfFirstBuy
  <2> QED
    BY <1>6, <2>1
<1>8. BuyAmount > 0
  BY <1>3, <1>5, SymbolTyped DEF Held
<1>9. /\ recorded'[m].clocks = TradeClocks(recorded[m].clocks)
      /\ recorded'[m].parts \subseteq recorded[m].parts
  <2>1. recorded'[m] = Observe(recorded[m], order)
    BY <1>1 DEF TypeOK, ObserversTyped
  <2>2. order.reason \notin PartialReasons /\ order.reason \notin StopReasons
        /\ ~Takes(order.reason)
    BY <1>3 DEF PartialReasons, StopReasons, Takes
  <2>3. /\ recorded'[m].clocks = SellClocks(recorded[m].clocks, order.reason, FALSE)
        /\ recorded'[m].parts \subseteq recorded[m].parts
    BY <2>1, <2>2 DEF Observe, SellClocks, Takes
  <2>4. SellClocks(recorded[m].clocks, order.reason, FALSE) = TradeClocks(recorded[m].clocks)
    BY <2>2, RowTyped DEF SellClocks, TradeClocks, ClockRecords
  <2> QED
    BY <2>3, <2>4
<1>10. RecordsAgree(m)'
  BY <1>2, <1>4, <1>7, <1>8, <1>9 DEF RecordsAgree
<1>11. HistoryKnows(m)'
  BY <1>1, <1>3, <1>7, <1>8 DEF HistoryKnows, Held
<1>12. MemoryMatches(m)'
  <2>1. mem[m].count <= 1 \/ ~up
    BY <1>2 DEF MemoryMatches
  <2> QED
    BY <1>1, <1>3, <1>7, <2>1 DEF MemoryMatches
<1> QED
  BY <1>10, <1>11, <1>12

LEMMA RecordSellTold ==
  ASSUME TypeOK, ViewsHold, HistoryTold, Record, order.side = "sell",
         NEW m \in Markets, m = order.market, AsTold(m)
  PROVE  RecordsAgree(m)' /\ HistoryKnows(m)' /\ MemoryMatches(m)'
<1> DEFINE rec == SellRecord(order)
           partial == order.reason \in PartialReasons /\ ~Cleared(order.base, order.qty)
<1>1. /\ order.stage = "acked" /\ order'.stage = "none"
      /\ UNCHANGED <<up, held, lots>>
      /\ ledger' = [ledger EXCEPT ![m] = ReplaySell(@, rec)]
      /\ recorded' = [recorded EXCEPT ![m] = Observe(@, order)]
  BY DEF Record, NoOrder, exchange
<1>2. RecordsAgree(m) /\ SellFits(m)
  BY DEF HistoryTold, Told
<1>3. /\ ledger[m].left > 0 /\ order.base < ledger[m].left + PositionThreshold
      /\ Leaves(order, order.base)
      /\ held[m] = order.base - order.qty
      /\ Held(m) => lots[m] = ledger[m].lots
      /\ mem[m].price = ledger[m].lots /\ mem[m].count = 0
      /\ mem[m].tpDone <=> ledger[m].tpDone \/ Takes(order.reason)
      /\ mem[m].slDone <=> ledger[m].slDone \/ Cuts(order.reason)
      /\ mem[m].clocks = SellClocks(ledger[m].clocks, order.reason, Takes(order.reason))
  BY <1>1, <1>2 DEF SellFits, Ordering
<1>4. /\ ledger[m].ends = {ledger[m].left} /\ recorded[m].clocks = ledger[m].clocks
      /\ "partial_take_profit" \in recorded[m].parts => ledger[m].tpDone
      /\ "partial_stop_loss" \in recorded[m].parts => ledger[m].slDone
  BY <1>2, <1>3 DEF RecordsAgree
<1>5. /\ ledger[m] \in LedgerRecords /\ ledger[m].left \in Nat
      /\ order.base \in Nat /\ order.qty \in Nat
      /\ PositionThreshold \in Nat /\ PositionThreshold > 0
  BY RowTyped, OrderFieldsTyped, SymbolTyped
<1>6. rec.qty = order.qty /\ rec.reason = order.reason /\ rec.countAfter = 0
  BY <1>3 DEF SellRecord
<1>7. ledger'[m] = ReplaySell(ledger[m], rec)
  BY <1>1 DEF TypeOK, HistoryTyped
<1>8. recorded'[m] = Observe(recorded[m], order)
  BY <1>1 DEF TypeOK, ObserversTyped
<1>9. mem' = mem \/ (Cleared(order.base, order.qty) /\ mem'[m] = ClearPosition(mem[m]))
  BY DEF Record, AfterRecord, TypeOK, BotTyped
<1> HIDE DEF rec
<1>10. CASE order.reason \in PartialReasons
  <2>1. ~Cleared(order.base, order.qty) /\ order.base - order.qty >= PositionThreshold
    BY <1>3, <1>5, <1>10, PartlyIsNotCleared
  <2>2. order.qty < ledger[m].left
    BY <1>3, <1>5, <2>1
  <2>3. /\ ledger'[m].left = ledger[m].left - order.qty /\ ledger'[m].lots = ledger[m].lots
        /\ ledger'[m].ends = {ledger'[m].left}
        /\ ledger'[m].tpDone <=> ledger[m].tpDone \/ Takes(order.reason)
        /\ ledger'[m].slDone <=> ledger[m].slDone \/ Cuts(order.reason)
        /\ ledger'[m].clocks = SellClocks(ledger[m].clocks, order.reason, Takes(order.reason))
    <3> DEFINE next == ReplaySell(ledger[m], rec)
    <3>1. /\ next.left = ledger[m].left - rec.qty /\ next.lots = ledger[m].lots
          /\ next.ends = {next.left}
          /\ next.tpDone <=> ledger[m].tpDone \/ Takes(rec.reason)
          /\ next.slDone <=> ledger[m].slDone \/ Cuts(rec.reason)
          /\ next.clocks = SellClocks(ledger[m].clocks, rec.reason, Takes(rec.reason))
      BY <1>4, <1>5, <1>6, <1>10, <2>2, ReplayOfPartialSale
    <3> QED
      BY <1>6, <1>7, <3>1
  <2>4. /\ recorded'[m].clocks =
             SellClocks(recorded[m].clocks, order.reason, Takes(order.reason))
        /\ recorded'[m].parts = recorded[m].parts \cup {order.reason}
    <3>1. partial
      BY <1>10, <2>1
    <3>2. (partial /\ Takes(order.reason)) <=> Takes(order.reason)
      BY <3>1
    <3>3. /\ recorded'[m].clocks =
               SellClocks(recorded[m].clocks, order.reason, partial /\ Takes(order.reason))
          /\ recorded'[m].parts = recorded[m].parts \cup {order.reason}
      BY <1>3, <1>5, <1>8, <2>1, <3>1 DEF Observe, SellClocks, Takes
    <3> QED
      BY <3>1, <3>3 DEF SellClocks
  <2>5. mem' = mem
    BY <1>9, <2>1
  <2>6. RecordsAgree(m)'
    BY <1>4, <1>5, <2>2, <2>3, <2>4 DEF RecordsAgree, Takes, Cuts
  <2>7. HistoryKnows(m)'
    BY <1>1, <1>3, <1>5, <2>1, <2>2, <2>3 DEF HistoryKnows, Held
  <2>8. MemoryMatches(m)'
    BY <1>1, <1>3, <2>3, <2>5 DEF MemoryMatches
  <2> QED
    BY <2>6, <2>7, <2>8
<1>11. CASE order.reason \notin PartialReasons
  <2>1. held[m] < PositionThreshold /\ ~Takes(order.reason)
    BY <1>3, <1>5, <1>11 DEF Leaves, LeavesAsTold, Takes, PartialReasons
  <2>2. /\ ledger'[m].left = 0 /\ ledger'[m].lots = {} /\ ledger'[m].ends = {}
        /\ ~ledger'[m].tpDone /\ ~ledger'[m].slDone
        /\ ledger'[m].clocks = SellClocks(ledger[m].clocks, order.reason, FALSE)
    <3> DEFINE next == ReplaySell(ledger[m], rec)
    <3>1. /\ next.left = 0 /\ next.lots = {} /\ next.ends = {}
          /\ ~next.tpDone /\ ~next.slDone
          /\ next.clocks = SellClocks(ledger[m].clocks, rec.reason, FALSE)
      BY <1>3, <1>5, <1>6, <1>11, ReplayOfFullSale
    <3> QED
      BY <1>6, <1>7, <3>1
  <2>3. /\ recorded'[m].clocks = SellClocks(recorded[m].clocks, order.reason, FALSE)
        /\ recorded'[m].parts = {}
    BY <1>3, <1>8, <1>11, <2>1 DEF Observe, SellClocks
  <2>4. mem'[m].count = 0 /\ mem'[m].clocks = mem[m].clocks
    BY <1>3, <1>9, RowTyped DEF ClearPosition, MemoryRecords
  <2>5. RecordsAgree(m)'
    BY <1>4, <2>2, <2>3 DEF RecordsAgree
  <2>6. HistoryKnows(m)'
    BY <1>1, <1>5, <2>1, <2>2, RowTyped DEF HistoryKnows, Held
  <2>7. MemoryMatches(m)'
    BY <1>1, <1>3, <2>1, <2>2, <2>4 DEF MemoryMatches, SellClocks
  <2> QED
    BY <2>5, <2>6, <2>7
<1> QED
  BY <1>10, <1>11

LEMMA RecordTold ==
  ASSUME TypeOK, ViewsHold, HistoryTold, Record, NEW m \in Markets
  PROVE  Told(m)'
<1>1. /\ Told(m) /\ order.stage = "acked" /\ order' = NoOrder /\ at' = NextMarket
      /\ UNCHANGED <<up, loaded, snap, held, lots, missed, lates, cut, misread>>
  BY DEF HistoryTold, Record, exchange, readings
<1>2. at > 0 /\ order.market = at /\ order'.stage = "none"
  BY <1>1 DEF ViewsHold, OrderIsVisited, NoOrder
<1>3. order.market \in Markets /\ order.side \in {"buy", "sell"}
  BY DEF TypeOK, BotTyped, OrderRecords
<1>4. CASE m # order.market
  <2>1. ledger'[m] = ledger[m] /\ recorded'[m] = recorded[m]
    BY <1>3, <1>4 DEF Record, TypeOK, HistoryTyped, ObserversTyped
  <2>2. mem'[m] = mem[m]
    BY <1>3, <1>4 DEF Record, AfterRecord, TypeOK, BotTyped
  <2>3. SameRecords(m)
    BY <1>1, <2>1 DEF SameRecords
  <2> QED
    BY <1>1, <1>2, <1>4, <2>2, <2>3, OthersTold DEF Idle
<1>5. CASE m = order.market
  <2> SUFFICES ASSUME AsTold(m)'
               PROVE  /\ RecordsAgree(m)' /\ HistoryKnows(m)' /\ MemoryMatches(m)'
                      /\ BuyFits(m)' /\ SellFits(m)'
    BY DEF Told
  <2>1. AsTold(m)
    BY <1>1 DEF AsTold, Undisturbed
  <2>2. RecordsAgree(m)' /\ HistoryKnows(m)' /\ MemoryMatches(m)'
    BY <1>3, <1>5, <2>1, RecordBuyTold, RecordSellTold
  <2>3. BuyFits(m)' /\ SellFits(m)'
    BY <1>2 DEF BuyFits, SellFits, Ordering
  <2> QED
    BY <2>2, <2>3
<1> QED
  BY <1>4, <1>5

LEMMA ToldNext ==
  TypeOK /\ ViewsHold /\ HistoryTold /\ [Next]_vars => HistoryTold'
<1> SUFFICES ASSUME TypeOK, ViewsHold, HistoryTold, [Next]_vars, NEW m \in Markets
             PROVE  Told(m)'
  BY DEF HistoryTold
<1>1. ASSUME NEW v \in Markets, Visit(v) PROVE Told(m)'
  <2>1. CASE FetchFails(v) \/ HoldUnrecoverable(v)
    <3>1. /\ Told(m) /\ order' = order /\ mem' = mem /\ at' = NextMarket /\ Visiting(v)
          /\ UNCHANGED <<up, loaded, snap>> /\ SameRecords(m)
      BY <2>1
      DEF HistoryTold, FetchFails, HoldUnrecoverable, SameRecords, exchange, history, observers, readings
    <3>2. order.stage = "none" /\ at > 0
      BY <3>1, SymbolTyped DEF Visiting
    <3> QED
      BY <3>1, <3>2, OthersTold DEF Idle
  <2> QED
    BY <1>1, <2>1, WaitTold, SubmitBuyTold, SubmitSellTold DEF Visit
<1>2. CASE FinishOrder
  BY <1>2, RejectedTold, LostTold, AcknowledgedTold, RecordTold DEF FinishOrder
<1>3. CASE StartPass
  BY <1>3, StartPassTold
<1>4. CASE Environment
  <2>1. CASE NewDay \/ \E n \in Markets : PriceTurns(n)
    <3>1. UNCHANGED <<up, at, loaded, snap, mem, order, held, lots, ledger, recorded,
                      missed, lates, cut, misread>>
      BY <2>1 DEF NewDay, PriceTurns, bot, exchange, history, observers, readings
    <3> QED
      BY <3>1, FrameTold
  <2> QED
    BY <1>4, <2>1, ExchangeFillsTold, LateFillsTold, CrashTold, StartTold, TickTold
    DEF Environment
<1>5. CASE UNCHANGED vars
  BY <1>5, FrameTold DEF vars, bot, exchange, history, observers, readings
<1> QED
  BY <1>1, <1>2, <1>3, <1>4, <1>5 DEF Next, Thread

LEMMA HistoryCorrect == Spec => [](TypeOK /\ ViewsHold /\ HistoryTold)
<1>1. Init => TypeOK /\ ViewsHold /\ HistoryTold
  BY InitTyped, ViewsInit, ToldInit
<1>2. TypeOK /\ ViewsHold /\ HistoryTold /\ [Next]_vars => (TypeOK /\ ViewsHold /\ HistoryTold)'
  BY NextTyped, ViewsNext, ToldNext
<1> QED
  BY <1>1, <1>2, PTL DEF Spec

-----------------------------------------------------------------------------
(* What the running bot knows of a symbol, whatever its sales left           *)

\* The flags of a row cover the partial exits the observer saw.
Marked(parts, row) ==
  /\ "partial_take_profit" \in parts => row.tpDone
  /\ "partial_stop_loss" \in parts => row.slDone

\* A partial exit of a held position is in the memory, and in what a restart
\* recovers if that is a position.  Buys enter the history with an estimate, so
\* the account exceeds it by less than a position.
PartsKnown(m) ==
  /\ ~InStage(m, {"filled", "acked"}) =>
       /\ ~Held(m) => recorded[m].parts = {}
       /\ ledger[m].left > 0 =>
            /\ held[m] < ledger[m].left + PositionThreshold
            /\ Held(m) => Marked(recorded[m].parts, ledger[m])
  /\ up /\ ~InStage(m, {"acked"}) /\ Held(m) /\ mem[m].price # {} =>
       Marked(recorded[m].parts, mem[m])

\* The memory is right unless it was recovered after a sale that left something
\* else than its reason says, or emptied while coins were left.
MemoryTrue(m) ==
  up /\ m \notin misread =>
    /\ ~InStage(m, {"acked"}) => mem[m].clocks = recorded[m].clocks
    /\ ~InStage(m, {"filled", "acked"}) /\ Held(m) => mem[m].price = lots[m]

BuyRuns(m) ==
  Ordering(m, "buy") =>
    /\ recorded[m].parts = {} /\ order.base < PositionThreshold /\ order.reason = "entry"
    /\ order.stage = "sent" => ~Held(m)
    /\ order.stage \in {"filled", "acked"} =>
         /\ Held(m) /\ lots[m] = {order.id}
         /\ held[m] < BuyAmount + PositionThreshold
    /\ order.stage = "acked" =>
         /\ mem[m].price = {order.id}
         /\ m \notin misread => mem[m].clocks = TradeClocks(recorded[m].clocks)

\* A partial sale counts when the bot takes its remainder for a position.
Parted(o) == o.reason \in PartialReasons /\ ~Cleared(o.base, o.qty)

SellRuns(m) ==
  Ordering(m, "sell") =>
    /\ mem[m].price # {}
    /\ order.stage = "sent" => Held(m) /\ held[m] = order.base
    /\ order.stage \in {"filled", "acked"} =>
         /\ order.qty <= order.base /\ held[m] = order.base - order.qty
         /\ ledger[m].left > 0 =>
              /\ order.base < ledger[m].left + PositionThreshold
              /\ Held(m) => Marked(recorded[m].parts, ledger[m])
         /\ m \notin misread /\ Held(m) =>
              mem[m].price = lots[m] /\ ~Cleared(order.base, order.qty)
    /\ order.stage = "acked" =>
         /\ Held(m) =>
              /\ Marked(recorded[m].parts, mem[m])
              /\ Parted(order) => Marked({order.reason}, mem[m])
         /\ m \notin misread =>
              mem[m].clocks = SellClocks(recorded[m].clocks, order.reason,
                                         Parted(order) /\ Takes(order.reason))

Runs(m) == Undisturbed(m) => PartsKnown(m) /\ MemoryTrue(m) /\ BuyRuns(m) /\ SellRuns(m)

RunsWell == \A m \in Markets : Runs(m)

-----------------------------------------------------------------------------
(* Facts about fills, without a word on what the history knows *)

LEMMA ReplayOfAnyBuy ==
  ASSUME NEW led \in LedgerRecords, NEW id \in BuyIds, NEW qty \in Nat
  PROVE  ReplayBuy(led, id, qty).left = led.left + qty
<1> DEFINE left == led.left + qty
           l == led.lots \cup {id}
           ends == (IF led.left = 0 THEN {} ELSE led.ends) \cup {led.left + qty}
           tp == ~(led.left = 0) /\ led.tpDone
           sl == ~(led.left = 0) /\ led.slDone
           k == TradeClocks(led.clocks)
           next == [led EXCEPT !.left = left, !.lots = l, !.ends = ends,
                               !.tpDone = tp, !.slDone = sl, !.clocks = k]
<1>1. ReplayBuy(led, id, qty) = next
  BY DEF ReplayBuy
<1> HIDE DEF left, l, ends, tp, sl, k
<1>2. next.left = left
  BY DEF LedgerRecords
<1> QED
  BY <1>1, <1>2 DEF left

\* A sale after which the replay still has a holding
LEMMA ReplayOfAnySale ==
  ASSUME NEW led \in LedgerRecords, NEW rec, rec.qty \in Nat,
         ReplaySell(led, rec).left > 0
  PROVE  LET next == ReplaySell(led, rec)
         IN  /\ led.left > 0 /\ next.left = led.left - rec.qty
             /\ next.tpDone <=> led.tpDone \/ Takes(rec.reason)
             /\ next.slDone <=> led.slDone \/ Cuts(rec.reason)
<1> DEFINE left == IF rec.qty < led.left THEN led.left - rec.qty ELSE 0
           tp == led.tpDone \/ (rec.reason = "partial_take_profit" /\ left > 0)
           sl == led.slDone \/ (rec.reason = "partial_stop_loss" /\ left > 0)
           k == SellClocks(led.clocks, rec.reason,
                           rec.reason = "partial_take_profit" /\ left > 0)
           ends == ConsumeLegs(led.ends, rec.qty)
           next == [led EXCEPT !.left = left, !.ends = ends, !.tpDone = tp,
                               !.slDone = sl, !.clocks = k]
<1>1. led.left \in Nat
  BY DEF LedgerRecords
<1>2. ASSUME NEW l \in LedgerRecords PROVE ClearRecovered(l).left = 0
  BY DEF ClearRecovered, LedgerRecords
<1>3. led.left > 0
  <2> SUFFICES ASSUME ~(led.left > 0) PROVE FALSE
    OBVIOUS
  <2>1. ReplaySell(led, rec) = led
        \/ ReplaySell(led, rec) = ClearRecovered([led EXCEPT !.clocks = TradeClocks(@)])
    BY DEF ReplaySell
  <2>2. ClearRecovered([led EXCEPT !.clocks = TradeClocks(@)]).left = 0
    BY DEF ClearRecovered, LedgerRecords
  <2> QED
    BY <1>1, <2>1, <2>2
<1>4. ReplaySell(led, rec) = IF IsExplicitFinalExit(rec) \/ left = 0
                             THEN ClearRecovered(next) ELSE next
  BY <1>3 DEF ReplaySell, ReplayHeldSell
<1>5. ClearRecovered(next).left = 0
  <2> HIDE DEF left, tp, sl, k, ends
  <2> QED
    BY DEF ClearRecovered, LedgerRecords
<1>6. left # 0 /\ ReplaySell(led, rec) = next
  BY <1>4, <1>5
<1>7. left = led.left - rec.qty /\ left > 0
  BY <1>1, <1>6
<1>8. /\ tp <=> led.tpDone \/ Takes(rec.reason)
      /\ sl <=> led.slDone \/ Cuts(rec.reason)
  BY <1>7 DEF Takes, Cuts
<1> HIDE DEF left, tp, sl, k, ends
<1>9. next.left = left /\ next.tpDone = tp /\ next.slDone = sl
  BY DEF LedgerRecords
<1> HIDE DEF next
<1> QED
  BY <1>3, <1>6, <1>7, <1>8, <1>9

\* The fill of a sale, with a remainder or without
LEMMA AnySaleFields ==
  ASSUME NEW r \in MemoryRecords, NEW o, o.base \in Nat, o.qty \in Nat
  PROVE  LET next == ApplySellFill(r, o.base, o.qty, o.reason)
         IN  /\ next.price = r.price
             /\ next.tpDone <=> r.tpDone \/ (Parted(o) /\ Takes(o.reason))
             /\ next.slDone <=> r.slDone \/ (Parted(o) /\ Cuts(o.reason))
             /\ next.clocks = SellClocks(r.clocks, o.reason, Parted(o) /\ Takes(o.reason))
<1> DEFINE takes == o.reason = "partial_take_profit" /\ ~Cleared(o.base, o.qty)
           cuts == o.reason = "partial_stop_loss" /\ ~Cleared(o.base, o.qty)
           n == EntryCountAfter(r, o.base, o.qty)
           tp == r.tpDone \/ takes
           sl == r.slDone \/ cuts
           k == SellClocks(r.clocks, o.reason, takes)
           next == [r EXCEPT !.count = n, !.tpDone = tp, !.slDone = sl, !.clocks = k]
<1>1. /\ takes <=> Parted(o) /\ Takes(o.reason)
      /\ cuts <=> Parted(o) /\ Cuts(o.reason)
  BY DEF Parted, Takes, Cuts, PartialReasons
<1>2. k = SellClocks(r.clocks, o.reason, Parted(o) /\ Takes(o.reason))
  BY <1>1 DEF SellClocks
<1>3. ApplySellFill(r, o.base, o.qty, o.reason) = next
  BY DEF ApplySellFill
<1> HIDE DEF takes, cuts, n, k
<1>4. /\ tp <=> r.tpDone \/ (Parted(o) /\ Takes(o.reason))
      /\ sl <=> r.slDone \/ (Parted(o) /\ Cuts(o.reason))
  BY <1>1
<1> HIDE DEF tp, sl
<1>5. next.price = r.price /\ next.tpDone = tp /\ next.slDone = sl /\ next.clocks = k
  BY DEF MemoryRecords
<1> HIDE DEF next
<1> QED
  BY <1>2, <1>3, <1>4, <1>5

-----------------------------------------------------------------------------
(* Steps that leave a symbol alone, and visits *)

LEMMA OthersRun ==
  ASSUME NEW m \in Markets, Runs(m), SameRecords(m), Idle(m), Idle(m)',
         up' => up /\ mem'[m] = mem[m]
  PROVE  Runs(m)'
<1> SUFFICES ASSUME Undisturbed(m)'
             PROVE  PartsKnown(m)' /\ MemoryTrue(m)' /\ BuyRuns(m)' /\ SellRuns(m)'
  BY DEF Runs
<1>1. PartsKnown(m) /\ MemoryTrue(m)
  BY DEF Undisturbed, SameRecords, Runs
<1>2. PartsKnown(m)'
  BY <1>1 DEF PartsKnown, Marked, SameRecords, InStage, Idle, Held
<1>3. MemoryTrue(m)'
  BY <1>1 DEF MemoryTrue, SameRecords, InStage, Idle, Held
<1>4. BuyRuns(m)' /\ SellRuns(m)'
  BY DEF BuyRuns, SellRuns, Ordering, Idle
<1> QED
  BY <1>2, <1>3, <1>4

LEMMA RunsInit == Init => RunsWell
<1> SUFFICES ASSUME Init, NEW m \in Markets PROVE Runs(m)
  BY DEF RunsWell
<1>1. /\ mem[m] = BlankMemory /\ ledger[m] = EmptyLedger
      /\ recorded[m] = [clocks |-> NoClocks, parts |-> {}]
      /\ held[m] = 0 /\ order.stage = "none"
  BY DEF Init, NoOrder
<1>2. PositionThreshold \in Nat /\ PositionThreshold > 0
  BY ExitAssumption DEF PositionThreshold
<1>3. PartsKnown(m)
  BY <1>1, <1>2 DEF PartsKnown, EmptyLedger, Held
<1>4. MemoryTrue(m)
  BY <1>1, <1>2 DEF MemoryTrue, BlankMemory, Held
<1>5. BuyRuns(m) /\ SellRuns(m)
  BY <1>1 DEF BuyRuns, SellRuns, Ordering
<1> QED
  BY <1>3, <1>4, <1>5 DEF Runs

\* A visit leaves the memory of a held symbol as it is.
LEMMA VisitedRuns ==
  ASSUME TypeOK, ViewsHold, NEW m \in Markets, Runs(m), Undisturbed(m), Visiting(m),
         NEW c \in BOOLEAN, mem'[m] = Visited(m, c), Idle(m)' \/ order'.stage = "sent",
         UNCHANGED <<up, held, lots, ledger, recorded, missed, lates, cut, misread>>
  PROVE  PartsKnown(m)' /\ MemoryTrue(m)'
<1>1. PartsKnown(m) /\ MemoryTrue(m) /\ (HasPosition(m) <=> Held(m)) /\ Idle(m)
  BY VisitSeesTruth DEF Runs, Undisturbed, Visiting, Idle
<1>2. /\ mem'[m].clocks = mem[m].clocks
      /\ HasPosition(m) =>
           /\ mem'[m].price = mem[m].price
           /\ mem'[m].tpDone = mem[m].tpDone /\ mem'[m].slDone = mem[m].slDone
  BY VisitedFields
<1>3. ~InStage(m, {"filled", "acked"}) /\ ~InStage(m, {"acked"})
      /\ ~InStage(m, {"filled", "acked"})' /\ ~InStage(m, {"acked"})'
  BY <1>1 DEF InStage, Idle
<1>4. PartsKnown(m)'
  BY <1>1, <1>2, <1>3 DEF PartsKnown, Marked, Held
<1>5. MemoryTrue(m)'
  BY <1>1, <1>2, <1>3 DEF MemoryTrue, Held
<1> QED
  BY <1>4, <1>5

LEMMA WaitRuns ==
  ASSUME TypeOK, ViewsHold, RunsWell, NEW v \in Markets, Wait(v), NEW m \in Markets
  PROVE  Runs(m)'
<1>1. /\ Runs(m) /\ Visiting(v) /\ order' = order
      /\ UNCHANGED <<up, held, lots, ledger, recorded, missed, lates, cut, misread>>
  BY DEF RunsWell, Wait, exchange, history, observers, readings
<1>2. PICK c \in BOOLEAN : mem' = [mem EXCEPT ![v] = Visited(v, c)]
  BY DEF Wait
<1>3. Idle(m) /\ Idle(m)'
  BY <1>1 DEF Visiting, Idle
<1>4. CASE m # v
  <2>1. mem'[m] = mem[m] /\ SameRecords(m)
    BY <1>1, <1>2, <1>4 DEF TypeOK, BotTyped, SameRecords
  <2> QED
    BY <1>1, <1>3, <2>1, OthersRun
<1>5. CASE m = v
  <2> SUFFICES ASSUME Undisturbed(m)'
               PROVE  PartsKnown(m)' /\ MemoryTrue(m)' /\ BuyRuns(m)' /\ SellRuns(m)'
    BY DEF Runs
  <2>1. Undisturbed(m)
    BY <1>1 DEF Undisturbed
  <2>2. mem'[m] = Visited(m, c)
    BY <1>2, <1>5 DEF TypeOK, BotTyped
  <2>3. PartsKnown(m)' /\ MemoryTrue(m)'
    BY <1>1, <1>3, <1>5, <2>1, <2>2, VisitedRuns
  <2>4. BuyRuns(m)' /\ SellRuns(m)'
    BY <1>3 DEF BuyRuns, SellRuns, Ordering, Idle
  <2> QED
    BY <2>3, <2>4
<1> QED
  BY <1>4, <1>5

LEMMA SubmitRuns ==
  ASSUME TypeOK, ViewsHold, RunsWell, NEW v \in Markets, SubmitBuy(v) \/ SubmitSell(v),
         NEW m \in Markets
  PROVE  Runs(m)'
<1>1. /\ Runs(m) /\ Visiting(v) /\ ~Unrecoverable(v)
      /\ order'.stage = "sent" /\ order'.market = v /\ order'.base = BaseFree(v)
      /\ UNCHANGED <<up, held, lots, ledger, recorded, missed, lates, cut, misread>>
  <2>1. CASE SubmitBuy(v)
    BY <2>1 DEF RunsWell, SubmitBuy, NoOrder, exchange, history, readings
  <2>2. CASE SubmitSell(v)
    BY <2>2 DEF RunsWell, SubmitSell, exchange, history, observers, readings
  <2> QED
    BY <2>1, <2>2
<1>2. PICK c \in BOOLEAN : mem' = [mem EXCEPT ![v] = Visited(v, c)]
  BY DEF SubmitBuy, SubmitSell
<1>3. CASE m # v
  <2>1. mem'[m] = mem[m] /\ SameRecords(m) /\ Idle(m) /\ Idle(m)'
    BY <1>1, <1>2, <1>3 DEF TypeOK, BotTyped, SameRecords, Idle, Visiting
  <2> QED
    BY <1>1, <2>1, OthersRun
<1>4. CASE m = v
  <2> SUFFICES ASSUME Undisturbed(m)'
               PROVE  PartsKnown(m)' /\ MemoryTrue(m)' /\ BuyRuns(m)' /\ SellRuns(m)'
    BY DEF Runs
  <2>1. Undisturbed(m)
    BY <1>1 DEF Undisturbed
  <2>2. mem'[m] = Visited(m, c)
    BY <1>2, <1>4 DEF TypeOK, BotTyped
  <2>3. PartsKnown(m)' /\ MemoryTrue(m)'
    BY <1>1, <1>4, <2>1, <2>2, VisitedRuns
  <2>4. BaseFree(m) = held[m] /\ (HasPosition(m) <=> Held(m)) /\ PartsKnown(m)
        /\ ~InStage(m, {"filled", "acked"})
    BY <1>1, <1>4, <2>1, VisitSeesTruth DEF Runs, Undisturbed, Visiting, InStage
  <2>5. CASE SubmitBuy(v)
    <3>1. ~HasPosition(m) /\ order'.side = "buy" /\ order'.reason = "entry"
      BY <1>4, <2>5, BuysWithoutPosition DEF SubmitBuy, NoOrder
    <3>2. recorded[m].parts = {} /\ BaseFree(m) < PositionThreshold
      BY <2>4, <3>1, BaseTyped, SymbolTyped DEF PartsKnown, HasPosition
    <3>3. BuyRuns(m)'
      BY <1>1, <1>4, <2>4, <3>1, <3>2 DEF BuyRuns, Held
    <3>4. SellRuns(m)'
      BY <3>1 DEF SellRuns, Ordering
    <3> QED
      BY <2>3, <3>3, <3>4
  <2>6. CASE SubmitSell(v)
    <3>1. HasPosition(m) /\ order'.side = "sell"
      BY <1>4, <2>6 DEF SubmitSell, WantsSell, ExitReady, HasPosition
    <3>2. mem'[m].price # {}
      BY <1>1, <1>4, <2>2, <3>1, VisitedFields DEF Unrecoverable
    <3>3. SellRuns(m)'
      BY <1>1, <1>4, <2>4, <3>1, <3>2 DEF SellRuns, Held
    <3>4. BuyRuns(m)'
      BY <3>1 DEF BuyRuns, Ordering
    <3> QED
      BY <2>3, <3>3, <3>4
  <2> QED
    BY <2>5, <2>6
<1> QED
  BY <1>3, <1>4

-----------------------------------------------------------------------------
(* Orders that come to nothing, restarts, clocks *)

\* An order that was not executed leaves the symbol as it was.
LEMMA GivenUpRuns ==
  ASSUME NEW m \in Markets, Runs(m), SameRecords(m), order.stage # "none",
         order.market # m \/ order.stage = "sent",
         order' = NoOrder, UNCHANGED <<up, mem>>
  PROVE  Runs(m)'
<1>1. order'.stage = "none"
  BY DEF NoOrder
<1>2. CASE order.market # m
  BY <1>1, <1>2, OthersRun DEF Idle
<1>3. CASE order.market = m /\ order.stage = "sent"
  <2> SUFFICES ASSUME Undisturbed(m)'
               PROVE  PartsKnown(m)' /\ MemoryTrue(m)' /\ BuyRuns(m)' /\ SellRuns(m)'
    BY DEF Runs
  <2>1. PartsKnown(m) /\ MemoryTrue(m)
    BY DEF Undisturbed, SameRecords, Runs
  <2>2. PartsKnown(m)'
    BY <1>3, <2>1 DEF PartsKnown, Marked, SameRecords, InStage, Held
  <2>3. MemoryTrue(m)'
    BY <1>3, <2>1 DEF MemoryTrue, SameRecords, InStage, Held
  <2>4. BuyRuns(m)' /\ SellRuns(m)'
    BY <1>1 DEF BuyRuns, SellRuns, Ordering
  <2> QED
    BY <2>2, <2>3, <2>4
<1> QED
  BY <1>2, <1>3

LEMMA AbandonedRuns ==
  ASSUME TypeOK, RunsWell, Rejected \/ ResponseLost \/ TimesOut \/ BookkeepingFails,
         NEW m \in Markets
  PROVE  Runs(m)'
<1>1. /\ Runs(m) /\ order.stage # "none" /\ order' = NoOrder
      /\ UNCHANGED <<up, mem, held, lots, ledger, recorded, cut, misread>>
  BY DEF RunsWell, Rejected, ResponseLost, TimesOut, BookkeepingFails, GiveUp, Postpone,
         exchange, history, observers, readings
<1>2. order.market \in Markets
  BY OrderFieldsTyped
<1>3. CASE Rejected
  <2>1. SameRecords(m) /\ order.stage = "sent"
    BY <1>1, <1>3 DEF Rejected, SameRecords, observers
  <2> QED
    BY <1>1, <2>1, GivenUpRuns
<1>4. CASE ResponseLost \/ TimesOut \/ BookkeepingFails
  <2>1. /\ missed' = [missed EXCEPT ![order.market] = @ + 1]
        /\ lates' = lates \/ lates' = [lates EXCEPT ![order.market] = @ + 1]
    BY <1>4 DEF ResponseLost, TimesOut, BookkeepingFails, Postpone
  <2>2. CASE m = order.market
    BY <1>2, <2>1, <2>2, Counted DEF Runs, Undisturbed
  <2>3. CASE m # order.market
    <3>1. SameRecords(m)
      BY <1>1, <1>2, <2>1, <2>3, Counted DEF SameRecords
    <3> QED
      BY <1>1, <2>3, <3>1, GivenUpRuns
  <2> QED
    BY <2>2, <2>3
<1> QED
  BY <1>3, <1>4

LEMMA CrashRuns ==
  ASSUME TypeOK, RunsWell, Crash, NEW m \in Markets
  PROVE  Runs(m)'
<1>1. /\ Runs(m) /\ up' = FALSE /\ order'.stage = "none"
      /\ UNCHANGED <<held, lots, ledger, recorded, cut, misread>>
  BY DEF RunsWell, Crash, NoOrder, exchange, history, readings
<1>2. order.market \in Markets
  BY OrderFieldsTyped
<1>3. \/ order.stage \in {"none", "sent"} /\ UNCHANGED <<missed, lates>>
      \/ /\ missed' = [missed EXCEPT ![order.market] = @ + 1]
         /\ lates' = lates \/ lates' = [lates EXCEPT ![order.market] = @ + 1]
  BY DEF Crash, Postpone
<1> SUFFICES ASSUME Undisturbed(m)'
             PROVE  PartsKnown(m)' /\ MemoryTrue(m)' /\ BuyRuns(m)' /\ SellRuns(m)'
  BY DEF Runs
<1>4. Undisturbed(m) /\ ~InStage(m, {"filled", "acked"})
  BY <1>2, <1>3, Counted DEF Undisturbed, InStage
<1>5. PartsKnown(m)
  BY <1>1, <1>4 DEF Runs
<1>6. PartsKnown(m)'
  BY <1>1, <1>4, <1>5 DEF PartsKnown, Marked, Held
<1>7. MemoryTrue(m)' /\ BuyRuns(m)' /\ SellRuns(m)'
  BY <1>1 DEF MemoryTrue, BuyRuns, SellRuns, Ordering
<1> QED
  BY <1>6, <1>7

\* A restart reads what the history says: the truth, unless a sale left something
\* else than its reason says.
LEMMA StartRuns ==
  ASSUME TypeOK, ViewsHold, HistoryTold, RunsWell, Start, NEW m \in Markets
  PROVE  Runs(m)'
<1>1. /\ Runs(m) /\ Told(m) /\ ~up /\ misread' = cut
      /\ mem' = [n \in Markets |-> RecoveredMemory(ledger[n])]
      /\ UNCHANGED <<order, held, lots, ledger, recorded, missed, lates, cut>>
  BY DEF RunsWell, HistoryTold, Start, exchange, history, observers
<1>2. order.stage = "none"
  BY <1>1, SymbolTyped DEF ViewsHold, OrderIsVisited
<1> SUFFICES ASSUME Undisturbed(m)'
             PROVE  PartsKnown(m)' /\ MemoryTrue(m)' /\ BuyRuns(m)' /\ SellRuns(m)'
  BY DEF Runs
<1>3. Undisturbed(m) /\ PartsKnown(m)
  BY <1>1 DEF Runs, Undisturbed
<1>4. /\ ledger[m].left > 0 => mem'[m].price = ledger[m].lots
      /\ ~(ledger[m].left > 0) => mem'[m].price = {}
      /\ mem'[m].tpDone = ledger[m].tpDone /\ mem'[m].slDone = ledger[m].slDone
      /\ mem'[m].clocks = ledger[m].clocks
  BY <1>1 DEF RecoveredMemory
<1>5. PartsKnown(m)'
  BY <1>1, <1>2, <1>3, <1>4 DEF PartsKnown, Marked, InStage, Held
<1>6. MemoryTrue(m)'
  <2> SUFFICES ASSUME m \notin cut
               PROVE  /\ mem'[m].clocks = recorded[m].clocks
                      /\ Held(m) => mem'[m].price = lots[m]
    BY <1>1 DEF MemoryTrue, Held
  <2>1. RecordsAgree(m) /\ HistoryKnows(m)
    BY <1>1, <1>3 DEF Told, AsTold
  <2> QED
    BY <1>2, <1>4, <2>1 DEF RecordsAgree, HistoryKnows, InStage
<1>7. BuyRuns(m)' /\ SellRuns(m)'
  BY <1>1, <1>2 DEF BuyRuns, SellRuns, Ordering
<1> QED
  BY <1>5, <1>6, <1>7

LEMMA TickRuns ==
  ASSUME TypeOK, RunsWell, Tick, NEW m \in Markets
  PROVE  Runs(m)'
<1>1. /\ Runs(m) /\ order.stage = "none"
      /\ UNCHANGED <<up, order, held, lots, missed, lates, cut, misread>>
  BY DEF RunsWell, Tick, exchange, readings
<1>2. /\ ledger'[m] = [ledger[m] EXCEPT !.clocks = OlderClocks(@)]
      /\ recorded'[m] = [recorded[m] EXCEPT !.clocks = OlderClocks(@)]
      /\ up => mem'[m] = [mem[m] EXCEPT !.clocks = OlderClocks(@)]
  BY DEF Tick
<1>3. /\ ledger'[m].left = ledger[m].left
      /\ ledger'[m].tpDone = ledger[m].tpDone /\ ledger'[m].slDone = ledger[m].slDone
  BY <1>2, RowTyped DEF LedgerRecords
<1>4. /\ recorded'[m].clocks = OlderClocks(recorded[m].clocks)
      /\ recorded'[m].parts = recorded[m].parts
  <2>1. recorded[m] \in [clocks : ClockRecords, parts : SUBSET PartialReasons]
    BY DEF TypeOK, ObserversTyped
  <2> QED
    BY <1>2, <2>1
<1>5. up => /\ mem'[m].clocks = OlderClocks(mem[m].clocks) /\ mem'[m].price = mem[m].price
            /\ mem'[m].tpDone = mem[m].tpDone /\ mem'[m].slDone = mem[m].slDone
  BY <1>2, RowTyped DEF MemoryRecords
<1> SUFFICES ASSUME Undisturbed(m)'
             PROVE  PartsKnown(m)' /\ MemoryTrue(m)' /\ BuyRuns(m)' /\ SellRuns(m)'
  BY DEF Runs
<1>6. PartsKnown(m) /\ MemoryTrue(m)
  BY <1>1 DEF Runs, Undisturbed
<1>7. PartsKnown(m)'
  BY <1>1, <1>3, <1>4, <1>5, <1>6 DEF PartsKnown, Marked, InStage, Held
<1>8. MemoryTrue(m)'
  BY <1>1, <1>4, <1>5, <1>6 DEF MemoryTrue, InStage, Held
<1>9. BuyRuns(m)' /\ SellRuns(m)'
  BY <1>1 DEF BuyRuns, SellRuns, Ordering
<1> QED
  BY <1>7, <1>8, <1>9

-----------------------------------------------------------------------------
(* Executions, responses and records *)

LEMMA ExchangeFillsRuns ==
  ASSUME TypeOK, ViewsHold, RunsWell, ExchangeFills, NEW m \in Markets
  PROVE  Runs(m)'
<1>1. /\ Runs(m) /\ View(m) /\ order.stage = "sent"
      /\ order' = [order EXCEPT !.stage = "filled"]
      /\ UNCHANGED <<up, mem, ledger, recorded, missed, lates>>
      /\ \A n \in Markets : n \in misread => n \in misread'
      /\ \A n \in Markets \ {order.market} :
           (n \in cut)' = (n \in cut) /\ (n \in misread)' = (n \in misread)
  BY DEF RunsWell, ViewsHold, ExchangeFills, Observed, readings, history
<1>2. /\ order'.stage = "filled" /\ order'.market = order.market /\ order'.side = order.side
      /\ order'.base = order.base /\ order'.qty = order.qty /\ order'.id = order.id
      /\ order'.reason = order.reason
  BY <1>1 DEF TypeOK, BotTyped, OrderRecords
<1>3. order.side \in {"buy", "sell"}
  BY DEF TypeOK, BotTyped, OrderRecords
<1>4. CASE m # order.market
  <2>1. SameRecords(m)
    BY <1>1, <1>4, OrderFieldsTyped, ExecutedElsewhere DEF ExchangeFills, SameRecords
  <2>2. Idle(m) /\ Idle(m)'
    BY <1>2, <1>4 DEF Idle
  <2> QED
    BY <1>1, <2>1, <2>2, OthersRun
<1>5. CASE m = order.market
  <2> SUFFICES ASSUME Undisturbed(m)'
               PROVE  PartsKnown(m)' /\ MemoryTrue(m)' /\ BuyRuns(m)' /\ SellRuns(m)'
    BY DEF Runs
  <2>1. /\ PartsKnown(m) /\ MemoryTrue(m) /\ BuyRuns(m) /\ SellRuns(m)
        /\ ~InStage(m, {"filled", "acked"}) /\ ~InStage(m, {"acked"})
        /\ InStage(m, {"filled", "acked"})' /\ ~InStage(m, {"acked"})'
    BY <1>1, <1>2, <1>5 DEF Runs, Undisturbed, InStage
  <2>2. MemoryTrue(m)'
    BY <1>1, <2>1 DEF MemoryTrue
  <2>3. CASE order.side = "buy"
    <3>1. PICK q \in BuyFills :
            /\ held' = [held EXCEPT ![m] = @ + q]
            /\ lots' = [lots EXCEPT ![m] = OwnedLots(held[m] + q, @ \cup {order.id})]
      BY <1>5, <2>3 DEF ExchangeFills, ExecuteBuy
    <3>2. /\ held'[m] = held[m] + q
          /\ lots'[m] = OwnedLots(held[m] + q, lots[m] \cup {order.id})
      BY <3>1 DEF TypeOK, ExchangeTyped
    <3>3. q \in Nat /\ q >= PositionThreshold /\ q <= BuyAmount
      BY BotAssumption
    <3>4. /\ recorded[m].parts = {} /\ order.base < PositionThreshold
          /\ order.reason = "entry" /\ ~Held(m)
      BY <1>1, <1>5, <2>1, <2>3 DEF BuyRuns, Ordering
    <3>5. held[m] < PositionThreshold /\ lots[m] = {}
      BY <1>1, <3>4, SymbolTyped DEF Held, View, DustIsNoLot
    <3>6. /\ Held(m)' /\ held'[m] < BuyAmount + PositionThreshold
          /\ lots'[m] = {order.id}
      BY <3>2, <3>3, <3>5, SymbolTyped, BotAssumption DEF Held, OwnedLots
    <3>7. PartsKnown(m)'
      BY <1>1, <2>1, <3>4 DEF PartsKnown, Marked
    <3>8. BuyRuns(m)'
      BY <1>1, <1>2, <1>5, <3>4, <3>6 DEF BuyRuns
    <3>9. SellRuns(m)'
      BY <1>2, <2>3 DEF SellRuns, Ordering
    <3> QED
      BY <2>2, <3>7, <3>8, <3>9
  <2>4. CASE order.side = "sell"
    <3>1. ExecuteSell(m, order.qty) /\ Covered(m, order.qty)
      BY <1>5, <2>4 DEF ExchangeFills
    <3>2. /\ held'[m] = held[m] - order.qty
          /\ lots'[m] = OwnedLots(held[m] - order.qty, lots[m])
      BY <3>1 DEF ExecuteSell, TypeOK, ExchangeTyped
    <3>3. mem[m].price # {} /\ Held(m) /\ held[m] = order.base
      BY <1>1, <1>5, <2>1, <2>4 DEF SellRuns, Ordering
    <3>4. /\ order.qty <= order.base /\ held'[m] = order.base - order.qty
          /\ Held(m)' => lots'[m] = lots[m]
      BY <3>1, <3>2, <3>3 DEF OwnedLots, Held, Covered
    <3>5. PartsKnown(m)'
      BY <1>1, <2>1, <3>3 DEF PartsKnown, Marked
    <3>6. m \notin misread' /\ Held(m)' =>
            mem[m].price = lots'[m] /\ ~Cleared(order.base, order.qty)
      <4> SUFFICES ASSUME m \notin misread', Held(m)'
                   PROVE  mem[m].price = lots'[m] /\ ~Cleared(order.base, order.qty)
        OBVIOUS
      <4>1. misread' = Observed(misread, m, ForgottenWhileHeld(held[m] - order.qty))
        BY <1>5, <2>4 DEF ExchangeFills
      <4>2. ~ForgottenWhileHeld(held[m] - order.qty) /\ m \notin misread
        BY <4>1 DEF Observed
      <4>3. held'[m] \in Nat /\ ClearThreshold \in Nat /\ order.qty \in Nat
            /\ order.base \in Nat
        BY <3>2, <3>3, <3>4, SymbolTyped, OrderFieldsTyped, ExitAssumption,
           LifecycleAssumption DEF PositionThreshold
      <4>4. held'[m] > ClearThreshold
        BY <3>2, <4>2, <4>3, SymbolTyped DEF ForgottenWhileHeld, Held
      <4>5. ~Cleared(order.base, order.qty)
        BY <3>4, <4>3, <4>4 DEF Cleared, Remaining
      <4>6. up
        BY <1>1, SymbolTyped DEF ViewsHold, OrderIsVisited
      <4> QED
        BY <2>1, <3>3, <3>4, <4>2, <4>5, <4>6 DEF MemoryTrue
    <3>7. ledger[m].left > 0 =>
            /\ order.base < ledger[m].left + PositionThreshold
            /\ Marked(recorded[m].parts, ledger[m])
      BY <2>1, <3>3 DEF PartsKnown
    <3>8. SellRuns(m)'
      BY <1>1, <1>2, <3>3, <3>4, <3>6, <3>7 DEF SellRuns, Marked
    <3>9. BuyRuns(m)'
      BY <1>2, <2>4 DEF BuyRuns, Ordering
    <3> QED
      BY <2>2, <3>5, <3>8, <3>9
  <2> QED
    BY <1>3, <2>3, <2>4
<1> QED
  BY <1>4, <1>5

LEMMA LateFillsRuns ==
  ASSUME TypeOK, ViewsHold, RunsWell, NEW n \in Markets,
         LateBuyFills(n) \/ LateSellFills(n), NEW m \in Markets
  PROVE  Runs(m)'
<1>1. /\ Runs(m) /\ View(n)
      /\ UNCHANGED <<up, mem, order, ledger, recorded, missed, lates, cut, misread>>
  BY DEF RunsWell, ViewsHold, LateBuyFills, LateSellFills, bot, history, observers, readings
<1>2. CASE m = n
  BY <1>1, <1>2, LateFillsCounted DEF Runs, Undisturbed
<1>3. CASE m # n
  <2>1. lateBuys[n] \subseteq BuyIds /\ lateSells[n] \in Nat
    BY SymbolTyped
  <2>2. held'[m] = held[m] /\ lots'[m] = lots[m]
    BY <1>3, <2>1, ExecutedElsewhere DEF LateBuyFills, LateSellFills
  <2> SUFFICES ASSUME Undisturbed(m)'
               PROVE  PartsKnown(m)' /\ MemoryTrue(m)' /\ BuyRuns(m)' /\ SellRuns(m)'
    BY DEF Runs
  <2>3. PartsKnown(m) /\ MemoryTrue(m) /\ BuyRuns(m) /\ SellRuns(m)
    BY <1>1 DEF Runs, Undisturbed
  <2>4. PartsKnown(m)' /\ MemoryTrue(m)'
    BY <1>1, <2>2, <2>3 DEF PartsKnown, MemoryTrue, Marked, InStage, Held
  <2>5. BuyRuns(m)'
    BY <1>1, <2>2, <2>3 DEF BuyRuns, Ordering, Held
  <2>6. SellRuns(m)'
    BY <1>1, <2>2, <2>3 DEF SellRuns, Ordering, Held, Marked
  <2> QED
    BY <2>4, <2>5, <2>6
<1> QED
  BY <1>2, <1>3

\* Time of day, prices, passes and stuttering
LEMMA FrameRuns ==
  ASSUME RunsWell, NEW m \in Markets,
         UNCHANGED <<up, mem, order, held, lots, ledger, recorded, missed, lates, cut,
                     misread>>
  PROVE  Runs(m)'
<1> SUFFICES ASSUME Undisturbed(m)'
             PROVE  PartsKnown(m)' /\ MemoryTrue(m)' /\ BuyRuns(m)' /\ SellRuns(m)'
  BY DEF Runs
<1>1. PartsKnown(m) /\ MemoryTrue(m) /\ BuyRuns(m) /\ SellRuns(m)
  BY DEF RunsWell, Runs, Undisturbed
<1>2. PartsKnown(m)' /\ MemoryTrue(m)'
  BY <1>1 DEF PartsKnown, MemoryTrue, Marked, InStage, Held
<1>3. BuyRuns(m)' /\ SellRuns(m)'
  BY <1>1 DEF BuyRuns, SellRuns, Ordering, Held, Marked
<1> QED
  BY <1>2, <1>3

LEMMA AcknowledgedRuns ==
  ASSUME TypeOK, ViewsHold, RunsWell, Acknowledged \/ AcknowledgedEarly, NEW m \in Markets
  PROVE  Runs(m)'
<1>1. PICK gross \in Gross(order) : ApplyFill(order, gross)
  BY DEF Acknowledged, AcknowledgedEarly
<1>2. /\ Runs(m) /\ order.stage # "none"
      /\ UNCHANGED <<up, held, lots, ledger, recorded, missed, cut, misread>>
      /\ lates' = lates \/ lates' = [lates EXCEPT ![order.market] = @ + 1]
  BY DEF RunsWell, Acknowledged, AcknowledgedEarly, Postpone, exchange, history, observers,
         readings
<1>3. /\ order'.stage = "acked" /\ order'.market = order.market /\ order'.side = order.side
      /\ order'.base = order.base /\ order'.qty = order.qty /\ order'.id = order.id
      /\ order'.reason = order.reason
  BY <1>1 DEF ApplyFill, TypeOK, BotTyped, OrderRecords
<1>4. /\ order.side \in {"buy", "sell"} /\ order.market \in Markets
      /\ order.base \in Nat /\ order.qty \in Nat /\ order.id \in BuyIds
  BY DEF TypeOK, BotTyped, OrderRecords
<1>5. up
  BY <1>2, SymbolTyped DEF ViewsHold, OrderIsVisited
<1>6. CASE m # order.market
  <2>1. mem'[m] = mem[m] /\ lates'[m] = lates[m]
    BY <1>1, <1>2, <1>4, <1>6, Counted DEF ApplyFill, TypeOK, BotTyped
  <2>2. SameRecords(m) /\ Idle(m) /\ Idle(m)'
    BY <1>2, <1>3, <1>6, <2>1 DEF SameRecords, Idle
  <2> QED
    BY <1>2, <2>1, <2>2, OthersRun
<1>7. CASE m = order.market
  <2> SUFFICES ASSUME Undisturbed(m)'
               PROVE  PartsKnown(m)' /\ MemoryTrue(m)' /\ BuyRuns(m)' /\ SellRuns(m)'
    BY DEF Runs
  <2>1. lates' = lates /\ Undisturbed(m)
    BY <1>2, <1>4, <1>7, Counted DEF Undisturbed
  <2>2. order.stage = "filled"
    <3>1. CASE Acknowledged
      BY <3>1 DEF Acknowledged
    <3>2. CASE AcknowledgedEarly
      <4>1. lates'[m] # 0
        BY <1>7, <3>2, Counted DEF AcknowledgedEarly, Postpone
      <4> QED
        BY <4>1 DEF Undisturbed
    <3> QED
      BY <3>1, <3>2
  <2>3. /\ PartsKnown(m) /\ MemoryTrue(m) /\ BuyRuns(m) /\ SellRuns(m)
        /\ ~InStage(m, {"acked"}) /\ InStage(m, {"acked"})' /\ InStage(m, {"filled", "acked"})'
    BY <1>2, <1>3, <1>7, <2>1, <2>2 DEF Runs, InStage
  <2>4. PartsKnown(m)' /\ MemoryTrue(m)'
    BY <2>3 DEF PartsKnown, MemoryTrue
  <2>5. m \notin misread => mem[m].clocks = recorded[m].clocks
    BY <1>5, <2>3 DEF MemoryTrue
  <2>6. CASE order.side = "buy"
    <3>1. /\ recorded[m].parts = {} /\ order.base < PositionThreshold /\ order.reason = "entry"
          /\ Held(m) /\ lots[m] = {order.id} /\ held[m] < BuyAmount + PositionThreshold
      BY <1>7, <2>2, <2>3, <2>6 DEF BuyRuns, Ordering
    <3>2. mem'[m] = ApplyBuyFill(mem[m], order.id, FALSE)
      <4>1. (order.base >= PositionThreshold) = FALSE
        BY <1>4, <3>1, SymbolTyped
      <4>2. mem'[m] = ApplyBuyFill(mem[m], order.id, order.base >= PositionThreshold)
        BY <1>1, <1>7, <2>6 DEF ApplyFill, TypeOK, BotTyped
      <4> QED
        BY <4>1, <4>2
    <3>3. mem'[m].price = {order.id} /\ mem'[m].clocks = TradeClocks(mem[m].clocks)
      <4> DEFINE next == ApplyBuyFill(mem[m], order.id, FALSE)
      <4>1. next.price = {order.id} /\ next.clocks = TradeClocks(mem[m].clocks)
        BY <1>4, RowTyped, FirstBuyFields
      <4>2. mem'[m] = next
        BY <3>2
      <4> HIDE DEF next
      <4> QED
        BY <4>1, <4>2
    <3>4. BuyRuns(m)'
      BY <1>2, <1>3, <2>5, <3>1, <3>3 DEF BuyRuns, Held
    <3>5. SellRuns(m)'
      BY <1>3, <2>6 DEF SellRuns, Ordering
    <3> QED
      BY <2>4, <3>4, <3>5
  <2>7. CASE order.side = "sell"
    <3>1. /\ mem[m].price # {} /\ order.qty <= order.base
          /\ held[m] = order.base - order.qty
          /\ ledger[m].left > 0 =>
               /\ order.base < ledger[m].left + PositionThreshold
               /\ Held(m) => Marked(recorded[m].parts, ledger[m])
          /\ m \notin misread /\ Held(m) =>
               mem[m].price = lots[m] /\ ~Cleared(order.base, order.qty)
      BY <1>7, <2>2, <2>3, <2>7 DEF SellRuns, Ordering
    <3>2. mem'[m] = ApplySellFill(mem[m], order.base, order.qty, order.reason)
      BY <1>1, <1>7, <2>7 DEF ApplyFill, TypeOK, BotTyped
    <3>3. /\ mem'[m].price = mem[m].price
          /\ mem'[m].tpDone <=> mem[m].tpDone \/ (Parted(order) /\ Takes(order.reason))
          /\ mem'[m].slDone <=> mem[m].slDone \/ (Parted(order) /\ Cuts(order.reason))
          /\ mem'[m].clocks = SellClocks(mem[m].clocks, order.reason,
                                         Parted(order) /\ Takes(order.reason))
      BY <1>4, <3>2, RowTyped, AnySaleFields
    <3>4. Held(m) => Marked(recorded[m].parts, mem[m])
      BY <1>5, <2>3, <3>1 DEF PartsKnown
    <3>5. Held(m) => /\ Marked(recorded[m].parts, mem'[m])
                     /\ Parted(order) => Marked({order.reason}, mem'[m])
      BY <3>3, <3>4 DEF Marked, Takes, Cuts
    <3>6. Parted(order)' = Parted(order)
      BY <1>3 DEF Parted
    <3>7. m \notin misread =>
            mem'[m].clocks = SellClocks(recorded[m].clocks, order.reason,
                                       Parted(order) /\ Takes(order.reason))
      BY <2>5, <3>3
    <3>8. SellRuns(m)'
      BY <1>2, <1>3, <3>1, <3>3, <3>5, <3>6, <3>7 DEF SellRuns, Held, Marked
    <3>9. BuyRuns(m)'
      BY <1>3, <2>7 DEF BuyRuns, Ordering
    <3> QED
      BY <2>4, <3>8, <3>9
  <2> QED
    BY <1>4, <2>6, <2>7
<1> QED
  BY <1>6, <1>7

\* The record of a fill
LEMMA RecordedFill ==
  ASSUME TypeOK, ViewsHold, RunsWell, Record,
         NEW m \in Markets, m = order.market, Undisturbed(m)
  PROVE  PartsKnown(m)' /\ MemoryTrue(m)'
<1>1. /\ order.stage = "acked" /\ order'.stage = "none"
      /\ UNCHANGED <<up, held, lots, cut, misread>>
      /\ recorded'[m] = Observe(recorded[m], order)
  BY DEF Record, NoOrder, exchange, readings, TypeOK, ObserversTyped
<1>2. BuyRuns(m) /\ SellRuns(m) /\ up
  BY <1>1, SymbolTyped DEF RunsWell, Runs, ViewsHold, OrderIsVisited
<1>3. /\ recorded'[m].clocks = SellClocks(recorded[m].clocks, order.reason,
                                          Parted(order) /\ Takes(order.reason))
      /\ recorded'[m].parts = IF held[m] < PositionThreshold THEN {}
                              ELSE IF Parted(order) THEN recorded[m].parts \cup {order.reason}
                              ELSE recorded[m].parts
  BY <1>1 DEF Observe, Parted, Takes
<1>4. /\ ledger[m] \in LedgerRecords /\ ledger[m].left \in Nat
      /\ order.base \in Nat /\ order.qty \in Nat /\ order.id \in BuyIds
      /\ BuyAmount \in Nat /\ held[m] \in Nat
      /\ PositionThreshold \in Nat /\ PositionThreshold > 0
  BY RowTyped, OrderFieldsTyped, SymbolTyped, BotAssumption
<1>5. ~InStage(m, {"filled", "acked"})' /\ ~InStage(m, {"acked"})'
  BY <1>1 DEF InStage
<1>6. Held(m) <=> ~(held[m] < PositionThreshold)
  BY <1>4 DEF Held
<1>7. CASE order.side = "buy"
  <2>1. /\ recorded[m].parts = {} /\ order.reason = "entry" /\ Held(m)
        /\ lots[m] = {order.id} /\ held[m] < BuyAmount + PositionThreshold
        /\ mem[m].price = {order.id}
        /\ m \notin misread => mem[m].clocks = TradeClocks(recorded[m].clocks)
    BY <1>1, <1>2, <1>7 DEF BuyRuns, Ordering
  <2>2. mem' = mem /\ ledger'[m] = ReplayBuy(ledger[m], order.id, BuyAmount)
    BY <1>7 DEF Record, AfterRecord, TypeOK, HistoryTyped
  <2>3. ledger'[m].left = ledger[m].left + BuyAmount
    BY <1>4, <2>2, ReplayOfAnyBuy
  <2>4. recorded'[m].parts = {}
    BY <1>3, <2>1 DEF Parted, PartialReasons
  <2>5. recorded'[m].clocks = TradeClocks(recorded[m].clocks)
    <3>1. order.reason \notin PartialReasons /\ order.reason \notin StopReasons
          /\ ~Takes(order.reason)
      BY <2>1 DEF PartialReasons, StopReasons, Takes
    <3> QED
      BY <1>3, <3>1, RowTyped DEF SellClocks, TradeClocks, ClockRecords
  <2>6. PartsKnown(m)'
    BY <1>1, <1>4, <2>1, <2>3, <2>4 DEF PartsKnown, Marked, Held
  <2>7. MemoryTrue(m)'
    BY <1>1, <2>1, <2>2, <2>5 DEF MemoryTrue, Held
  <2> QED
    BY <2>6, <2>7
<1>8. CASE order.side = "sell"
  <2> DEFINE rec == SellRecord(order)
  <2>1. /\ order.qty <= order.base /\ held[m] = order.base - order.qty
        /\ ledger[m].left > 0 =>
             /\ order.base < ledger[m].left + PositionThreshold
             /\ Held(m) => Marked(recorded[m].parts, ledger[m])
        /\ m \notin misread /\ Held(m) =>
             mem[m].price = lots[m] /\ ~Cleared(order.base, order.qty)
        /\ Held(m) => /\ Marked(recorded[m].parts, mem[m])
                      /\ Parted(order) => Marked({order.reason}, mem[m])
        /\ m \notin misread =>
             mem[m].clocks = SellClocks(recorded[m].clocks, order.reason,
                                        Parted(order) /\ Takes(order.reason))
    BY <1>1, <1>2, <1>8 DEF SellRuns, Ordering
  <2>2. rec.qty = order.qty /\ rec.reason = order.reason
    BY DEF SellRecord
  <2>3. ledger'[m] = ReplaySell(ledger[m], rec)
    BY <1>8 DEF Record, TypeOK, HistoryTyped
  <2>4. mem' = mem \/ (Cleared(order.base, order.qty) /\ mem'[m] = ClearPosition(mem[m]))
    BY DEF Record, AfterRecord, TypeOK, BotTyped
  <2> HIDE DEF rec
  <2>5. ledger'[m].left > 0 =>
          /\ ledger[m].left > 0 /\ ledger'[m].left = ledger[m].left - order.qty
          /\ ledger'[m].tpDone <=> ledger[m].tpDone \/ Takes(order.reason)
          /\ ledger'[m].slDone <=> ledger[m].slDone \/ Cuts(order.reason)
    BY <1>4, <2>2, <2>3, ReplayOfAnySale
  <2>6. mem'[m].clocks = mem[m].clocks /\ (mem' = mem \/ mem'[m].price = {})
    BY <2>4, RowTyped DEF ClearPosition, MemoryRecords
  <2>7. PartsKnown(m)'
    <3>1. ~Held(m)' => recorded'[m].parts = {}
      BY <1>1, <1>3, <1>6 DEF Held
    <3>2. ledger'[m].left > 0 => held'[m] < ledger'[m].left + PositionThreshold
      BY <1>1, <1>4, <2>1, <2>5
    <3>3. ledger'[m].left > 0 /\ Held(m)' => Marked(recorded'[m].parts, ledger'[m])
      BY <1>1, <1>3, <1>6, <2>1, <2>5 DEF Marked, Takes, Cuts, Held
    <3>4. Held(m)' /\ mem'[m].price # {} => Marked(recorded'[m].parts, mem'[m])
      BY <1>1, <1>3, <1>6, <2>1, <2>6 DEF Marked, Held
    <3> QED
      BY <3>1, <3>2, <3>3, <3>4 DEF PartsKnown
  <2>8. MemoryTrue(m)'
    BY <1>1, <1>3, <2>1, <2>4, <2>6 DEF MemoryTrue, Held
  <2> QED
    BY <2>7, <2>8
<1> QED
  BY <1>7, <1>8, OrderFieldsTyped DEF TypeOK, BotTyped, OrderRecords

LEMMA RecordRuns ==
  ASSUME TypeOK, ViewsHold, RunsWell, Record, NEW m \in Markets
  PROVE  Runs(m)'
<1>1. /\ Runs(m) /\ order' = NoOrder /\ order'.stage = "none"
      /\ UNCHANGED <<up, held, lots, missed, lates, cut, misread>>
  BY DEF RunsWell, Record, NoOrder, exchange, readings
<1>2. order.market \in Markets
  BY OrderFieldsTyped
<1>3. CASE m # order.market
  <2>1. ledger'[m] = ledger[m] /\ recorded'[m] = recorded[m] /\ mem'[m] = mem[m]
    BY <1>2, <1>3 DEF Record, AfterRecord, TypeOK, BotTyped, HistoryTyped, ObserversTyped
  <2>2. SameRecords(m) /\ Idle(m) /\ Idle(m)'
    BY <1>1, <1>3, <2>1 DEF SameRecords, Idle
  <2> QED
    BY <1>1, <2>1, <2>2, OthersRun
<1>4. CASE m = order.market
  <2> SUFFICES ASSUME Undisturbed(m)'
               PROVE  PartsKnown(m)' /\ MemoryTrue(m)' /\ BuyRuns(m)' /\ SellRuns(m)'
    BY DEF Runs
  <2>1. PartsKnown(m)' /\ MemoryTrue(m)'
    BY <1>1, <1>4, RecordedFill DEF Undisturbed
  <2>2. BuyRuns(m)' /\ SellRuns(m)'
    BY <1>1 DEF BuyRuns, SellRuns, Ordering
  <2> QED
    BY <2>1, <2>2
<1> QED
  BY <1>3, <1>4

LEMMA RunsNext ==
  TypeOK /\ ViewsHold /\ HistoryTold /\ RunsWell /\ [Next]_vars => RunsWell'
<1> SUFFICES ASSUME TypeOK, ViewsHold, HistoryTold, RunsWell, [Next]_vars, NEW m \in Markets
             PROVE  Runs(m)'
  BY DEF RunsWell
<1>1. ASSUME NEW v \in Markets, Visit(v) PROVE Runs(m)'
  <2>1. CASE FetchFails(v) \/ HoldUnrecoverable(v)
    BY <2>1, FrameRuns
    DEF FetchFails, HoldUnrecoverable, exchange, history, observers, readings
  <2> QED
    BY <1>1, <2>1, WaitRuns, SubmitRuns DEF Visit
<1>2. CASE FinishOrder
  BY <1>2, AbandonedRuns, AcknowledgedRuns, RecordRuns DEF FinishOrder
<1>3. CASE StartPass
  <2>1. order' = order
    BY <1>3 DEF StartPass
  <2> QED
    BY <1>3, <2>1, FrameRuns DEF StartPass, exchange, history, observers, readings
<1>4. CASE Environment
  <2>1. CASE NewDay \/ \E n \in Markets : PriceTurns(n)
    BY <2>1, FrameRuns DEF NewDay, PriceTurns, bot, exchange, history, observers, readings
  <2> QED
    BY <1>4, <2>1, ExchangeFillsRuns, LateFillsRuns, CrashRuns, StartRuns, TickRuns
    DEF Environment
<1>5. CASE UNCHANGED vars
  BY <1>5, FrameRuns DEF vars, bot, exchange, history, observers, readings
<1> QED
  BY <1>1, <1>2, <1>3, <1>4, <1>5 DEF Next, Thread

LEMMA RunsCorrect == Spec => [](TypeOK /\ ViewsHold /\ HistoryTold /\ RunsWell)
<1>1. Init => RunsWell
  BY RunsInit
<1>2. TypeOK /\ ViewsHold /\ HistoryTold /\ RunsWell /\ [Next]_vars => RunsWell'
  BY RunsNext
<1> QED
  BY <1>1, <1>2, HistoryCorrect, PTL DEF Spec

-----------------------------------------------------------------------------
(* What follows for a position at rest *)

LEMMA AtRest ==
  ASSUME HistoryTold, NEW m \in Markets, Settled(m), Undisturbed(m), Held(m), m \notin cut
  PROVE  /\ ledger[m].left > 0 /\ ledger[m].lots = lots[m]
         /\ mem[m].price = ledger[m].lots /\ mem[m].clocks = ledger[m].clocks
         /\ mem[m].tpDone <=> ledger[m].tpDone
         /\ mem[m].slDone <=> ledger[m].slDone
BY DEF HistoryTold, Told, AsTold, HistoryKnows, MemoryMatches, InStage, Settled

\* The entry price of a held position is the price of exactly the buys it consists
\* of, through splits, partial sales, faults and restarts, while every fill of the
\* symbol reached the history; the memory of a restart after a sale that left
\* something else than its reason says is excepted.
THEOREM BasisIsExact == Spec => []BasisExact
<1>1. RunsWell => BasisExact
  BY DEF RunsWell, Runs, MemoryTrue, InStage, Settled, BasisExact
<1> QED
  BY <1>1, RunsCorrect, PTL

\* Replaying the history of a symbol gives what the bot remembers of it: the entry
\* price, the flags of the partial exits and the cooldown clocks, unless a sale left
\* something else than its reason says.
THEOREM RestartIsTransparent ==
  Spec => []RestartTransparent
<1>1. TypeOK /\ HistoryTold => RestartTransparent
  <2> SUFFICES ASSUME TypeOK, HistoryTold, NEW m \in Markets,
                      Settled(m), Undisturbed(m), Held(m), m \notin cut
               PROVE  LET again == RecoveredMemory(ledger[m])
                      IN  /\ again.price = mem[m].price
                          /\ again.tpDone = mem[m].tpDone
                          /\ again.slDone = mem[m].slDone
                          /\ again.clocks = mem[m].clocks
    BY DEF RestartTransparent
  <2>1. /\ ledger[m].tpDone \in BOOLEAN /\ ledger[m].slDone \in BOOLEAN
        /\ mem[m].tpDone \in BOOLEAN /\ mem[m].slDone \in BOOLEAN
    BY RowTyped DEF MemoryRecords, LedgerRecords
  <2>2. mem[m].tpDone = ledger[m].tpDone /\ mem[m].slDone = ledger[m].slDone
    BY <2>1, AtRest, Zenon
  <2> QED
    BY <2>2, AtRest DEF RecoveredMemory
<1> QED
  BY <1>1, HistoryCorrect, PTL

-----------------------------------------------------------------------------
(* What a submitted order was decided on *)

LEMMA SubmittedByVisit ==
  ASSUME [Next]_vars, NEW m \in Markets, NEW side \in {"buy", "sell"}, Submits(m, side)
  PROVE  IF side = "buy" THEN SubmitBuy(m) ELSE SubmitSell(m)
<1>1. order.stage = "none" /\ order'.stage = "sent" /\ order'.side = side /\ order'.market = m
  BY DEF Submits
<1>2. order' # order /\ order' # NoOrder
  BY <1>1 DEF NoOrder
<1>3. \E v \in Markets : SubmitBuy(v) \/ SubmitSell(v)
  <2>1. ~StartPass /\ ~FinishOrder
    BY <1>1, <1>2 DEF StartPass, FinishOrder, Rejected, ResponseLost, TimesOut, Acknowledged,
                      AcknowledgedEarly, Record, BookkeepingFails
  <2>2. ~Environment /\ ~UNCHANGED vars
    BY <1>1, <1>2 DEF Environment, ExchangeFills, LateBuyFills, LateSellFills, PriceTurns, Crash,
                      Start, NewDay, Tick, bot, vars
  <2> QED
    BY <1>2, <2>1, <2>2 DEF Next, Thread, Visit, FetchFails, HoldUnrecoverable, Wait
<1>4. PICK v \in Markets : SubmitBuy(v) \/ SubmitSell(v)
  BY <1>3
<1>5. CASE SubmitBuy(v)
  <2>1. order'.side = "buy" /\ order'.market = v
    BY <1>5 DEF SubmitBuy, NoOrder
  <2> QED
    BY <1>1, <1>5, <2>1
<1>6. CASE SubmitSell(v)
  <2>1. order'.side = "sell" /\ order'.market = v
    BY <1>6 DEF SubmitSell
  <2> QED
    BY <1>1, <1>6, <2>1
<1> QED
  BY <1>4, <1>5, <1>6

LEMMA BuyIsReady ==
  ASSUME [Next]_vars, TypeOK, NEW m \in Markets, Submits(m, "buy")
  PROVE  /\ Visiting(m) /\ pnl > -MaxDailyLoss
         /\ mem[m].clocks.trade >= TradeInterval
         /\ mem[m].clocks.stop >= StopCooldown
         /\ mem[m].clocks.tp >= TpCooldown
<1>1. Visiting(m) /\ EntryReady(Visited(m, TRUE))
  BY SubmittedByVisit DEF SubmitBuy
<1>2. Visited(m, TRUE).clocks = mem[m].clocks /\ mem[m].clocks \in ClockRecords
  BY VisitedFields, RowTyped DEF MemoryRecords
<1>3. AgeCap \in Nat /\ TradeInterval \in Nat /\ StopCooldown \in Nat /\ TpCooldown \in Nat
  BY LifecycleAssumption
<1>4. /\ mem[m].clocks.trade \in Nat /\ mem[m].clocks.stop \in Nat /\ mem[m].clocks.tp \in Nat
  BY <1>2, <1>3 DEF ClockRecords, Ages
<1> DEFINE v == Visited(m, TRUE)
<1>5. /\ Visiting(m) /\ EntryReady(v) /\ v.clocks = mem[m].clocks
  BY <1>1, <1>2
<1> HIDE DEF v
<1> QED
  BY <1>3, <1>4, <1>5
  DEF EntryReady, EntryCooldownActive, InCooldown, PartialTakeProfitCooldown,
      StopLossPatternBlocked

\* No buy comes before the trade interval and the cooldowns of the recorded fills
\* are over, however often the bot restarts in between and whatever share of a
\* position its exits sell, unless it restarted after a sale that left something
\* else than its reason says.
THEOREM NeverTooEarly ==
  Spec => NoEarlyReentry
<1>1. ASSUME TypeOK, RunsWell, [Next]_vars, NEW m \in Markets,
             Submits(m, "buy"), Undisturbed(m), m \notin misread
      PROVE  /\ recorded[m].clocks.trade >= TradeInterval
             /\ recorded[m].clocks.stop >= StopCooldown
             /\ recorded[m].clocks.tp >= TpCooldown
  <2>1. Visiting(m) /\ MemoryTrue(m)
    BY <1>1, BuyIsReady DEF RunsWell, Runs
  <2>2. recorded[m].clocks = mem[m].clocks
    BY <1>1, <2>1 DEF Visiting, MemoryTrue, InStage
  <2> QED
    BY <1>1, <2>2, BuyIsReady
<1>2. TypeOK /\ RunsWell /\ [Next]_vars =>
        [\A m \in Markets :
           Submits(m, "buy") /\ Undisturbed(m) /\ m \notin misread =>
             /\ recorded[m].clocks.trade >= TradeInterval
             /\ recorded[m].clocks.stop >= StopCooldown
             /\ recorded[m].clocks.tp >= TpCooldown]_vars
  BY <1>1
<1> QED
  BY <1>2, RunsCorrect, PTL DEF Spec, NoEarlyReentry

\* A position is sold partially at most once for profit and once for loss, also
\* when the bot restarts in between, and whatever share its splits sell.
THEOREM PartialExitsHappenOnce ==
  Spec => PartialExitOnce
<1>1. ASSUME TypeOK, ViewsHold, RunsWell, [Next]_vars, NEW m \in Markets,
             Submits(m, "sell"), Undisturbed(m)
      PROVE  order'.reason \notin recorded[m].parts
  <2>1. SubmitSell(m)
    BY <1>1, SubmittedByVisit
  <2>2. PICK T \in Signals(m) : /\ WantsSell(m, T)
                                /\ order'.reason = SellPlan(m, T).reason
    BY <2>1 DEF SubmitSell
  <2>3. /\ Visiting(m) /\ PartsKnown(m) /\ mem[m].price # {} /\ Held(m)
    <3>1. Visiting(m) /\ HasPosition(m)
      BY <2>1, <2>2 DEF SubmitSell, WantsSell, ExitReady, HasPosition
    <3> QED
      BY <1>1, <2>1, <3>1, VisitSeesTruth
      DEF RunsWell, Runs, Undisturbed, SubmitSell, Unrecoverable
  <2>4. Marked(recorded[m].parts, mem[m])
    BY <2>3 DEF PartsKnown, Visiting, InStage
  <2>5. /\ T \in SUBSET Triggers /\ T # {}
        /\ BaseFree(m) \in Nat
        /\ mem[m].tpDone \in BOOLEAN /\ mem[m].slDone \in BOOLEAN
    BY <1>1, <2>2, BaseTyped, RowTyped, BotAssumption
    DEF WantsSell, ExitReady, Signals, MemoryRecords
  <2>6. /\ Takes(order'.reason) => ~mem[m].tpDone
        /\ Cuts(order'.reason) => ~mem[m].slDone
    BY <2>2, <2>5, PlanFits DEF SellPlan
  <2>7. recorded[m].parts \subseteq PartialReasons
    BY <1>1, RowTyped
  <2> QED
    BY <2>4, <2>6, <2>7 DEF Marked, Takes, Cuts, PartialReasons
<1>2. TypeOK /\ ViewsHold /\ RunsWell /\ [Next]_vars =>
        [\A m \in Markets :
           Submits(m, "sell") /\ Undisturbed(m) => order'.reason \notin recorded[m].parts]_vars
  BY <1>1
<1> QED
  BY <1>2, RunsCorrect, PTL DEF Spec, PartialExitOnce

-----------------------------------------------------------------------------
(* The daily loss limit                                                    *)

\* What the bot believes it earned today is at most what the history says, plus
\* the result of the order it has not recorded yet.  Fees only lower the belief.
Unrecorded == IF order.stage = "acked" THEN order.gross ELSE 0
LossesKept ==
  /\ today.net <= today.gross
  /\ order.side = "buy" => order.gross = 0
  /\ up /\ ~stale /\ (\A n \in Markets : missed[n] = 0) => pnl <= today.gross + Unrecorded

LEMMA LossesTyped ==
  ASSUME TypeOK
  PROVE  /\ today.net \in Int /\ today.gross \in Int /\ pnl \in Int /\ order.gross \in Int
         /\ Fee \in Nat /\ order.market \in Markets
BY BotAssumption DEF TypeOK, BotTyped, HistoryTyped, OrderRecords

LEMMA LossesNext == TypeOK /\ ViewsHold /\ LossesKept /\ [Next]_vars => LossesKept'
<1> SUFFICES ASSUME TypeOK, ViewsHold, LossesKept, [Next]_vars PROVE LossesKept'
  OBVIOUS
<1>1. ASSUME UNCHANGED <<today, missed, stale, up, pnl, order>> PROVE LossesKept'
  BY <1>1 DEF LossesKept, Unrecorded
<1>2. NoOrder.gross = 0 /\ NoOrder.stage = "none"
  BY DEF NoOrder
<1>3. ASSUME NEW m \in Markets, Visit(m) PROVE LossesKept'
  <2>1. CASE FetchFails(m) \/ HoldUnrecoverable(m) \/ Wait(m)
    BY <1>1, <2>1 DEF FetchFails, HoldUnrecoverable, Wait, history, observers
  <2>2. CASE SubmitBuy(m) \/ SubmitSell(m)
    <3>1. /\ order.stage = "none" /\ order'.stage = "sent" /\ order'.gross = 0
          /\ UNCHANGED <<today, missed, stale, up, pnl>>
      <4>1. CASE SubmitBuy(m)
        BY <4>1 DEF SubmitBuy, Visiting, NoOrder, history
      <4>2. CASE SubmitSell(m)
        BY <4>2 DEF SubmitSell, Visiting, history, observers
      <4> QED
        BY <2>2, <4>1, <4>2
    <3> QED
      BY <3>1 DEF LossesKept, Unrecorded
  <2> QED
    BY <1>3, <2>1, <2>2 DEF Visit
<1>4. CASE StartPass
  <2>1. /\ stale' = FALSE /\ pnl' = (IF stale THEN today.net ELSE pnl)
        /\ UNCHANGED <<today, missed, up, order>> /\ order.stage = "none"
    BY <1>4 DEF StartPass, history, observers, ViewsHold, OrderIsVisited
  <2> QED
    BY <2>1, LossesTyped DEF LossesKept, Unrecorded
<1>5. CASE FinishOrder
  <2>1. CASE Rejected
    <3>1. /\ order.stage = "sent" /\ order' = NoOrder /\ UNCHANGED <<today, missed, stale, up, pnl>>
      BY <2>1 DEF Rejected, GiveUp, history, observers
    <3> QED
      BY <1>2, <3>1 DEF LossesKept, Unrecorded
  <2>2. CASE ResponseLost \/ TimesOut \/ BookkeepingFails
    <3>1. /\ order' = NoOrder /\ today' = today
          /\ missed' = [missed EXCEPT ![order.market] = @ + 1]
      BY <2>2 DEF ResponseLost, TimesOut, BookkeepingFails, GiveUp, history
    <3>2. missed'[order.market] # 0
      BY <3>1, LossesTyped, Counted
    <3> QED
      BY <1>2, <3>1, <3>2, LossesTyped DEF LossesKept
  <2>3. CASE Acknowledged \/ AcknowledgedEarly
    <3>1. PICK gross \in Gross(order) : ApplyFill(order, gross)
      BY <2>3 DEF Acknowledged, AcknowledgedEarly
    <3>2. order.stage # "acked" /\ UNCHANGED <<today, missed, stale, up>>
      BY <2>3 DEF Acknowledged, AcknowledgedEarly, history, observers
    <3>3. /\ order'.stage = "acked" /\ order'.gross = gross /\ order'.side = order.side
          /\ pnl' = pnl + gross
      BY <3>1 DEF ApplyFill, TypeOK, BotTyped, OrderRecords
    <3>4. gross \in Int /\ (order.side = "buy" => gross = 0)
      BY BotAssumption DEF Gross
    <3> QED
      BY <3>2, <3>3, <3>4, LossesTyped DEF LossesKept, Unrecorded
  <2>4. CASE Record
    <3>1. /\ order.stage = "acked" /\ order' = NoOrder /\ UNCHANGED <<missed, stale, up, pnl>>
          /\ today' = IF order.side = "buy" THEN today
                      ELSE [gross |-> today.gross + order.gross,
                            net |-> today.net + order.gross - Fee]
      BY <2>4 DEF Record
    <3> QED
      BY <1>2, <3>1, LossesTyped DEF LossesKept, Unrecorded
  <2> QED
    BY <1>5, <2>1, <2>2, <2>3, <2>4 DEF FinishOrder
<1>6. CASE Environment
  <2>1. CASE ExchangeFills
    <3>1. /\ order.stage = "sent" /\ order'.stage = "filled"
          /\ order'.gross = order.gross /\ order'.side = order.side
          /\ UNCHANGED <<today, missed, stale, up, pnl>>
      BY <2>1 DEF ExchangeFills, history, observers, TypeOK, BotTyped, OrderRecords
    <3> QED
      BY <3>1 DEF LossesKept, Unrecorded
  <2>2. CASE \E m \in Markets : LateBuyFills(m) \/ LateSellFills(m) \/ PriceTurns(m)
    BY <1>1, <2>2 DEF LateBuyFills, LateSellFills, PriceTurns, bot, history, observers
  <2>3. CASE Tick
    BY <1>1, <2>3 DEF Tick
  <2>4. CASE Crash
    <3>1. up' = FALSE /\ order' = NoOrder /\ today' = today
      BY <2>4 DEF Crash, history
    <3> QED
      BY <1>2, <3>1 DEF LossesKept
  <2>5. CASE Start
    <3>1. pnl' = today.net /\ UNCHANGED <<today, order>> /\ order.stage = "none"
      BY <2>5 DEF Start, history, ViewsHold, OrderIsVisited
    <3> QED
      BY <3>1, LossesTyped DEF LossesKept, Unrecorded
  <2>6. CASE NewDay
    <3>1. today'.gross = 0 /\ today'.net = 0 /\ stale' = TRUE /\ order' = order
      BY <2>6 DEF NewDay, bot
    <3> QED
      BY <3>1 DEF LossesKept
  <2> QED
    BY <1>6, <2>1, <2>2, <2>3, <2>4, <2>5, <2>6 DEF Environment
<1>7. CASE UNCHANGED vars
  BY <1>1, <1>7 DEF vars, bot, history, observers
<1> QED
  BY <1>3, <1>4, <1>5, <1>6, <1>7 DEF Next, Thread

\* No buy comes once the recorded results of the day reach the loss limit, restarts
\* included, while every fill reached the history.
THEOREM LossesAreLimited == Spec => DailyLossLimit
<1>1. Init => LossesKept
  BY DEF Init, LossesKept, Unrecorded, NoOrder
<1>2. ASSUME TypeOK, LossesKept, [Next]_vars, NEW m \in Markets, Submits(m, "buy"),
             ~stale, \A n \in Markets : missed[n] = 0
      PROVE  today.gross > -MaxDailyLoss
  <2>1. up /\ order.stage = "none" /\ pnl > -MaxDailyLoss
    BY <1>2, BuyIsReady DEF Visiting
  <2>2. pnl <= today.gross
    BY <1>2, <2>1, LossesTyped DEF LossesKept, Unrecorded
  <2> QED
    BY <1>2, <2>1, <2>2, LossesTyped, BotAssumption
<1>3. TypeOK /\ LossesKept /\ [Next]_vars =>
        [\A m \in Markets :
           Submits(m, "buy") /\ ~stale /\ (\A n \in Markets : missed[n] = 0)
             => today.gross > -MaxDailyLoss]_vars
  BY <1>2
<1> QED
  BY <1>1, <1>3, ViewsCorrect, LossesNext, PTL DEF Spec, DailyLossLimit
=============================================================================
