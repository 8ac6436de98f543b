------------------------------- MODULE AltBot -------------------------------
(***************************************************************************)
(* The OKX alt bot (ma_crossover_bot.run_bot): one thread that reads the   *)
(* balances once per pass, visits its symbols in order and trades, next to *)
(* an exchange that executes its orders, a trade history that outlives it, *)
(* a clock, and the faults that separate a fill from its record.           *)
(***************************************************************************)
EXTENDS StateRecovery

CONSTANTS
  MarketCount,    \* symbols of load_alt_markets("okx"), visited in this order
  BuyAmount,      \* the amount a buy is estimated to bring, recorded as such
  BuyFills,       \* what it can really bring, after price moves and fees
  SignalSets,     \* the sets of exit triggers a visit can see
  GrossPnLs,      \* gross results a sell can have
  Fee,            \* what net_realized_pnl_quote takes off the gross result
  MaxDailyLoss,   \* max_daily_loss_quote
  MaxEntryCount,  \* max_entry_count
  Faults,         \* the kinds of fault that may happen
  Fallers,        \* symbols whose price may fall below every stop level
  MaxBuys,        \* bound: buy orders in a behaviour
  MaxFaults,      \* bound: faults in a behaviour
  MaxLoss         \* bound: |daily results|

FaultKinds == {"crash", "fetch", "balance", "reject", "lost", "late", "book"}

\* Shares must not vanish by integer division: the smallest one is a unit.
ASSUME BotAssumption ==
  /\ \A pct \in {SplitPct, PartialTpPct, PartialSlPct} : PositionThreshold * pct >= 100
  /\ MarketCount \in Nat \ {0}
  /\ BuyAmount \in Nat
  /\ BuyFills \subseteq Nat
  /\ \A q \in BuyFills : q >= PositionThreshold /\ q <= BuyAmount
  /\ SignalSets \subseteq {T \in SUBSET Triggers : Compatible(T)}
  /\ GrossPnLs \subseteq Int
  /\ Fee \in Nat
  /\ MaxDailyLoss \in Nat
  /\ MaxEntryCount \in Nat \ {0}
  /\ Faults \subseteq FaultKinds
  /\ Fallers \subseteq 1..MarketCount
  /\ Fallers # {} => {"stop_loss"} \in SignalSets
  /\ MaxBuys \in Nat \ {0}
  /\ MaxFaults \in Nat /\ MaxLoss \in Nat

Markets == 1..MarketCount
BuyIds == 0..MaxBuys - 1

VARIABLES
  up,        \* is the process running?
  at,        \* the symbol being visited, 0 while the bot sleeps between passes
  loaded,    \* account_balances_loaded
  snap,      \* account_balances, the base amounts
  mem,       \* what the bot remembers of each symbol
  pnl,       \* daily_realized_pnl_quote
  order,     \* the order in progress
  held,      \* the exchange: base amounts really held
  lots,      \* the exchange: the buys the held position consists of
  lateBuys,  \* the exchange: buys to execute after the bot stopped waiting
  lateSells, \* the exchange: amounts to sell after the bot stopped waiting
  ledger,    \* the trade history of each symbol, replayed
  today,     \* the trade history's realized results of the current date
  stale,     \* did the date change since the bot last looked?
  falling,   \* is the price of a symbol below every stop level?
  recorded,  \* observer: ages of the last recorded fills, partial exits so far
  missed,    \* observer: fills of each symbol that are not in the history
  lates,     \* observer: orders of each symbol the bot stopped waiting for
  cut,       \* observer: symbols with a sale that left other than its reason says
  misread,   \* observer: of these, the symbols the bot's memory is wrong about
  bought,    \* buy orders so far
  faults     \* faults so far

bot == <<up, at, loaded, snap, mem, pnl, order>>
exchange == <<held, lots, lateBuys, lateSells>>
history == <<ledger, today>>
readings == <<cut, misread>>
observers == <<recorded, missed, lates, readings, bought>>
vars == <<bot, exchange, history, stale, falling, observers, faults>>

NoOrder == [stage |-> "none", side |-> "buy", market |-> 1, base |-> 0,
            id |-> 0, qty |-> 0, reason |-> "entry", gross |-> 0]

Init ==
  /\ up = TRUE /\ at = 0 /\ loaded = FALSE /\ pnl = 0
  /\ snap = [m \in Markets |-> 0]
  /\ mem = [m \in Markets |-> BlankMemory]
  /\ order = NoOrder
  /\ held = [m \in Markets |-> 0]
  /\ lots = [m \in Markets |-> {}]
  /\ lateBuys = [m \in Markets |-> {}]
  /\ lateSells = [m \in Markets |-> 0]
  /\ ledger = [m \in Markets |-> EmptyLedger]
  /\ today = [gross |-> 0, net |-> 0]
  /\ stale = FALSE
  /\ falling = [m \in Markets |-> FALSE]
  /\ recorded = [m \in Markets |-> [clocks |-> NoClocks, parts |-> {}]]
  /\ missed = [m \in Markets |-> 0]
  /\ lates = [m \in Markets |-> 0]
  /\ cut = {} /\ misread = {}
  /\ bought = 0 /\ faults = 0

Fault(kind) == kind \in Faults /\ faults < MaxFaults /\ faults' = faults + 1

-----------------------------------------------------------------------------
(* A pass over the symbols                                                 *)

Visiting(m) == up /\ at = m /\ order.stage = "none"
NextMarket == IF at < MarketCount THEN at + 1 ELSE 0

\* When the batch query of the balances failed each symbol is queried.
BaseFree(m) == IF loaded THEN snap[m] ELSE held[m]
HasPosition(m) == BaseFree(m) >= PositionThreshold
Unrecoverable(m) == HasPosition(m) /\ mem[m].price = {}

StartPass ==
  /\ up /\ at = 0
  /\ at' = 1
  /\ stale' = FALSE
  /\ pnl' = IF stale THEN today.net ELSE pnl
  /\ \/ loaded' = TRUE /\ snap' = held /\ UNCHANGED faults
     \/ loaded' = FALSE /\ UNCHANGED snap /\ Fault("balance")
  /\ UNCHANGED <<up, mem, order, exchange, history, falling, observers>>

\* A query fails and the exception handler moves on to the next symbol.
FetchFails(m) ==
  /\ Visiting(m) /\ Fault("fetch")
  /\ at' = NextMarket
  /\ UNCHANGED <<up, loaded, snap, mem, pnl, order, exchange, history, stale,
                 falling, observers>>

\* handle_unrecoverable_position: coins without an entry price are left alone.
HoldUnrecoverable(m) ==
  /\ Visiting(m) /\ Unrecoverable(m)
  /\ at' = NextMarket
  /\ UNCHANGED <<up, loaded, snap, mem, pnl, order, exchange, history, stale,
                 falling, observers, faults>>

\* What a visit remembers before it decides about orders: a symbol without a
\* position is cleaned up, and the entry timing advances.
Visited(m, candidate) ==
  UpdateEntryTiming(IF HasPosition(m) THEN mem[m] ELSE ClearPosition(mem[m]),
                    HasPosition(m), candidate)

\* The stages of the entry funnel that depend on the bot's state.  Those that
\* only look at the market are part of the choice of candidate.
EntryReady(visited) ==
  /\ EntryTimingReady(visited)
  /\ ~EntryCooldownActive(visited)
  /\ visited.count < MaxEntryCount
  /\ pnl > -MaxDailyLoss

\* The triggers a visit of a held symbol sees
Signals(m) == {T \in SignalSets : falling[m] => "stop_loss" \in T}

SellPlan(m, T) ==
  SellOrder(BaseFree(m), SellIntent(T, mem[m].tpDone, mem[m].slDone))

WantsSell(m, T) ==
  /\ ExitReady(T, BaseFree(m), InCooldown(mem[m]))
  /\ ShouldOrder(SellPlan(m, T))

\* Neither a buy nor a sell comes of the visit.
Wait(m) ==
  /\ Visiting(m) /\ ~Unrecoverable(m)
  /\ \E candidate \in BOOLEAN : mem' = [mem EXCEPT ![m] = Visited(m, candidate)]
  /\ HasPosition(m) => \E T \in Signals(m) : ~WantsSell(m, T)
  /\ at' = NextMarket
  /\ UNCHANGED <<up, loaded, snap, pnl, order, exchange, history, stale,
                 falling, observers, faults>>

SubmitBuy(m) ==
  /\ Visiting(m) /\ ~Unrecoverable(m) /\ ~falling[m]
  /\ bought < MaxBuys
  /\ EntryReady(Visited(m, TRUE))
  /\ mem' = [mem EXCEPT ![m] = Visited(m, TRUE)]
  /\ bought' = bought + 1
  /\ order' = [NoOrder EXCEPT !.stage = "sent", !.market = m, !.base = BaseFree(m),
                                !.id = bought]
  /\ UNCHANGED <<up, at, loaded, snap, pnl, exchange, history, stale, falling,
                 recorded, missed, lates, readings, faults>>

\* elif exit_ready: some stage of the entry funnel refused.
SubmitSell(m) ==
  /\ Visiting(m) /\ ~Unrecoverable(m)
  /\ \E T \in Signals(m) :
       /\ WantsSell(m, T)
       /\ order' = [stage |-> "sent", side |-> "sell", market |-> m,
                    base |-> BaseFree(m), id |-> 0, qty |-> SellPlan(m, T).qty,
                    reason |-> SellPlan(m, T).reason, gross |-> 0]
  /\ \E candidate \in BOOLEAN :
       mem' = [mem EXCEPT ![m] = Visited(m, candidate)]
  /\ UNCHANGED <<up, at, loaded, snap, pnl, exchange, history, stale, falling,
                 observers, faults>>

-----------------------------------------------------------------------------
(* The exchange: market orders execute at once or are refused              *)

\* Dust below the position threshold belongs to no position.
OwnedLots(amount, ids) == IF amount >= PositionThreshold THEN ids ELSE {}

ExecuteBuy(m, id) ==
  \E q \in BuyFills :
    /\ held' = [held EXCEPT ![m] = @ + q]
    /\ lots' = [lots EXCEPT ![m] = OwnedLots(held[m] + q, @ \cup {id})]

\* A sell the account cannot cover is refused.
Covered(m, qty) == held[m] >= qty

ExecuteSell(m, qty) ==
  /\ held' = [held EXCEPT ![m] = @ - qty]
  /\ lots' = [lots EXCEPT ![m] = OwnedLots(held[m] - qty, @)]

\* A partial sale is to leave a position, any other sale none: that is what the
\* recovery takes it for.  What clear_alt_position_state takes for gone (0.0001
\* in the code) can just be a position.
LeavesAsTold(reason, rest) ==
  IF reason \in PartialReasons THEN rest >= PositionThreshold /\ rest > ClearThreshold
                               ELSE rest < PositionThreshold
ForgottenWhileHeld(rest) == rest >= PositionThreshold /\ rest <= ClearThreshold

Observed(set, m, happens) == IF happens THEN set \cup {m} ELSE set

ExchangeFills ==
  LET m == order.market
      rest == held[m] - order.qty
  IN  /\ order.stage = "sent"
      /\ IF order.side = "buy"
         THEN ExecuteBuy(m, order.id) /\ UNCHANGED readings
         ELSE /\ Covered(m, order.qty) /\ ExecuteSell(m, order.qty)
              /\ cut' = Observed(cut, m, ~LeavesAsTold(order.reason, rest))
              /\ misread' = Observed(misread, m, ForgottenWhileHeld(rest))
      /\ order' = [order EXCEPT !.stage = "filled"]
      /\ UNCHANGED <<up, at, loaded, snap, mem, pnl, lateBuys, lateSells, history,
                     stale, falling, recorded, missed, lates, bought, faults>>

\* The order reaches the exchange, but executes only after the bot has its
\* answer, its timeout or its crash behind it.
Postpone(o) ==
  /\ lates' = [lates EXCEPT ![o.market] = @ + 1]
  /\ IF o.side = "buy"
     THEN /\ lateBuys' = [lateBuys EXCEPT ![o.market] = @ \cup {o.id}]
          /\ UNCHANGED lateSells
     ELSE /\ lateSells' = [lateSells EXCEPT ![o.market] = @ + o.qty]
          /\ UNCHANGED lateBuys

LateBuyFills(m) ==
  /\ \E id \in lateBuys[m] :
       /\ ExecuteBuy(m, id)
       /\ lateBuys' = [lateBuys EXCEPT ![m] = @ \ {id}]
  /\ UNCHANGED <<bot, lateSells, history, stale, falling, observers, faults>>

LateSellFills(m) ==
  /\ lateSells[m] > 0
  /\ IF Covered(m, lateSells[m]) THEN ExecuteSell(m, lateSells[m])
                                 ELSE UNCHANGED <<held, lots>>
  /\ lateSells' = [lateSells EXCEPT ![m] = 0]
  /\ UNCHANGED <<bot, lateBuys, history, stale, falling, observers, faults>>

-----------------------------------------------------------------------------
(* The bot's side of an order                                              *)

\* The request raises: the handler forgets the order and goes on.
GiveUp ==
  /\ order' = NoOrder
  /\ at' = NextMarket
  /\ UNCHANGED <<up, loaded, snap, mem, pnl>>

Rejected ==
  /\ order.stage = "sent" /\ GiveUp
  /\ \/ Fault("reject")
     \/ order.side = "sell" /\ ~Covered(order.market, order.qty) /\ UNCHANGED faults
  /\ UNCHANGED <<exchange, history, stale, falling, observers>>

ResponseLost ==
  /\ order.stage = "filled" /\ Fault("lost") /\ GiveUp
  /\ missed' = [missed EXCEPT ![order.market] = @ + 1]
  /\ UNCHANGED <<exchange, history, stale, falling, recorded, lates, readings, bought>>

TimesOut ==
  /\ order.stage = "sent" /\ Fault("late") /\ GiveUp
  /\ Postpone(order)
  /\ missed' = [missed EXCEPT ![order.market] = @ + 1]
  /\ UNCHANGED <<held, lots, history, stale, falling, recorded, readings, bought>>

\* What a response does to the bot's memory, from the balances it decided on
ApplyFill(o, gross) ==
  LET m == o.market
  IN  /\ order' = [o EXCEPT !.stage = "acked", !.gross = gross]
      /\ pnl' = pnl + gross
      /\ mem' = [mem EXCEPT ![m] =
           IF o.side = "buy" THEN ApplyBuyFill(@, o.id, o.base >= PositionThreshold)
           ELSE ApplySellFill(@, o.base, o.qty, o.reason)]

Gross(o) == IF o.side = "buy" THEN {0}
            ELSE {g \in GrossPnLs : pnl + g \in -MaxLoss..MaxLoss}

\* The response arrives; the balances are read again for the symbols to come.
Acknowledged ==
  /\ order.stage = "filled"
  /\ \E gross \in Gross(order) : ApplyFill(order, gross)
  /\ \/ snap' = (IF loaded THEN held ELSE snap) /\ UNCHANGED <<loaded, faults>>
     \/ loaded /\ loaded' = FALSE /\ UNCHANGED snap /\ Fault("balance")
  /\ UNCHANGED <<up, at, exchange, history, stale, falling, observers>>

\* OKX answers that it took the order, not that it executed it.
AcknowledgedEarly ==
  /\ order.stage = "sent" /\ Fault("late")
  /\ \E gross \in Gross(order) : ApplyFill(order, gross)
  /\ Postpone(order)
  /\ snap' = (IF loaded THEN held ELSE snap)
  /\ UNCHANGED <<up, at, loaded, held, lots, history, stale, falling, recorded,
                 missed, readings, bought>>

\* A recorded position that is gone is forgotten after its record is written.
AfterRecord(o) ==
  IF o.side = "sell" /\ Cleared(o.base, o.qty)
  THEN [mem EXCEPT ![o.market] = ClearPosition(@)]
  ELSE mem

SellRecord(o) ==
  [qty |-> o.qty, reason |-> o.reason,
   countAfter |-> mem[o.market].count,
   remainingAfter |-> Remaining(o.base, o.qty)]

\* The observer's own account of a recorded fill
Observe(r, o) ==
  LET partial == o.reason \in PartialReasons /\ ~Cleared(o.base, o.qty)
  IN  [clocks |-> SellClocks(r.clocks, o.reason,
                              partial /\ o.reason = "partial_take_profit"),
       parts |-> IF held[o.market] < PositionThreshold THEN {}
                 ELSE IF partial THEN r.parts \cup {o.reason} ELSE r.parts]

\* trade_history.log_fill
Record ==
  LET m == order.market
      buy == order.side = "buy"
  IN  /\ order.stage = "acked"
      /\ ledger' = [ledger EXCEPT ![m] =
           IF buy THEN ReplayBuy(@, order.id, BuyAmount)
           ELSE ReplaySell(@, SellRecord(order))]
      /\ today' = IF buy THEN today
                  ELSE [gross |-> today.gross + order.gross,
                        net |-> today.net + order.gross - Fee]
      /\ recorded' = [recorded EXCEPT ![m] = Observe(@, order)]
      /\ \/ mem' = AfterRecord(order) /\ UNCHANGED faults
         \/ mem' = mem /\ Fault("book")   \* raised by the copy to the structured log
      /\ order' = NoOrder
      /\ at' = NextMarket
      /\ UNCHANGED <<up, loaded, snap, pnl, exchange, stale, falling, missed,
                     lates, readings, bought>>

\* A logger or the history file raises between the response and the record.
BookkeepingFails ==
  /\ order.stage = "acked" /\ Fault("book") /\ GiveUp
  /\ missed' = [missed EXCEPT ![order.market] = @ + 1]
  /\ UNCHANGED <<exchange, history, stale, falling, recorded, lates, readings, bought>>

-----------------------------------------------------------------------------
(* Crashes, restarts, time and prices                                      *)

\* Everything the process keeps is gone.  An order on its way may have been
\* executed, may never arrive or may execute later.
Crash ==
  /\ up /\ Fault("crash")
  /\ up' = FALSE /\ at' = 0 /\ loaded' = FALSE /\ pnl' = 0
  /\ snap' = [m \in Markets |-> 0]
  /\ mem' = [m \in Markets |-> BlankMemory]
  /\ order' = NoOrder
  /\ \/ /\ order.stage \in {"none", "sent"}
        /\ UNCHANGED <<exchange, missed, lates>>
     \/ /\ order.stage \in {"filled", "acked"}
        /\ missed' = [missed EXCEPT ![order.market] = @ + 1]
        /\ UNCHANGED <<exchange, lates>>
     \/ /\ order.stage = "sent" /\ "late" \in Faults
        /\ missed' = [missed EXCEPT ![order.market] = @ + 1]
        /\ Postpone(order)
        /\ UNCHANGED <<held, lots>>
  /\ UNCHANGED <<history, stale, falling, recorded, readings, bought>>

\* Variant: today's result is not recovered.
StartFromZero ==
  /\ ~up /\ up' = TRUE
  /\ mem' = [m \in Markets |-> RecoveredMemory(ledger[m])]
  /\ pnl' = 0
  /\ stale' = FALSE /\ misread' = cut
  /\ UNCHANGED <<at, loaded, snap, order, exchange, history, falling,
                 recorded, missed, lates, cut, bought, faults>>

\* run_bot starts: positions and today's result come from the trade history.
Start ==
  /\ ~up /\ up' = TRUE
  /\ mem' = [m \in Markets |-> RecoveredMemory(ledger[m])]
  /\ pnl' = today.net
  /\ stale' = FALSE /\ misread' = cut
  /\ UNCHANGED <<at, loaded, snap, order, exchange, history, falling,
                 recorded, missed, lates, cut, bought, faults>>

NewDay ==
  /\ today # [gross |-> 0, net |-> 0]
  /\ today' = [gross |-> 0, net |-> 0]
  /\ stale' = TRUE
  /\ UNCHANGED <<bot, exchange, ledger, falling, observers, faults>>

\* Cooldowns are minutes, an order in progress takes seconds.
Tick ==
  /\ order.stage = "none"
  /\ mem' = IF up THEN [m \in Markets |-> [mem[m] EXCEPT !.clocks = OlderClocks(@)]]
            ELSE mem
  /\ ledger' = [m \in Markets |-> [ledger[m] EXCEPT !.clocks = OlderClocks(@)]]
  /\ recorded' = [m \in Markets |-> [recorded[m] EXCEPT !.clocks = OlderClocks(@)]]
  /\ UNCHANGED <<up, at, loaded, snap, pnl, order, exchange, today, stale,
                 falling, missed, lates, readings, bought, faults>>

PriceTurns(m) ==
  /\ m \in Fallers
  /\ falling' = [falling EXCEPT ![m] = ~@]
  /\ UNCHANGED <<bot, exchange, history, stale, observers, faults>>

-----------------------------------------------------------------------------
Visit(m) ==
  \/ FetchFails(m) \/ HoldUnrecoverable(m)
  \/ Wait(m) \/ SubmitBuy(m) \/ SubmitSell(m)

FinishOrder ==
  \/ Rejected \/ ResponseLost \/ TimesOut
  \/ Acknowledged \/ AcknowledgedEarly
  \/ Record \/ BookkeepingFails

Thread == StartPass \/ (\E m \in Markets : Visit(m)) \/ FinishOrder

Environment ==
  \/ ExchangeFills
  \/ \E m \in Markets : LateBuyFills(m) \/ LateSellFills(m) \/ PriceTurns(m)
  \/ Crash \/ Start \/ NewDay \/ Tick

Next == Thread \/ Environment

Spec == Init /\ [][Next]_vars

\* The thread never blocks for good (requests time out) and the exchange
\* executes or refuses a market order.
FairSpec == Spec /\ WF_vars(Thread) /\ WF_vars(ExchangeFills)
-----------------------------------------------------------------------------
(* Properties                                                              *)

ClockRecords == [trade : Ages, stop : Ages, tp : Ages]

MemoryRecords ==
  [price : SUBSET BuyIds, count : Nat, tpDone : BOOLEAN, slDone : BOOLEAN,
   confirm : 0..Confirmations, clocks : ClockRecords]

\* Open legs end within the remaining amount.
LedgerRecords ==
  {led \in [left : Nat, lots : SUBSET BuyIds, ends : SUBSET Nat,
            tpDone : BOOLEAN, slDone : BOOLEAN, clocks : ClockRecords] :
     \A e \in led.ends : e <= led.left}

OrderRecords ==
  [stage : {"none", "sent", "filled", "acked"}, side : {"buy", "sell"},
   market : Markets, base : Nat, id : BuyIds, qty : Nat,
   reason : Reasons \cup {"entry"}, gross : Int]

BotTyped ==
  /\ up \in BOOLEAN /\ loaded \in BOOLEAN
  /\ at \in 0..MarketCount
  /\ snap \in [Markets -> Nat]
  /\ mem \in [Markets -> MemoryRecords]
  /\ pnl \in Int
  /\ order \in OrderRecords

ExchangeTyped ==
  /\ held \in [Markets -> Nat]
  /\ lots \in [Markets -> SUBSET BuyIds]
  /\ lateBuys \in [Markets -> SUBSET BuyIds]
  /\ lateSells \in [Markets -> Nat]

HistoryTyped ==
  /\ ledger \in [Markets -> LedgerRecords]
  /\ today \in [gross : Int, net : Int]

ObserversTyped ==
  /\ recorded \in [Markets -> [clocks : ClockRecords, parts : SUBSET PartialReasons]]
  /\ missed \in [Markets -> Nat]
  /\ lates \in [Markets -> Nat]
  /\ cut \subseteq Markets /\ misread \subseteq Markets
  /\ bought \in 0..MaxBuys

\* The type invariant: what every variable of the bot, the exchange, the
\* history and the observers ranges over.
TypeOK ==
  /\ BotTyped /\ ExchangeTyped /\ HistoryTyped /\ ObserversTyped
  /\ stale \in BOOLEAN
  /\ falling \in [Markets -> BOOLEAN]
  /\ faults \in Nat

Held(m) == held[m] >= PositionThreshold
Settled(m) == up /\ (order.stage = "none" \/ order.market # m)
Undisturbed(m) == missed[m] = 0 /\ lates[m] = 0
Submits(m, side) ==
  /\ order.stage = "none" /\ order'.stage = "sent"
  /\ order'.side = side /\ order'.market = m

\* The bot never buys into a position: what it holds of a symbol was bought by
\* one order, plus at most one for each order it had stopped waiting for.  The
\* balances are read once per pass (486-496) and orders change them meanwhile.
OneLotPerOrder == \A m \in Markets : Cardinality(lots[m]) <= 1 + lates[m]

\* A sell order asks for no more coins than the account holds, although its
\* amount comes from balances read earlier in the pass.
NoOversell ==
  \A m \in Markets :
    order.stage = "sent" /\ order.side = "sell" /\ order.market = m /\ lates[m] = 0
      => order.qty <= held[m]

\* Replaying the history gives the entry price, the partial-exit flags and the
\* cooldown clocks the running bot has (its entry count, confirmations and trailing
\* mark are not compared).  Left out: symbols with a fill that never
\* reached the history, and those where a sale left coins the recovery does not
\* expect (a take-profit split) or left none it does (run alt_split shows one).
RestartTransparent ==
  \A m \in Markets :
    Settled(m) /\ Undisturbed(m) /\ Held(m) /\ m \notin cut =>
      LET again == RecoveredMemory(ledger[m])
      IN  /\ again.price = mem[m].price
          /\ again.tpDone = mem[m].tpDone
          /\ again.slDone = mem[m].slDone
          /\ again.clocks = mem[m].clocks

\* While every fill reached the history, the entry price of a held position is
\* the price of exactly the buys it consists of, through splits, partial sales
\* and restarts; a restart after a sale that left other than its reason says
\* is excepted.
BasisExact ==
  \A m \in Markets :
    Settled(m) /\ Undisturbed(m) /\ Held(m) /\ m \notin misread => mem[m].price = lots[m]

\* The same without that exception: what docs/IMPROVEMENT_PRIORITIES.md:152 says.
BasisSurvivesRestart ==
  \A m \in Markets :
    Settled(m) /\ Undisturbed(m) /\ Held(m) => mem[m].price = lots[m]

\* No buy before the trade interval, the stop-loss cooldown and the partial
\* take-profit cooldown of the recorded fills are over, restarts included.  An
\* order that executes after the bot stopped waiting is excepted: its sale can be
\* recorded when the replay has no coins left to sell, which resets no clock; so
\* is a restart after a split, for the same reason.
NoEarlyReentry ==
  [][\A m \in Markets :
       Submits(m, "buy") /\ Undisturbed(m) /\ m \notin misread =>
         /\ recorded[m].clocks.trade >= TradeInterval
         /\ recorded[m].clocks.stop >= StopCooldown
         /\ recorded[m].clocks.tp >= TpCooldown]_vars

\* No buy once the recorded results of the day reach the loss limit, restarts
\* included; the rest of a pass begun before midnight is excepted, because the
\* date is only looked at between passes (423-437).
DailyLossLimit ==
  [][\A m \in Markets :
       Submits(m, "buy") /\ ~stale /\ (\A n \in Markets : missed[n] = 0)
         => today.gross > -MaxDailyLoss]_vars

\* A position is sold partially at most once for profit and once for loss, also
\* when the bot restarts in between, and whatever splits and remainders do to
\* what the restart recovers.
PartialExitOnce ==
  [][\A m \in Markets :
       Submits(m, "sell") /\ Undisturbed(m) => order'.reason \notin recorded[m].parts]_vars

\* A position whose price stays below its stop level is sold, also when the share
\* of the partial stop loss is below the minimum order, unless the bot stops, a
\* fill of the symbol never reached its history, or a restart after a split left
\* it without an entry price (it is then left alone, run alt_split).
StopLossExecutes ==
  \A m \in Markets :
    (up /\ falling[m] /\ Held(m))
      ~> (~up \/ ~falling[m] \/ ~Held(m) \/ ~Undisturbed(m) \/ m \in misread)
=============================================================================
