----------------------------- MODULE UpbitAltBot -----------------------------
(***************************************************************************)
(* The Upbit alt bot (upbit_ma_crossover_bot.run_bot) with one symbol.  It *)
(* shares the entry timing, the fill handlers and the recovery with the    *)
(* OKX bot, and differs where Upbit does: a position is one by its value   *)
(* in KRW, so a falling price takes it out of the bot's sight; the minimum *)
(* order is a value at the bid; the balance comes from the snapshot of the *)
(* stream process; a call that times out is sent again; and the trailing   *)
(* exit of a profit is armed in memory and recovered from the last sale.   *)
(***************************************************************************)
EXTENDS StateRecovery

CONSTANTS
  MinValue,       \* min_buy_order_value, in the unit of prices
  Prices,         \* prices of a unit; at the lowest the stop loss is reached
  Spread,         \* how far the best bid may be below the last price
  BuyAmount,      \* the amount a buy is estimated to bring, recorded as such
  BuyFills,       \* what it can really bring
  FactSets,       \* the sets of triggers and trailing facts a visit can see
  GrossPnLs,      \* gross results a sale can have
  Fee,            \* what the net result takes off the gross one
  MaxDailyLoss,   \* max_daily_loss_quote
  MaxEntryCount,  \* max_entry_count
  Faults,         \* the kinds of fault that may happen
  MaxBuys,        \* bound: buy orders in a behaviour
  MaxFaults,      \* bound: faults in a behaviour
  MaxMoves,       \* bound: price moves in a behaviour
  MaxLoss         \* bound: |daily results|

FaultKinds == {"crash", "reject", "lost", "book", "stream"}
Trailing == "alt_profit_trailing_exit"
Low == CHOOSE p \in Prices : \A q \in Prices : p <= q

\* What a visit sees of the market: the triggers that hold, and whether the net
\* profit is enough to arm the trailing exit or has retraced enough to fire it.
Possible(F) ==
  /\ F \subseteq (Triggers \ {Trailing}) \cup {"arms", "retraces"}
  /\ Compatible(F \cap Triggers)

ASSUME UpbitAltAssumption ==
  /\ MinOrder = 0
  /\ MinValue \in Nat \ {0}
  /\ Prices \subseteq Nat \ {0} /\ Prices # {}
  /\ Spread \in Nat /\ Spread < Low
  /\ BuyAmount \in Nat \ {0} /\ BuyFills \subseteq 1..BuyAmount
  /\ \A F \in FactSets : Possible(F)
  /\ GrossPnLs \subseteq Int /\ Fee \in Nat /\ MaxDailyLoss \in Nat
  /\ MaxEntryCount \in Nat \ {0}
  /\ Faults \subseteq FaultKinds
  /\ {MaxBuys, MaxFaults, MaxMoves, MaxLoss} \subseteq Nat

BuyIds == 0..MaxBuys - 1

VARIABLES
  up,            \* is the process running?
  mem,           \* what the bot remembers of the symbol
  armed,         \* alt_profit_trailing_armed
  pnl,           \* daily_realized_pnl_quote
  order,         \* the order in progress
  held,          \* the exchange: the amount really held
  lots,          \* the exchange: the buys the holding consists of
  price,         \* the last price of a unit
  streaming,     \* does the stream process receive asset changes?
  coming,        \* an asset change on its way to the snapshot
  view,          \* the amount in the snapshot, Unknown without one
  ledger,        \* the trade history, replayed
  armedOnRecord, \* the trade history: trailing_armed of the replay
  today,         \* the trade history's results of the current date
  stale,         \* did the date change since the bot last looked?
  fills,         \* observer: ages of the last executed orders
  parts,         \* observer: partial sales of the current position
  missed,        \* observer: fills and balances the bot or its history lost
  blinded,       \* observer: holdings too small to be seen and forgotten
  cut,           \* observer: has a sale left something else than its reason says?
  misread,       \* observer: was the memory made or dropped wrongly because of it?
  bought,        \* buy orders so far
  faults,        \* faults so far
  moves          \* price moves so far

bot == <<up, mem, armed, pnl, order>>
exchange == <<held, lots>>
stream == <<streaming, coming, view>>
history == <<ledger, armedOnRecord, today>>
readings == <<cut, misread>>
observers == <<fills, parts, missed, blinded, readings>>
bounds == <<bought, faults, moves>>
vars == <<bot, exchange, price, stream, history, stale, observers, bounds>>

Unknown == -1
NoOrder == [stage |-> "none", side |-> "buy", holding |-> FALSE, base |-> 0, id |-> 0, qty |-> 0,
            reason |-> "entry", gross |-> 0]

Init ==
  /\ up = TRUE /\ mem = BlankMemory /\ armed = FALSE /\ pnl = 0 /\ order = NoOrder
  /\ held = 0 /\ lots = {}
  /\ price \in Prices
  /\ streaming = TRUE /\ coming = FALSE /\ view = Unknown
  /\ ledger = EmptyLedger /\ armedOnRecord = FALSE
  /\ today = [gross |-> 0, net |-> 0] /\ stale = FALSE
  /\ fills = NoClocks /\ parts = 0 /\ missed = 0 /\ blinded = 0
  /\ cut = FALSE /\ misread = FALSE
  /\ bought = 0 /\ faults = 0 /\ moves = 0

Fault(kind) == kind \in Faults /\ faults < MaxFaults /\ faults' = faults + 1

-----------------------------------------------------------------------------
(* A visit                                                                 *)

\* Without a snapshot the exchange is asked.
BaseFree == IF view = Unknown THEN held ELSE view

IsPosition(qty) == qty * price >= MinValue
HasPosition == IsPosition(BaseFree)

\* handle_unrecoverable_position: coins without an entry price are left alone.
Unrecoverable == HasPosition /\ mem.price = {}

\* The loop sleeps between two visits; a snapshot follows an asset change
\* sooner, if it follows at all.
Visiting == up /\ order.stage = "none" /\ ~coming /\ ~Unrecoverable

\* A holding below the minimum value is no position and its state is dropped,
\* then the entry timing advances.
Visited(candidate) ==
  UpdateEntryTiming(IF HasPosition THEN mem ELSE ClearPosition(mem),
                    HasPosition, candidate)

LosesSight == held > 0 /\ ~HasPosition /\ mem # ClearPosition(mem)

\* resolve_alt_profit_trailing_exit: a stop loss disarms it, as does a symbol
\* without a position.
TrailingArmed(F) ==
  HasPosition /\ "stop_loss" \notin F /\ (armed \/ "arms" \in F)

Fired(F) ==
  (F \cap Triggers) \cup
  (IF TrailingArmed(F) /\ "retraces" \in F THEN {Trailing} ELSE {})

\* Every trigger compares the price with the entry price of a position.
Seen ==
  IF HasPosition THEN {F \in FactSets : price = Low => "stop_loss" \in F} ELSE {{}}

\* A candidate for an entry only counts without a position.
Candidates == IF HasPosition THEN {FALSE} ELSE BOOLEAN

\* The date is looked at before the symbols are visited.
DailyResult == IF stale THEN today.net ELSE pnl

Look(F, candidate) ==
  /\ mem' = Visited(candidate)
  /\ armed' = TrailingArmed(F)
  /\ pnl' = DailyResult /\ stale' = FALSE
  /\ blinded' = blinded + (IF LosesSight THEN 1 ELSE 0)

\* The stages of the entry funnel that depend on the bot's state
EntryReady(visited) ==
  /\ EntryTimingReady(visited)
  /\ ~EntryCooldownActive(visited)
  /\ visited.count < MaxEntryCount
  /\ DailyResult > -MaxDailyLoss

Bids == {price, price - Spread}

Orderable(qty, bid) == qty > 0 /\ qty * bid > MinValue

\* The share the exit funnel expects to be sold.  Unlike the OKX bot, this one
\* does not take a trailing exit for a full one.
ExpectedShare(T) ==
  IF T \cap (Protective \ {Trailing}) # {} THEN 100 ELSE SplitPct

ExitPassed(T, bid) ==
  /\ HasPosition /\ T # {}
  /\ T \cap Protective # {} \/ ~InCooldown(mem)
  /\ Orderable(Share(BaseFree, ExpectedShare(T)), bid)

\* resolve_alt_sell_order_by_min_value: a share not worth an order becomes a
\* sale of everything.
SellPlan(T, bid) ==
  LET intent == SellIntent(T, mem.tpDone, mem.slDone)
      amount == Share(BaseFree, intent.pct)
      full   == ToPrecision(BaseFree)
  IN  IF amount > 0 /\ ~Orderable(amount, bid) /\ Orderable(full, bid)
      THEN [qty |-> full, reason |-> PromotePartialExitReason(intent.reason)]
      ELSE [qty |-> amount, reason |-> intent.reason]

WantsSell(T, bid) == ExitPassed(T, bid) /\ Orderable(SellPlan(T, bid).qty, bid)

\* Neither a buy nor a sale comes of the visit.
Wait ==
  /\ Visiting
  /\ UNCHANGED <<up, order, exchange, price, stream, history, fills, parts,
                 missed, readings, bounds>>
  /\ \E F \in {F \in Seen : \E bid \in Bids : ~WantsSell(Fired(F), bid)},
        candidate \in Candidates : Look(F, candidate)

SubmitBuy ==
  /\ Visiting /\ price # Low
  /\ bought < MaxBuys /\ bought' = bought + 1
  /\ \E F \in Seen : Look(F, TRUE) /\ EntryReady(Visited(TRUE))
  /\ order' = [NoOrder EXCEPT !.stage = "sent", !.holding = HasPosition,
                                !.base = BaseFree, !.id = bought]
  /\ UNCHANGED <<up, exchange, price, stream, history, fills, parts, missed,
                 readings, faults, moves>>

\* elif exit_ready: some stage of the entry funnel refused.
SubmitSell ==
  /\ Visiting
  /\ UNCHANGED <<up, exchange, price, stream, history, fills, parts, missed,
                 readings, bounds>>
  /\ \E F \in Seen, bid \in Bids :
       /\ Look(F, FALSE) /\ WantsSell(Fired(F), bid)
       /\ order' = [NoOrder EXCEPT
                      !.stage = "sent", !.side = "sell", !.holding = HasPosition,
                      !.base = BaseFree,
                      !.qty = SellPlan(Fired(F), bid).qty,
                      !.reason = SellPlan(Fired(F), bid).reason]

-----------------------------------------------------------------------------
(* The exchange and the stream process                                     *)

Covered == order.qty <= held

\* A partial sale is to leave more than what counts as cleared, any other sale
\* nothing: that is what the recovery takes it for.
LeavesAsTold(o, rest) ==
  IF o.reason \in PartialReasons THEN rest > ClearThreshold ELSE rest = 0

\* The asset change a fill causes reaches the snapshot or, without a stream,
\* leaves an existing snapshot behind the truth.
Report ==
  /\ coming' = streaming
  /\ missed' = missed + (IF ~streaming /\ view # Unknown THEN 1 ELSE 0)

PartlySold(o) == o.reason \in PartialReasons /\ ~Cleared(o.base, o.qty)

ExecuteBuy ==
  /\ \E q \in BuyFills : held' = held + q
  /\ lots' = lots \cup {order.id}
  /\ fills' = TradeClocks(fills)
  /\ parts' = 0
  /\ UNCHANGED readings

ExecuteSell ==
  /\ Covered
  /\ held' = held - order.qty
  /\ lots' = IF held' = 0 THEN {} ELSE lots
  /\ fills' = SellClocks(fills, order.reason,
                         PartlySold(order) /\ order.reason = "partial_take_profit")
  /\ parts' = IF held' = 0 THEN 0 ELSE IF PartlySold(order) THEN parts + 1 ELSE parts
  /\ cut' = (cut \/ ~LeavesAsTold(order, held'))
  /\ misread' = (misread \/ (held' > 0 /\ Cleared(order.base, order.qty)))

ExchangeFills ==
  /\ order.stage = "sent"
  /\ IF order.side = "buy" THEN ExecuteBuy ELSE ExecuteSell
  /\ order' = [order EXCEPT !.stage = "filled"]
  /\ Report
  /\ UNCHANGED <<up, mem, armed, pnl, price, streaming, view, history, stale,
                 blinded, bounds>>

\* The stream process writes the balance it was told.
StreamDelivers ==
  /\ coming /\ coming' = FALSE
  /\ view' = held
  /\ UNCHANGED <<bot, exchange, price, streaming, history, stale, observers, bounds>>

\* The process or its connection is gone; the snapshot stays.
StreamStops ==
  /\ streaming /\ Fault("stream")
  /\ streaming' = FALSE /\ coming' = FALSE
  /\ missed' = missed + (IF coming THEN 1 ELSE 0)
  /\ UNCHANGED <<bot, exchange, price, view, history, stale, fills, parts,
                 blinded, readings, bought, moves>>

\* Changes that happened meanwhile are not reported again.
StreamReturns ==
  /\ ~streaming /\ streaming' = TRUE
  /\ UNCHANGED <<bot, exchange, price, coming, view, history, stale, observers,
                 bounds>>

-----------------------------------------------------------------------------
(* The bot's side of an order                                              *)

Rejected ==
  /\ order.stage = "sent" /\ order' = NoOrder
  /\ \/ Fault("reject")
     \/ order.side = "sell" /\ ~Covered /\ UNCHANGED faults
  /\ UNCHANGED <<up, mem, armed, pnl, exchange, price, stream, history, stale,
                 observers, bought, moves>>

\* The order is executed and its response is lost: the call is sent again, as
\* any call that times out, or the last attempt raises.
ResponseLost ==
  /\ order.stage = "filled" /\ Fault("lost")
  /\ order' = [order EXCEPT !.stage = "sent"] \/ order' = NoOrder
  /\ missed' = missed + 1
  /\ UNCHANGED <<up, mem, armed, pnl, exchange, price, stream, history, stale,
                 fills, parts, blinded, readings, bought, moves>>

Gross == IF order.side = "buy" THEN {0}
         ELSE {g \in GrossPnLs : pnl + g \in -MaxLoss..MaxLoss}

\* The fill handlers run on the response, from the balance of the decision.
Acknowledged ==
  /\ order.stage = "filled"
  /\ \E gross \in Gross :
       /\ order' = [order EXCEPT !.stage = "acked", !.gross = gross]
       /\ pnl' = pnl + gross
  /\ mem' = IF order.side = "buy" THEN ApplyBuyFill(mem, order.id, order.holding)
            ELSE ApplySellFill(mem, order.base, order.qty, order.reason)
  /\ armed' = (armed /\ (order.side = "sell" \/ order.holding))
  /\ UNCHANGED <<up, exchange, price, stream, history, stale, observers, bounds>>

SellRecord(o) ==
  [qty |-> o.qty, reason |-> o.reason, countAfter |-> mem.count,
   remainingAfter |-> Remaining(o.base, o.qty)]

\* The trailing_armed the replay ends up with
ReplayedArm(next, flag) == next.left > 0 /\ flag

\* trade_history.log_fill; a position that is gone is forgotten afterwards.
Record ==
  /\ order.stage = "acked" /\ order' = NoOrder
  /\ IF order.side = "buy"
     THEN /\ ledger' = ReplayBuy(ledger, order.id, BuyAmount)
          /\ armedOnRecord' = (ledger.left > 0 /\ armedOnRecord)
          /\ UNCHANGED <<mem, armed, today, faults>>
     ELSE /\ ledger' = ReplaySell(ledger, SellRecord(order))
          /\ armedOnRecord' = ReplayedArm(ledger', armed)
          /\ today' = [gross |-> today.gross + order.gross,
                       net |-> today.net + order.gross - Fee]
          /\ \/ /\ UNCHANGED faults
                /\ IF Cleared(order.base, order.qty)
                   THEN mem' = ClearPosition(mem) /\ armed' = FALSE
                   ELSE UNCHANGED <<mem, armed>>
             \/ UNCHANGED <<mem, armed>> /\ Fault("book")  \* after the line is written
  /\ UNCHANGED <<up, pnl, exchange, price, stream, stale, observers, bought, moves>>

\* A logger or the history file raises between the response and the record.
BookkeepingFails ==
  /\ order.stage = "acked" /\ Fault("book") /\ order' = NoOrder
  /\ missed' = missed + 1
  /\ UNCHANGED <<up, mem, armed, pnl, exchange, price, stream, history, stale,
                 fills, parts, blinded, readings, bought, moves>>

-----------------------------------------------------------------------------
(* Crashes, restarts, time and prices                                      *)

Crash ==
  /\ up /\ Fault("crash")
  /\ up' = FALSE /\ mem' = BlankMemory /\ armed' = FALSE /\ pnl' = 0
  /\ order' = NoOrder
  /\ missed' = missed + (IF order.stage \in {"filled", "acked"} THEN 1 ELSE 0)
  /\ UNCHANGED <<exchange, price, stream, history, stale, fills, parts, blinded,
                 readings, bought, moves>>

\* Variant: today's result is not recovered.
StartFromZero ==
  /\ ~up /\ up' = TRUE
  /\ mem' = RecoveredMemory(ledger) /\ armed' = armedOnRecord
  /\ pnl' = 0 /\ stale' = FALSE
  /\ misread' = (misread \/ cut)
  /\ UNCHANGED <<order, exchange, price, stream, history, fills, parts, missed,
                 blinded, cut, bounds>>

\* run_bot starts: position and today's result come from the trade history.
Start ==
  /\ ~up /\ up' = TRUE
  /\ mem' = RecoveredMemory(ledger) /\ armed' = armedOnRecord
  /\ pnl' = today.net /\ stale' = FALSE
  /\ misread' = (misread \/ cut)
  /\ UNCHANGED <<order, exchange, price, stream, history, fills, parts, missed,
                 blinded, cut, bounds>>

NewDay ==
  /\ today # [gross |-> 0, net |-> 0]
  /\ today' = [gross |-> 0, net |-> 0] /\ stale' = TRUE
  /\ UNCHANGED <<bot, exchange, price, stream, ledger, armedOnRecord, observers,
                 bounds>>

\* Cooldowns are minutes, an order in progress takes seconds.
Tick ==
  /\ order.stage = "none"
  /\ mem' = IF up THEN [mem EXCEPT !.clocks = OlderClocks(@)] ELSE mem
  /\ ledger' = [ledger EXCEPT !.clocks = OlderClocks(@)]
  /\ fills' = OlderClocks(fills)
  /\ UNCHANGED <<up, armed, pnl, order, exchange, price, stream, armedOnRecord,
                 today, stale, parts, missed, blinded, readings, bounds>>

\* Only visits look at the price: a move during an order is one after it.
PriceMoves ==
  /\ order.stage = "none"
  /\ moves < MaxMoves /\ moves' = moves + 1
  /\ \E p \in Prices \ {price} : price' = p
  /\ UNCHANGED <<bot, exchange, stream, history, stale, observers, bought, faults>>

-----------------------------------------------------------------------------
Thread ==
  \/ Wait \/ SubmitBuy \/ SubmitSell
  \/ Rejected \/ ResponseLost \/ Acknowledged \/ Record \/ BookkeepingFails

Environment ==
  \/ ExchangeFills \/ StreamDelivers \/ StreamStops \/ StreamReturns
  \/ Crash \/ Start \/ NewDay \/ Tick \/ PriceMoves

Next == Thread \/ Environment

Spec == Init /\ [][Next]_vars
-----------------------------------------------------------------------------
(* Properties                                                              *)

Settled == up /\ order.stage = "none"
Submits(side) ==
  order.stage = "none" /\ order'.stage = "sent" /\ order'.side = side

\* While no fill was lost and the holding was never too small to be seen, the
\* entry price of a position averages exactly the buys it consists of, through
\* splits, partial sales and restarts; a restart after a sale that left something
\* else than its reason says is excepted.
BasisExact ==
  Settled /\ missed = 0 /\ blinded = 0 /\ ~misread /\ IsPosition(held)
    => mem.price = lots

\* What the bot forgets when a holding becomes too small to be seen is not
\* lost: the history still knows the entry price of all that is held, whether
\* the position comes back with the price or a new buy is added to the rest.  It
\* takes a sale that left something else than its reason says to end that.
HistoryKnows ==
  Settled /\ missed = 0 /\ ~cut /\ held > 0 => RecoveredMemory(ledger).price = lots

\* No buy before the cooldowns of the executed orders are over, restarts and
\* holdings lost from sight included (but for a restart after a sale that left
\* something else than its reason says), and none once the results of the current
\* date reach the loss limit, however the date change falls between a visit, its
\* order and the record of it.
BuysAllowed ==
  [][Submits("buy") /\ missed = 0 =>
       /\ ~misread => /\ fills.trade >= TradeInterval
                      /\ fills.stop >= StopCooldown
                      /\ fills.tp >= TpCooldown
       /\ today.gross > -MaxDailyLoss]_vars

\* The account's position follows the abstract promise of a spot bot: it buys
\* into nothing that is open, and sells partially at most twice, however many
\* splits of a take profit come between and whatever a restart recovers of them.
\* Each lost fill and each holding lost from sight raises the number of partial
\* sales by two; once the bot lost something, a buy may meet an open position and
\* starts the count again.
Promise ==
  INSTANCE SpotPosition WITH
    MaxAddOns <- 0, MaxParts <- 2,
    open <- held > 0, adds <- 0, halved <- parts,
    slips <- missed + blinded + (IF misread THEN 1 ELSE 0)
KeepsPromise == Promise!Spec

=============================================================================
