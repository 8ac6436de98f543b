------------------------------- MODULE BtcBot -------------------------------
(***************************************************************************)
(* The BTC bots (okx_btc_ema_trend_bot.run_bot and                         *)
(* upbit_btc_ema_trend_bot.run_bot): one thread that looks at one symbol,  *)
(* and enters, adds to, halves or closes its position.  The two differ in  *)
(* what counts as a position (an amount on OKX, a value on Upbit) and in   *)
(* where a pass reads its balance: OKX is asked, Upbit's balance comes     *)
(* from the snapshot another process writes when the exchange reports an   *)
(* asset change, and only without one from the exchange.                   *)
(***************************************************************************)
EXTENDS BtcLifecycle

CONSTANTS
  Venues,         \* the exchanges the bot may run on: a subset of {"okx", "upbit"}
  MinAmount,      \* OKX's min_order_amount, in units
  MinValue,       \* min_buy_order_value, in units at price 1
  Prices,         \* prices of a unit; at the lowest a stop price is reached
  BuyAmount,      \* the amount a buy is estimated to bring
  BuyFills,       \* what it can really bring
  FactSets,       \* the sets of facts a pass can see
  GrossPnLs,      \* gross results a sale can have
  Fee,            \* what the net result takes off the gross one
  MaxDailyLoss,   \* max_daily_loss_quote
  Faults,         \* the kinds of fault that may happen
  MaxBuys,        \* bound: buy orders in a behaviour
  MaxFaults,      \* bound: faults in a behaviour
  MaxMoves,       \* bound: price moves in a behaviour
  MaxLoss         \* bound: |daily results|

FaultKinds == {"crash", "restart", "reject", "lost", "book", "stream"}
Low == CHOOSE p \in Prices : \A q \in Prices : p <= q

ASSUME BtcBotAssumption ==
  /\ Venues \subseteq {"okx", "upbit"} /\ Venues # {}
  /\ MinAmount \in Nat \ {0} /\ MinValue \in Nat
  /\ "upbit" \in Venues => MinValue > 0
  /\ Prices \subseteq Nat \ {0} /\ Prices # {}
  /\ BuyAmount \in Nat \ {0} /\ BuyFills \subseteq 1..BuyAmount
  /\ \A F \in FactSets : Possible(F)
  /\ GrossPnLs \subseteq Int /\ Fee \in Nat /\ MaxDailyLoss \in Nat
  /\ Faults \subseteq FaultKinds
  /\ {MaxBuys, MaxFaults, MaxMoves, MaxLoss} \subseteq Nat

BuyIds == 0..MaxBuys - 1

VARIABLES
  venue,      \* the exchange
  up,         \* is the process running?
  mem,        \* what the bot remembers of its position
  pnl,        \* daily_realized_pnl_quote
  order,      \* the order in progress
  held,       \* the exchange: the amount really held
  lots,       \* the exchange: the buys the holding consists of
  price,      \* the price of a unit
  streaming,  \* Upbit: does the stream process receive asset changes?
  coming,     \* Upbit: an asset change on its way to the snapshot
  view,       \* Upbit: the amount in the snapshot, Unknown without one
  ledger,     \* the trade history, replayed
  today,      \* the trade history's results of the current date
  stale,      \* did the date change since the bot last looked?
  fills,      \* observer: ages of the last executed orders
  life,       \* observer: add-ons and partial sales of the current position
  missed,     \* observer: fills, balances and positions the bot or its history lost
  unrecorded, \* observer: add-ons the bot knows of but did not record
  bought,     \* buy orders so far
  faults,     \* faults so far
  moves       \* price moves so far

bot == <<up, mem, pnl, order>>
exchange == <<held, lots>>
stream == <<streaming, coming, view>>
history == <<ledger, today>>
observers == <<fills, life, missed, unrecorded>>
vars == <<venue, bot, exchange, price, stream, history, stale, observers,
          bought, faults, moves>>

Unknown == -1
NoOrder == [stage |-> "none", kind |-> "entry", base |-> 0, id |-> 0, qty |-> 0,
            reason |-> "entry", partly |-> FALSE, gross |-> 0]
NewLife == [adds |-> 0, parts |-> 0]

Init ==
  /\ venue \in Venues
  /\ up = TRUE /\ mem = BlankMemory /\ pnl = 0 /\ order = NoOrder
  /\ held = 0 /\ lots = {}
  /\ price \in Prices
  /\ streaming = (venue = "upbit") /\ coming = FALSE /\ view = Unknown
  /\ ledger = EmptyLedger /\ today = [gross |-> 0, net |-> 0] /\ stale = FALSE
  /\ fills = NoClocks /\ life = NewLife
  /\ missed = 0 /\ unrecorded = 0
  /\ bought = 0 /\ faults = 0 /\ moves = 0

Fault(kind) == kind \in Faults /\ faults < MaxFaults /\ faults' = faults + 1

-----------------------------------------------------------------------------
(* A pass                                                                  *)

BaseFree == IF view = Unknown THEN held ELSE view

IsPosition(qty) == IF venue = "okx" THEN qty >= MinAmount ELSE qty * price >= MinValue
TooSmall(qty) == IF venue = "okx" THEN qty < MinAmount ELSE qty * price <= MinValue
Sellable(qty) == ~TooSmall(qty) /\ qty * price > MinValue

HasPosition == IsPosition(BaseFree)

\* handle_unrecoverable_position: without an entry price the pass ends here.
Unrecoverable == HasPosition /\ mem.price = {}

\* The loop sleeps 20 seconds between two passes that may trade; a snapshot
\* follows an asset change sooner, if it follows at all.
Passing == up /\ order.stage = "none" /\ ~coming /\ ~Unrecoverable

\* What a pass remembers before it decides about orders
Looked(F, candidate) ==
  UpdateTiming(Evaluate(mem, HasPosition, F), HasPosition, candidate)

Seen == {F \in FactSets : price = Low => "stop" \in F}

\* The date is looked at when a pass begins.
DailyResult == IF stale THEN today.net ELSE pnl

\* A position too small to be seen loses its add-ons and its flags.
LosesSight ==
  /\ held > 0 /\ ~HasPosition
  /\ missed = 0 \/ mem.tpDone \/ mem.armed \/ mem.adds > 0

Look(F, candidate) ==
  /\ mem' = Looked(F, candidate)
  /\ pnl' = DailyResult /\ stale' = FALSE
  /\ missed' = missed + (IF LosesSight THEN 1 ELSE 0)

MayBuy(seen) == ~InCooldown(seen) /\ DailyResult > -MaxDailyLoss /\ bought < MaxBuys

EntryReady(seen) ==
  /\ ~HasPosition /\ price # Low
  /\ seen.confirm = Confirmations
  /\ MayBuy(seen)

\* The add-on funnel: a profit rules the stop out; the regime may lower the
\* number of add-ons, which is part of the choice.
AddOnReady(seen, F) ==
  /\ HasPosition /\ "stop" \notin F
  /\ seen.adds < MaxAddOns
  /\ ~seen.armed
  /\ MayBuy(seen)

ExitReady(seen, F) ==
  /\ HasPosition /\ ExitReasons(seen, F) # {}
  /\ Sellable(BaseFree)

Submit(o) ==
  /\ order' = [o EXCEPT !.stage = "sent", !.base = BaseFree]
  /\ UNCHANGED <<venue, up, exchange, price, stream, history, fills, life,
                 unrecorded, faults, moves>>

SubmitEntry ==
  /\ Passing
  /\ \E F \in Seen : Look(F, TRUE) /\ EntryReady(Looked(F, TRUE))
  /\ bought' = bought + 1
  /\ Submit([NoOrder EXCEPT !.kind = "entry", !.id = bought])

SubmitAddOn ==
  /\ Passing
  /\ \E F \in Seen : Look(F, FALSE) /\ AddOnReady(Looked(F, FALSE), F)
  /\ bought' = bought + 1
  /\ Submit([NoOrder EXCEPT !.kind = "add_on", !.id = bought])

\* A partial sale is a full one if either part would be too small.
Part == BaseFree \div 2
Halves == ~TooSmall(Part) /\ ~TooSmall(BaseFree - Part)

SellOrder(seen, F) ==
  LET partial == PartialTriggered(mem, F) /\ Halves
  IN  [NoOrder EXCEPT !.kind = "sell",
                      !.reason = SellReason(ExitReasons(seen, F)),
                      !.partly = partial,
                      !.qty = IF partial THEN Part ELSE BaseFree]

\* elif exit_ready: some stage of the two buy funnels refused.
SubmitSell ==
  /\ Passing
  /\ \E F \in Seen :
       /\ Look(F, FALSE) /\ ExitReady(Looked(F, FALSE), F)
       /\ Submit(SellOrder(Looked(F, FALSE), F))
  /\ UNCHANGED bought

\* Neither a buy nor a sale comes of the pass.
Wait ==
  /\ Passing
  /\ \E F \in Seen, candidate \in BOOLEAN :
       Look(F, candidate) /\ ~ExitReady(Looked(F, candidate), F)
  /\ UNCHANGED <<venue, up, order, exchange, price, stream, history, fills,
                 life, unrecorded, bought, faults, moves>>

-----------------------------------------------------------------------------
(* The exchange                                                            *)

Covered == order.qty <= held

\* The asset change a fill causes reaches the snapshot or, without a stream,
\* leaves an existing snapshot behind the truth.
Report ==
  /\ coming' = streaming
  /\ missed' = missed + (IF ~streaming /\ view # Unknown THEN 1 ELSE 0)

ExecuteBuy ==
  /\ \E q \in BuyFills : held' = held + q
  /\ lots' = lots \cup {order.id}
  /\ fills' = TradeClocks(fills)
  /\ life' = IF order.kind = "entry" THEN NewLife ELSE [life EXCEPT !.adds = @ + 1]

ExecuteSell ==
  /\ Covered
  /\ held' = held - order.qty
  /\ lots' = IF held' = 0 THEN {} ELSE lots
  /\ fills' = SaleClocks(fills, order.reason, ProfitReasons)
  /\ life' = IF order.partly /\ held' > 0 THEN [life EXCEPT !.parts = @ + 1] ELSE NewLife

ExchangeFills ==
  /\ order.stage = "sent"
  /\ IF order.kind = "sell" THEN ExecuteSell ELSE ExecuteBuy
  /\ order' = [order EXCEPT !.stage = "filled"]
  /\ Report
  /\ UNCHANGED <<venue, up, mem, pnl, price, streaming, view, history, stale,
                 unrecorded, bought, faults, moves>>

\* Upbit's stream process writes the balance it was told.
StreamDelivers ==
  /\ coming /\ coming' = FALSE
  /\ view' = held
  /\ UNCHANGED <<venue, bot, exchange, price, streaming, history, stale,
                 observers, bought, faults, moves>>

\* The process or its connection is gone; the snapshot stays.
StreamStops ==
  /\ streaming /\ Fault("stream")
  /\ streaming' = FALSE /\ coming' = FALSE
  /\ missed' = missed + (IF coming THEN 1 ELSE 0)
  /\ UNCHANGED <<venue, bot, exchange, price, view, history, stale, fills,
                 life, unrecorded, bought, moves>>

\* Changes that happened meanwhile are not reported again.
StreamReturns ==
  /\ venue = "upbit" /\ ~streaming
  /\ streaming' = TRUE
  /\ UNCHANGED <<venue, bot, exchange, price, coming, view, history, stale,
                 observers, bought, faults, moves>>

-----------------------------------------------------------------------------
(* The bot's side of an order                                              *)

\* The request raises: the pass ends.
Rejected ==
  /\ order.stage = "sent" /\ order' = NoOrder
  /\ \/ Fault("reject")
     \/ order.kind = "sell" /\ ~Covered /\ UNCHANGED faults
  /\ UNCHANGED <<venue, up, mem, pnl, exchange, price, stream, history, stale,
                 observers, bought, moves>>

\* The order is executed and its response is lost: the call raises or, on Upbit,
\* is sent again as any call that times out.
ResponseLost ==
  /\ order.stage = "filled" /\ Fault("lost")
  /\ \/ order' = NoOrder
     \/ venue = "upbit" /\ order' = [order EXCEPT !.stage = "sent"]
  /\ missed' = missed + 1
  /\ UNCHANGED <<venue, up, mem, pnl, exchange, price, stream, history, stale,
                 fills, life, unrecorded, bought, moves>>

Gross == IF order.kind # "sell" THEN {0}
         ELSE {g \in GrossPnLs : pnl + g \in -MaxLoss..MaxLoss}

Remembered ==
  CASE order.kind = "entry" -> ApplyEntry(mem, order.id)
    [] order.kind = "add_on" -> ApplyAddOn(mem, order.id)
    [] order.kind = "sell" -> ApplySale(mem, order.reason, order.partly)

Acknowledged ==
  /\ order.stage = "filled"
  /\ \E gross \in Gross :
       /\ order' = [order EXCEPT !.stage = "acked", !.gross = gross]
       /\ pnl' = pnl + gross
  /\ mem' = Remembered
  /\ UNCHANGED <<venue, up, exchange, price, stream, history, stale, observers,
                 bought, faults, moves>>

\* A sale is final unless it is a partial one; the memory of the position goes
\* after the record is written.
Record ==
  /\ order.stage = "acked" /\ order.kind # "add_on"
  /\ order' = NoOrder
  /\ IF order.kind = "entry"
     THEN /\ ledger' = ReplayBuy(ledger, order.id, BuyAmount)
          /\ UNCHANGED <<mem, today, faults>>
     ELSE /\ ledger' = ReplaySale(ledger,
                         [qty |-> order.qty, reason |-> order.reason,
                          armed |-> mem.armed, final |-> ~order.partly])
          /\ today' = [gross |-> today.gross + order.gross,
                       net |-> today.net + order.gross - Fee]
          /\ \/ /\ mem' = IF order.partly THEN mem ELSE ClearPosition(mem)
                /\ UNCHANGED faults
             \/ mem' = mem /\ Fault("book")  \* raised after the line is written
  /\ UNCHANGED <<venue, up, pnl, exchange, price, stream, stale, observers,
                 bought, moves>>

\* The record of an add-on names previous_entry_price, which nothing defines:
\* the exception handler ends the pass.
AddOnNotRecorded ==
  /\ order.stage = "acked" /\ order.kind = "add_on"
  /\ order' = NoOrder
  /\ unrecorded' = unrecorded + 1
  /\ UNCHANGED <<venue, up, mem, pnl, exchange, price, stream, history, stale,
                 fills, life, missed, bought, faults, moves>>

\* A logger raises between the response and the record.
BookkeepingFails ==
  /\ order.stage = "acked" /\ Fault("book") /\ order' = NoOrder
  /\ missed' = missed + 1
  /\ UNCHANGED <<venue, up, mem, pnl, exchange, price, stream, history, stale,
                 fills, life, unrecorded, bought, moves>>

-----------------------------------------------------------------------------
(* Crashes, restarts, time and prices                                      *)

\* An order on its way may have been executed or may never arrive; an operator
\* restarts the bot between two orders.
Crash ==
  /\ up
  /\ Fault("crash") \/ (Fault("restart") /\ order.stage = "none")
  /\ up' = FALSE /\ mem' = BlankMemory /\ pnl' = 0 /\ order' = NoOrder
  /\ missed' = missed + (IF order.stage \in {"filled", "acked"} THEN 1 ELSE 0)
  /\ UNCHANGED <<venue, exchange, price, stream, history, stale, fills, life,
                 unrecorded, bought, moves>>

\* run_bot starts: position and today's result come from the trade history, so
\* what was not recorded is lost now.
Start ==
  /\ ~up /\ up' = TRUE
  /\ mem' = RecoveredMemory(ledger)
  /\ pnl' = today.net /\ stale' = FALSE
  /\ missed' = missed + unrecorded /\ unrecorded' = 0
  /\ UNCHANGED <<venue, order, exchange, price, stream, history, fills, life,
                 bought, faults, moves>>

NewDay ==
  /\ today # [gross |-> 0, net |-> 0]
  /\ today' = [gross |-> 0, net |-> 0] /\ stale' = TRUE
  /\ UNCHANGED <<venue, bot, exchange, price, stream, ledger, observers,
                 bought, faults, moves>>

\* Cooldowns are minutes, an order in progress takes seconds.
Tick ==
  /\ order.stage = "none"
  /\ mem' = IF up THEN [mem EXCEPT !.clocks = OlderClocks(@)] ELSE mem
  /\ ledger' = [ledger EXCEPT !.clocks = OlderClocks(@)]
  /\ fills' = OlderClocks(fills)
  /\ UNCHANGED <<venue, up, pnl, order, exchange, price, stream, today, stale,
                 life, missed, unrecorded, bought, faults, moves>>

PriceMoves ==
  /\ moves < MaxMoves /\ moves' = moves + 1
  /\ \E p \in Prices \ {price} : price' = p
  /\ UNCHANGED <<venue, bot, exchange, stream, history, stale, observers,
                 bought, faults>>

-----------------------------------------------------------------------------
Thread ==
  \/ Wait \/ SubmitEntry \/ SubmitAddOn \/ SubmitSell
  \/ Rejected \/ ResponseLost \/ Acknowledged
  \/ Record \/ AddOnNotRecorded \/ BookkeepingFails

Environment ==
  \/ ExchangeFills \/ StreamDelivers \/ StreamStops \/ StreamReturns
  \/ Crash \/ Start \/ NewDay \/ Tick \/ PriceMoves

Next == Thread \/ Environment

Spec == Init /\ [][Next]_vars

\* The thread never blocks for good, the exchange executes or refuses a market
\* order, and a stream that receives asset changes writes them.
FairSpec ==
  Spec /\ WF_vars(Thread) /\ WF_vars(ExchangeFills) /\ WF_vars(StreamDelivers)
-----------------------------------------------------------------------------
(* Properties                                                              *)

Settled == up /\ order.stage = "none"
Submits(kinds) ==
  order.stage = "none" /\ order'.stage = "sent" /\ order'.kind \in kinds

\* While no fill and no balance was lost, the entry price of a held position
\* averages exactly the buys it consists of: those of earlier positions are
\* gone, those of add-ons are in, across restarts.  A holding that went out of
\* the bot's sight by its value (LosesSight) counts as a loss.
BasisExact == Settled /\ missed = 0 /\ IsPosition(held) => mem.price = lots

\* A restart never makes the bot bolder: as long as every order is recorded,
\* the replay gives the entry price, the add-ons and the partial sale the
\* running bot knows of, no cooldown that is further on, and a trailing exit
\* that is armed only if it was.  No add-on is ever recorded (AddOnNotRecorded), so
\* of add-ons this says that a replay invents none.
RestartCautious ==
  Settled /\ missed = 0 /\ unrecorded = 0 =>
    LET again == RecoveredMemory(ledger)
    IN  /\ \A c \in {"trade", "stop", "profit"} : again.clocks[c] <= mem.clocks[c]
        /\ IsPosition(held) =>
             /\ again.price = mem.price /\ again.adds = mem.adds
             /\ again.tpDone = mem.tpDone
             /\ again.armed => mem.armed

\* No buy before the cooldowns of the executed orders are over, restarts
\* included: any order's, a stop loss's and a profit exit's; and none once the
\* results of the current date reach the loss limit, however the date change
\* falls between a pass, its order and the record of it.
BuysAllowed ==
  [][Submits({"entry", "add_on"}) /\ missed = 0 =>
       /\ fills.trade >= TradeInterval
       /\ fills.stop >= StopCooldown
       /\ fills.profit >= ProfitCooldown
       /\ today.gross > -MaxDailyLoss]_vars

\* The account's position, as the orders that are executed make it, follows the
\* abstract promise of the bot.
Promise ==
  INSTANCE SpotPosition WITH
    MaxParts <- 1, open <- held > 0, adds <- life.adds, halved <- life.parts, slips <- missed
KeepsPromise == Promise!Spec

\* A position whose price stays at the stop is sold while it is worth enough to
\* be sold, unless the bot stops or lost track of it.
StopLossExecutes ==
  (up /\ price = Low /\ Sellable(held))
    ~> (~up \/ price # Low \/ ~Sellable(held) \/ missed > 0)

\* README: one pyramid add-on per position (pyramid_max_add_ons is 1).
AddOnOnce == life.adds <= 1

=============================================================================
