----------------------------- MODULE Portfolio -----------------------------
(***************************************************************************)
(* The account the alt and the BTC process of one exchange share, and how  *)
(* settings/portfolio_allocator.py sizes their orders: an asset may take   *)
(* its target share of the free cash and of what is invested, and what is  *)
(* invested is replayed from the trade history files of all programs,      *)
(* which a daily job deletes when they are old.  Nothing locks: a process  *)
(* reads the files, then the balances, and orders later in its visit.  A   *)
(* buy is recorded with the coins its value brings at the last price seen, *)
(* whatever the exchange gave for it after price moves and fees; a sale    *)
(* with the coins of the account that were sold.                           *)
(***************************************************************************)
EXTENDS Integers, Sequences, SequencesExt, FiniteSetsExt

CONSTANTS
  Assets,      \* target_assets: managed on the exchange and with a target
  Bots,        \* the processes
  Owner,       \* the process that trades an asset
  Target,      \* target_allocations
  Bonus,       \* dynamic_max_bonus_pct
  Cash,        \* the free cash at the start
  MinBuy,      \* min_buy_order_value
  Prices,      \* the prices, last seen or of a fill after fees
  Parts,       \* the shares of a holding a sale takes, in percent
  KeepDays,    \* log_archive_manager: days a trade log is kept
  MaxOrders,   \* bound: filled orders
  MaxCrashes,  \* bound: crashes of a process
  MaxDay       \* bound: the calendar

ASSUME PortfolioAssumption ==
  /\ IsFiniteSet(Assets)
  /\ Owner \in [Assets -> Bots]
  /\ Target \in [Assets -> Nat \ {0}]
  /\ Bonus \in 0..100 /\ Cash \in Nat /\ MinBuy \in Nat
  /\ Prices \subseteq Nat \ {0} /\ Parts \subseteq 1..100
  /\ {KeepDays, MaxOrders, MaxCrashes, MaxDay} \subseteq Nat

VARIABLES
  day,
  cash, held,   \* the account
  history,      \* the records of the trade history files, in their order
  visit,        \* what each process does, with the cost basis it replayed
  cost,         \* observer: what the coins held were bought for
  understated,  \* observer: assets of which the files may know too little
  overstated,   \* observer: assets of which the files may know too much
  excess,       \* observer: cost that a process counts but the coins did not have
  missing,      \* observer: cost of the asset to buy that a process does not count
  orders, crashes

account == <<cash, held, cost>>
observers == <<understated, overstated>>
errors == <<excess, missing>>
bounds == <<day, orders, crashes>>
vars == <<account, history, visit, observers, errors, bounds>>

Idle == [step |-> "idle"]
Sum(f) == MapThenSumSet(LAMBDA a : f[a], Assets)

Init ==
  /\ day = 0 /\ cash = Cash
  /\ held = [a \in Assets |-> 0] /\ cost = [a \in Assets |-> 0]
  /\ history = <<>>
  /\ visit = [b \in Bots |-> Idle]
  /\ understated = {} /\ overstated = {}
  /\ excess = [b \in Bots |-> 0] /\ missing = [b \in Bots |-> 0]
  /\ orders = 0 /\ crashes = 0

-----------------------------------------------------------------------------
(* The replay of the history                                               *)

Clamped(n) == IF n < 0 THEN 0 ELSE n

\* Average cost: a sale takes its share of the cost.
Remaining(total, amount, sold) == total - (total * sold) \div amount

\* Variant: a sale takes its proceeds off the cost.
ReplayByProceeds(p, r) ==
  CASE r.side = "buy" -> [amount |-> p.amount + r.amount, cost |-> p.cost + r.value]
    [] r.side = "sell" /\ r.amount >= p.amount -> [amount |-> 0, cost |-> 0]
    [] OTHER -> [amount |-> p.amount - r.amount, cost |-> Clamped(p.cost - r.value)]

\* Variant: a sale of more than the files know leaves a debt.
ReplayUnclamped(p, r) ==
  CASE r.side = "buy" -> [amount |-> p.amount + r.amount, cost |-> p.cost + r.value]
    [] r.side = "sell" /\ p.amount <= 0 ->
         [amount |-> p.amount - r.amount, cost |-> p.cost - r.value]
    [] OTHER -> [amount |-> p.amount - r.amount,
                 cost |-> Remaining(p.cost, p.amount, r.amount)]

Replay(p, r) ==
  CASE r.side = "buy" -> [amount |-> p.amount + r.amount, cost |-> p.cost + r.value]
    [] r.side = "sell" /\ r.amount >= p.amount -> [amount |-> 0, cost |-> 0]
    [] OTHER -> [amount |-> p.amount - r.amount,
                 cost |-> Remaining(p.cost, p.amount, r.amount)]

Nothing == [amount |-> 0, cost |-> 0]

\* What the files say of an asset.
Logged(a) ==
  FoldLeft(LAMBDA p, r : IF r.asset = a THEN Replay(p, r) ELSE p, Nothing, history)

-----------------------------------------------------------------------------
(* build_buy_decision                                                      *)

\* Shares are fractions of Whole; a bonus comes off the other assets' shares.
Whole == 100 * Sum(Target)
Share(a, bonus) ==
  IF bonus THEN Min({100 * Target[a] + Bonus * Sum(Target), Whole})
           ELSE 100 * Target[a]

\* The cost of an asset counts as long as the account holds any of it.
Counted(b) == [a \in Assets |-> IF held[a] > 0 THEN visit[b].basis[a] ELSE 0]

Budget(b, a, bonus) == ((cash + Sum(Counted(b))) * Share(a, bonus)) \div Whole

\* Variant: what is already invested in the asset does not count against it.
ApprovedAgain(b, a, bonus) == Min({cash, Budget(b, a, bonus)})

\* The order is the budget that is left, whatever the sizing asked for.
Approved(b, a, bonus) ==
  Min({cash, Clamped(Budget(b, a, bonus) - Counted(b)[a])})

-----------------------------------------------------------------------------
(* A visit of a process                                                    *)

At(b, step) == visit[b].step = step
Busy(b) == visit[b].step \in {"refreshed", "decided"}
Leave(b) ==
  /\ visit' = [visit EXCEPT ![b] = Idle]
  /\ excess' = [excess EXCEPT ![b] = 0] /\ missing' = [missing EXCEPT ![b] = 0]
Assigned(b) == {a \in Assets : Owner[a] = b}

\* _refresh_cost_basis_if_needed: the files are read again when one of them
\* changed, so the cost basis is what they say now.
Refresh(b, a) ==
  /\ At(b, "idle") /\ a \in Assigned(b) /\ orders < MaxOrders
  /\ visit' = [visit EXCEPT ![b] =
       [step |-> "refreshed", asset |-> a, basis |-> [x \in Assets |-> Logged(x).cost]]]
  /\ excess' = [excess EXCEPT ![b] =
                  Sum([x \in Assets |-> Clamped(Logged(x).cost - cost[x])])]
  /\ missing' = [missing EXCEPT ![b] = Clamped(cost[a] - Logged(a).cost)]
  /\ UNCHANGED <<account, history, observers, bounds>>

\* The balances are fetched and the order is sized; an order that is too small
\* is not made.
Decide(b) ==
  /\ At(b, "refreshed")
  /\ LET a == visit[b].asset
     IN  \E bonus \in BOOLEAN :
           LET value == Approved(b, a, bonus)
           IN  IF value <= MinBuy
               THEN Leave(b)
               ELSE /\ visit' = [visit EXCEPT ![b] =
                         [step |-> "decided", asset |-> a, value |-> value, bonus |-> bonus]]
                    /\ UNCHANGED errors
  /\ UNCHANGED <<account, history, observers, bounds>>

\* A filter blocks the entry: there is no order in this visit.
Pass(b) ==
  /\ At(b, "decided")
  /\ Leave(b)
  /\ UNCHANGED <<account, history, observers, bounds>>

Filled(b, side, a, amount, value) ==
  /\ orders' = orders + 1
  /\ visit' = [visit EXCEPT ![b] =
       [step |-> IF side = "buy" THEN "bought" ELSE "sold",
        asset |-> a, side |-> side, amount |-> amount, value |-> value]]
  /\ UNCHANGED <<history, day, crashes>>

\* The record will have the coins of the last price seen, the account those of
\* the fill.
BuyFilled(b, a, value, fill, last) ==
  /\ value >= fill /\ value >= last
  /\ held' = [held EXCEPT ![a] = @ + value \div fill]
  /\ Filled(b, "buy", a, value \div last, value)
  /\ understated' = IF value \div last < value \div fill THEN understated \cup {a}
                    ELSE understated
  /\ overstated' = IF value \div last > value \div fill THEN overstated \cup {a}
                   ELSE overstated

\* The exchange rejects an order that the cash no longer covers.
Buy(b) ==
  /\ At(b, "decided")
  /\ LET a == visit[b].asset
         value == visit[b].value
     IN  \/ /\ cash >= value /\ orders < MaxOrders
            /\ \E fill, last \in Prices : BuyFilled(b, a, value, fill, last)
            /\ cash' = cash - value
            /\ cost' = [cost EXCEPT ![a] = @ + value]
            /\ excess' = [excess EXCEPT ![b] = 0] /\ missing' = [missing EXCEPT ![b] = 0]
         \/ /\ cash < value
            /\ Leave(b)
            /\ UNCHANGED <<account, history, observers, bounds>>

\* An exit of a process; a visit of another one has counted what is sold here.
Sell(b, a) ==
  /\ At(b, "idle") /\ a \in Assigned(b) /\ orders < MaxOrders
  /\ \E part \in Parts, p \in Prices :
       LET amount == (held[a] * part) \div 100
           left   == Remaining(cost[a], held[a], amount)
       IN  /\ amount > 0
           /\ held' = [held EXCEPT ![a] = @ - amount]
           /\ cash' = cash + amount * p
           /\ cost' = [cost EXCEPT ![a] = left]
           /\ Filled(b, "sell", a, amount, amount * p)
           /\ excess' = [c \in Bots |-> IF c # b /\ Busy(c) THEN excess[c] + (cost[a] - left)
                                        ELSE excess[c]]
  /\ UNCHANGED <<observers, missing>>

\* TradeHistoryLogger.log_fill.  After a sale of all the coins the files know no
\* longer too little; what they know too much they keep.
Record(b) ==
  LET fill == visit[b]
  IN  /\ fill.step \in {"bought", "sold"}
      /\ history' = Append(history, [day |-> day, asset |-> fill.asset, side |-> fill.side,
                                     amount |-> fill.amount, value |-> fill.value])
      /\ visit' = [visit EXCEPT ![b] = Idle]
      /\ understated' = IF held[fill.asset] = 0 THEN understated \ {fill.asset}
                        ELSE understated
      /\ UNCHANGED <<account, overstated, errors, bounds>>

\* A process ends; a fill it has not recorded stays out of the files.
Crash(b) ==
  /\ ~At(b, "idle") /\ crashes < MaxCrashes /\ crashes' = crashes + 1
  /\ Leave(b)
  /\ understated' = understated \cup (IF At(b, "bought") THEN {visit[b].asset} ELSE {})
  /\ overstated' = overstated \cup (IF At(b, "sold") THEN {visit[b].asset} ELSE {})
  /\ UNCHANGED <<account, history, day, orders>>

-----------------------------------------------------------------------------
(* The calendar and log_archive_manager.py prune                           *)

NextDay ==
  /\ day < MaxDay /\ day' = day + 1
  /\ UNCHANGED <<account, history, visit, observers, errors, orders, crashes>>

\* should_archive_day
Old(r) == day - r.day >= KeepDays

\* The records are in the order of their days, so the old ones are the first n.
Prune ==
  /\ \E n \in 1..Len(history) :
       /\ \A i \in DOMAIN history : Old(history[i]) <=> i <= n
       /\ history' = SubSeq(history, n + 1, Len(history))
       /\ understated' = understated \cup
            {a \in Assets : held[a] > 0 /\ \E i \in 1..n : history[i].asset = a}
  /\ UNCHANGED <<account, visit, overstated, errors, bounds>>

Next ==
  \/ \E b \in Bots :
       \/ \E a \in Assets : Refresh(b, a) \/ Sell(b, a)
       \/ Decide(b) \/ Pass(b) \/ Buy(b) \/ Record(b) \/ Crash(b)
  \/ NextDay \/ Prune

Spec == Init /\ [][Next]_vars
-----------------------------------------------------------------------------
(* Properties                                                              *)

Fills == [step : {"bought", "sold"}, asset : Assets, side : {"buy", "sell"},
          amount : Nat, value : Nat]
Visits ==
  {Idle} \cup [step : {"refreshed"}, asset : Assets, basis : [Assets -> Nat]] \cup Fills
         \cup [step : {"decided"}, asset : Assets, value : Nat, bonus : BOOLEAN]

\* The type invariant; the coins held cost something and no coins cost nothing.
TypeOK ==
  /\ day \in 0..MaxDay /\ cash \in Nat /\ orders \in 0..MaxOrders
  /\ crashes \in 0..MaxCrashes
  /\ held \in [Assets -> Nat] /\ cost \in [Assets -> Nat]
  /\ \A a \in Assets : held[a] = 0 => cost[a] = 0
  /\ history \in Seq([day : 0..day, asset : Assets, side : {"buy", "sell"},
                      amount : Nat, value : Nat])
  /\ visit \in [Bots -> Visits]
  /\ understated \subseteq Assets /\ overstated \subseteq Assets
  /\ excess \in [Bots -> Nat] /\ missing \in [Bots -> Nat]

Recorded(a) == \A b \in Bots : visit[b].step \in {"bought", "sold"} => visit[b].asset # a

\* Once the fills of an asset are recorded, the replay of the files errs only on
\* the side it was pushed to, through partial sales, sell-offs, buys into what a
\* sell-off left on record, lost records and deletions: it knows less coins or
\* less cost than there is only if a crash lost a buy, a file with fills of the
\* coins held was deleted or a fill brought more than its record says, and not
\* beyond the sale of all the coins; it knows more only if a crash lost a sale or
\* a fill brought less.
HistoryTrue ==
  \A a \in Assets : Recorded(a) =>
    /\ a \notin understated => Logged(a).amount >= held[a] /\ Logged(a).cost >= cost[a]
    /\ a \notin overstated => Logged(a).amount <= held[a] /\ Logged(a).cost <= cost[a]

\* A buy leaves the asset within its share of the cash and of what is invested,
\* whatever happens between the reading of the files, of the balances and the
\* order, but for what the process was told wrong: the share of the cost that the
\* files had too much when it read them or that another process sold since, and
\* the cost of the asset that the files did not have.
BudgetKept ==
  [][\A b \in Bots :
       Buy(b) /\ cash' < cash
         => LET a == visit[b].asset
            IN  (cost'[a] - missing[b]) * Whole
                  <= Share(a, visit[b].bonus) * (cash + Sum(cost) + excess[b])]_vars
=============================================================================
