---------------------------- MODULE BtcBotProofs ----------------------------
(***************************************************************************)
(* Theorems about BtcBot, on either exchange, for every setting of the     *)
(* strategy, every set of faults and any number of them.                   *)
(***************************************************************************)
EXTENDS BtcBot, FiniteSetTheorems, TLAPS

LEMMA BoundsTyped ==
  /\ MaxAddOns \in Nat /\ Confirmations \in Nat \ {0} /\ AgeCap \in Nat
  /\ MinAmount \in Nat \ {0} /\ MinValue \in Nat
  /\ BuyAmount \in Nat \ {0} /\ BuyFills \subseteq 1..BuyAmount /\ Fee \in Nat
  /\ GrossPnLs \subseteq Int /\ MaxDailyLoss \in Nat /\ Prices \subseteq Nat \ {0}
  /\ TradeInterval \in 0..AgeCap /\ StopCooldown \in 0..AgeCap
  /\ ProfitCooldown \in 0..AgeCap
BY BtcBotAssumption, BtcLifecycleAssumption, Zenon

LEMMA VenueBounds ==
  Venues \subseteq {"okx", "upbit"} /\ ("upbit" \in Venues => MinValue > 0)
BY BtcBotAssumption, Zenon

-----------------------------------------------------------------------------
(* The inductive invariant                                                 *)

Clocks == [trade : Ages, stop : Ages, profit : Ages]
Memories == [price : SUBSET Nat, adds : Nat, tpDone : BOOLEAN, armed : BOOLEAN,
             confirm : Nat, clocks : Clocks]
Ledgers == [left : Nat, lots : SUBSET Nat, ends : SUBSET Nat, tpDone : BOOLEAN,
            armed : BOOLEAN, clocks : Clocks]
Reasons == {"entry"} \cup {Priority[i] : i \in 1..6}
Orders == [stage : {"none", "sent", "filled", "acked"}, kind : {"entry", "add_on", "sell"},
           base : Int, id : Nat, qty : Nat, reason : Reasons, partly : BOOLEAN, gross : Int]
Lives == [adds : Nat, parts : Nat]

Typed ==
  /\ venue \in Venues /\ up \in BOOLEAN /\ mem \in Memories /\ pnl \in Int
  /\ order \in Orders
  /\ held \in Nat /\ lots \in SUBSET Nat /\ price \in Prices
  /\ streaming \in BOOLEAN /\ coming \in BOOLEAN /\ view \in Nat \cup {Unknown}
  /\ ledger \in Ledgers /\ ledger.ends \subseteq 1..ledger.left
  /\ today \in [gross : Int, net : Int] /\ stale \in BOOLEAN
  /\ fills \in Clocks /\ life \in Lives
  /\ missed \in Nat /\ unrecorded \in Nat
  /\ bought \in Nat /\ faults \in Nat /\ moves \in Nat

InStage(stages) == order.stage \in stages
IsKind(kind) == order.kind = kind
One(b) == IF b THEN 1 ELSE 0

\* What the bot reads of its balance is true once no change is on its way.
ViewTrue == missed = 0 /\ ~coming => view \in {Unknown, held}

EntryFits ==
  IsKind("entry") =>
    /\ InStage({"sent", "filled", "acked"}) => ~mem.tpDone /\ ~mem.armed /\ mem.adds = 0
    /\ InStage({"sent"}) /\ held > 0 => missed > 0
    /\ InStage({"filled", "acked"}) => life.adds = 0 /\ life.parts = 0 /\ held > 0
AddOnFits ==
  IsKind("add_on") =>
    /\ InStage({"sent", "filled"}) => mem.adds < MaxAddOns /\ mem.price # {}
    /\ InStage({"sent"}) /\ held = 0 => missed > 0
    /\ InStage({"filled", "acked"}) => held > 0
SellFits ==
  IsKind("sell") /\ ~InStage({"none"}) =>
    /\ order.qty > 0 /\ mem.price # {}
    /\ order.partly => /\ order.reason = "partial_take_profit"
                       /\ IF InStage({"acked"}) THEN mem.tpDone ELSE ~mem.tpDone
                       /\ missed = 0 => held > 0
    /\ missed = 0 /\ InStage({"sent"}) =>
         IF order.partly THEN order.qty < held ELSE order.qty = held
    /\ ~order.partly /\ InStage({"filled", "acked"}) =>
         life.adds = 0 /\ life.parts = 0 /\ (missed = 0 => held = 0)
OrderFits ==
  /\ ~up => InStage({"none"})
  /\ EntryFits /\ AddOnFits /\ SellFits
  /\ ~IsKind("sell") => order.gross = 0

Sold == held = 0 => lots = {} /\ life.adds = 0 /\ life.parts = 0
Flat == ledger.left = 0 => ledger.lots = {} /\ ~ledger.tpDone /\ ~ledger.armed

Pending(kind, stages) == One(IsKind(kind) /\ InStage(stages))
Halving(stages) == One(order.partly /\ IsKind("sell") /\ InStage(stages))

Repeated(slips) == MaxAddOns * slips
AddsCounted ==
  /\ life.adds <= missed + unrecorded + Pending("add_on", {"filled", "acked"})
  /\ life.adds <= MaxAddOns + Repeated(missed)
  /\ up => life.adds <= mem.adds + Repeated(missed) + Pending("add_on", {"filled"})
PartsCounted ==
  /\ up /\ mem.price # {} =>
       life.parts <= One(mem.tpDone) + missed + Halving({"filled"})
  /\ ledger.left > 0 =>
       life.parts <= One(ledger.tpDone) + missed + unrecorded + Halving({"filled", "acked"})

Basis ==
  up /\ missed = 0 /\ held > 0 =>
    lots = IF InStage({"filled"}) /\ IsKind("entry") THEN {order.id}
           ELSE IF InStage({"filled"}) /\ IsKind("add_on") THEN mem.price \cup {order.id}
           ELSE mem.price

Exact == missed = 0 /\ unrecorded = 0
Recorded ==
  Exact =>
    /\ InStage({"none", "sent"}) =>
         IF held = 0 THEN ledger.left = 0
         ELSE ledger.left >= held /\ ledger.lots = lots /\ ledger.ends = {ledger.left}
    /\ InStage({"filled", "acked"}) /\ IsKind("entry") =>
         ledger.left = 0 /\ held <= BuyAmount /\ lots = {order.id}
    /\ InStage({"filled", "acked"}) /\ IsKind("sell") =>
         /\ ledger.left > 0 /\ ledger.left >= held + order.qty
         /\ ledger.ends = {ledger.left}
         /\ held > 0 => ledger.lots = lots
    /\ up /\ ~(InStage({"acked"}) /\ IsKind("add_on")) => mem.adds = 0
    /\ up /\ held > 0 /\ InStage({"none", "sent"}) =>
         (mem.tpDone <=> ledger.tpDone) /\ (ledger.armed => mem.armed)

NoLater(c, d) == c.trade <= d.trade /\ c.stop <= d.stop /\ c.profit <= d.profit
Applied(c, profitReasons) ==
  IF IsKind("sell") THEN SaleClocks(c, order.reason, profitReasons) ELSE TradeClocks(c)
ClocksKept ==
  /\ up /\ missed = 0 =>
       NoLater(IF InStage({"filled"}) THEN Applied(mem.clocks, ProfitReasons) ELSE mem.clocks,
               fills)
  /\ Exact /\ up =>
       NoLater(IF InStage({"acked"}) THEN Applied(ledger.clocks, ReplayedProfitReasons)
               ELSE ledger.clocks, mem.clocks)
  /\ Exact /\ ~up => NoLater(ledger.clocks, fills)

LossesKept ==
  /\ today.net <= today.gross
  /\ up /\ missed = 0 /\ ~stale =>
       pnl <= today.gross + (IF InStage({"acked"}) THEN order.gross ELSE 0)

Inv ==
  /\ Typed /\ ViewTrue /\ OrderFits /\ Sold /\ Flat /\ AddsCounted /\ PartsCounted
  /\ Basis /\ Recorded /\ ClocksKept /\ LossesKept

-----------------------------------------------------------------------------
(* Cooldown clocks                                                         *)

LEMMA ClocksTyped ==
  ASSUME NEW c \in Clocks, NEW reason, NEW S
  PROVE  /\ TradeClocks(c) \in Clocks
         /\ SaleClocks(c, reason, S) \in Clocks
         /\ OlderClocks(c) \in Clocks
         /\ NoClocks \in Clocks
BY BoundsTyped DEF Clocks, Ages, TradeClocks, SaleClocks, OlderClocks, Older, NoClocks

LEMMA NoLaterTransitive ==
  ASSUME NEW c \in Clocks, NEW d \in Clocks, NEW e \in Clocks, NoLater(c, d), NoLater(d, e)
  PROVE  NoLater(c, e)
BY BoundsTyped DEF Clocks, Ages, NoLater

LEMMA NoLaterReflexive ==
  ASSUME NEW c \in Clocks
  PROVE  NoLater(c, c)
BY BoundsTyped DEF Clocks, Ages, NoLater

\* Time and fills keep the order of clocks, and a replay, which counts more sales
\* as profit exits, does not make them later.
LEMMA NoLaterKept ==
  ASSUME NEW c \in Clocks, NEW d \in Clocks, NoLater(c, d), NEW reason
  PROVE  /\ NoLater(OlderClocks(c), OlderClocks(d))
         /\ NoLater(TradeClocks(c), TradeClocks(d))
         /\ NoLater(SaleClocks(c, reason, ProfitReasons), SaleClocks(d, reason, ProfitReasons))
         /\ NoLater(SaleClocks(c, reason, ReplayedProfitReasons),
                    SaleClocks(d, reason, ProfitReasons))
<1>1. ProfitReasons \subseteq ReplayedProfitReasons
  BY DEF ReplayedProfitReasons
<1> QED
  BY <1>1, BoundsTyped DEF Clocks, Ages, NoLater, OlderClocks, Older, TradeClocks, SaleClocks

-----------------------------------------------------------------------------
(* What the bot remembers                                                  *)

LEMMA ArmedFields ==
  ASSUME NEW m \in Memories, NEW b \in BOOLEAN
  PROVE  LET n == [m EXCEPT !.armed = b]
         IN  /\ n \in Memories /\ n.price = m.price /\ n.adds = m.adds
             /\ n.tpDone = m.tpDone /\ n.armed = b /\ n.clocks = m.clocks
BY DEF Memories

LEMMA EvaluateFields ==
  ASSUME NEW m \in Memories, NEW h, NEW F
  PROVE  LET n == Evaluate(m, h, F)
         IN  /\ n \in Memories /\ n.price = m.price /\ n.clocks = m.clocks
             /\ h => n.adds = m.adds /\ n.tpDone = m.tpDone /\ (m.armed => n.armed)
             /\ ~h => n.adds = 0 /\ ~n.tpDone /\ ~n.armed
<1>1. CASE h
  <2> DEFINE b == m.armed \/ ("target" \in F /\ ~PartialTriggered(m, F))
  <2>1. b \in BOOLEAN
    BY Zenon
  <2>2. Evaluate(m, h, F) = [m EXCEPT !.armed = b]
    BY <1>1, Zenon DEF Evaluate
  <2>3. m.armed => b
    BY Zenon
  <2> HIDE DEF b
  <2> DEFINE n == [m EXCEPT !.armed = b]
  <2>4. /\ n \in Memories /\ n.price = m.price /\ n.adds = m.adds
        /\ n.tpDone = m.tpDone /\ n.armed = b /\ n.clocks = m.clocks
    BY <2>1, ArmedFields
  <2> HIDE DEF n
  <2>5. /\ n \in Memories /\ n.price = m.price /\ n.clocks = m.clocks
        /\ h => n.adds = m.adds /\ n.tpDone = m.tpDone /\ (m.armed => n.armed)
        /\ ~h => n.adds = 0 /\ ~n.tpDone /\ ~n.armed
    BY <1>1, <2>3, <2>4, Zenon
  <2> QED
    BY <2>2, <2>5 DEF n
<1>2. CASE ~h
  BY <1>2 DEF Evaluate, Memories
<1> QED
  BY <1>1, <1>2

LEMMA TimingFields ==
  ASSUME NEW m \in Memories, NEW h, NEW c
  PROVE  LET n == UpdateTiming(m, h, c)
         IN  /\ n \in Memories /\ n.price = m.price /\ n.clocks = m.clocks
             /\ n.adds = m.adds /\ n.tpDone = m.tpDone /\ n.armed = m.armed
<1> DEFINE k == IF h \/ ~c THEN 0
                ELSE IF m.confirm < Confirmations THEN m.confirm + 1 ELSE Confirmations
<1>1. k \in Nat
  BY BoundsTyped DEF Memories
<1>2. UpdateTiming(m, h, c) = [m EXCEPT !.confirm = k]
  BY Zenon DEF UpdateTiming
<1> HIDE DEF k
<1> QED
  BY <1>1, <1>2 DEF Memories

LEMMA LookedFields ==
  ASSUME Typed, NEW F, NEW c
  PROVE  LET n == Looked(F, c)
         IN  /\ n \in Memories /\ n.price = mem.price /\ n.clocks = mem.clocks
             /\ HasPosition => n.adds = mem.adds /\ n.tpDone = mem.tpDone
                               /\ (mem.armed => n.armed)
             /\ ~HasPosition => n.adds = 0 /\ ~n.tpDone /\ ~n.armed
<1>1. mem \in Memories
  BY DEF Typed
<1> DEFINE e == Evaluate(mem, HasPosition, F)
<1>3. /\ e \in Memories /\ e.price = mem.price /\ e.clocks = mem.clocks
      /\ HasPosition => e.adds = mem.adds /\ e.tpDone = mem.tpDone /\ (mem.armed => e.armed)
      /\ ~HasPosition => e.adds = 0 /\ ~e.tpDone /\ ~e.armed
  BY <1>1, EvaluateFields
<1>4. Looked(F, c) = UpdateTiming(e, HasPosition, c)
  BY DEF Looked
<1> HIDE DEF e
<1> DEFINE n == UpdateTiming(e, HasPosition, c)
<1>5. /\ n \in Memories /\ n.price = e.price /\ n.clocks = e.clocks
      /\ n.adds = e.adds /\ n.tpDone = e.tpDone /\ n.armed = e.armed
  BY <1>3, TimingFields
<1> HIDE DEF n
<1>6. /\ n \in Memories /\ n.price = mem.price /\ n.clocks = mem.clocks
      /\ HasPosition => n.adds = mem.adds /\ n.tpDone = mem.tpDone
                        /\ (mem.armed => n.armed)
      /\ ~HasPosition => n.adds = 0 /\ ~n.tpDone /\ ~n.armed
  BY <1>3, <1>5, Zenon
<1> QED
  BY <1>4, <1>6 DEF n

LEMMA FillFields ==
  ASSUME NEW m \in Memories, NEW id \in Nat
  PROVE  /\ LET n == ApplyEntry(m, id)
            IN  /\ n \in Memories /\ n.price = {id} /\ n.adds = 0 /\ ~n.armed
                /\ n.tpDone = m.tpDone /\ n.clocks = TradeClocks(m.clocks)
         /\ LET n == ApplyAddOn(m, id)
            IN  /\ n \in Memories /\ n.price = m.price \cup {id} /\ n.adds = m.adds + 1
                /\ n.armed = m.armed /\ n.tpDone = m.tpDone
                /\ n.clocks = TradeClocks(m.clocks)
<1>1. TradeClocks(m.clocks) \in Clocks
  BY ClocksTyped DEF Memories
<1>2. \A k \in Clocks :
        LET n == [m EXCEPT !.price = {id}, !.adds = 0, !.armed = FALSE, !.clocks = k]
        IN  /\ n \in Memories /\ n.price = {id} /\ n.adds = 0 /\ ~n.armed
            /\ n.tpDone = m.tpDone /\ n.clocks = k
  BY DEF Memories
<1> DEFINE p == m.price \cup {id}
           a == m.adds + 1
           k == TradeClocks(m.clocks)
<1>4. p \in SUBSET Nat /\ a \in Nat /\ k \in Clocks
  BY <1>1 DEF Memories
<1>5. ApplyAddOn(m, id) = [m EXCEPT !.price = p, !.adds = a, !.clocks = k]
  BY DEF ApplyAddOn
<1>6. ApplyEntry(m, id) = [m EXCEPT !.price = {id}, !.adds = 0, !.armed = FALSE, !.clocks = k]
  BY DEF ApplyEntry
<1> HIDE DEF p, a, k
<1>7. LET n == ApplyEntry(m, id)
      IN  /\ n \in Memories /\ n.price = {id} /\ n.adds = 0 /\ ~n.armed
          /\ n.tpDone = m.tpDone /\ n.clocks = k
  BY <1>2, <1>4, <1>6, Zenon
<1>8. LET n == ApplyAddOn(m, id)
      IN  /\ n \in Memories /\ n.price = p /\ n.adds = a
          /\ n.armed = m.armed /\ n.tpDone = m.tpDone /\ n.clocks = k
  BY <1>4, <1>5 DEF Memories
<1> QED
  BY <1>7, <1>8, Zenon DEF p, a, k

LEMMA SaleFields ==
  ASSUME NEW m \in Memories, NEW reason, NEW partly \in BOOLEAN
  PROVE  LET n == ApplySale(m, reason, partly)
         IN  /\ n \in Memories /\ n.price = m.price /\ n.adds = m.adds
             /\ n.tpDone <=> m.tpDone \/ partly
             /\ partly => n.armed
             /\ n.clocks = SaleClocks(m.clocks, reason, ProfitReasons)
<1> DEFINE t == m.tpDone \/ partly
           a == m.armed \/ partly
           k == SaleClocks(m.clocks, reason, ProfitReasons)
<1>1. t \in BOOLEAN /\ a \in BOOLEAN
  BY Zenon
<1>2. k \in Clocks
  BY ClocksTyped DEF Memories
<1>3. (t <=> m.tpDone \/ partly) /\ (partly => a)
  BY Zenon
<1>4. ApplySale(m, reason, partly) = [m EXCEPT !.tpDone = t, !.armed = a, !.clocks = k]
  BY Zenon DEF ApplySale
<1> HIDE DEF t, a, k
<1> DEFINE n == [m EXCEPT !.tpDone = t, !.armed = a, !.clocks = k]
<1>5. /\ n \in Memories /\ n.price = m.price /\ n.adds = m.adds
      /\ n.tpDone = t /\ n.armed = a /\ n.clocks = k
  BY <1>1, <1>2 DEF Memories
<1> HIDE DEF n
<1>6. (n.tpDone <=> m.tpDone \/ partly) /\ (partly => n.armed)
  BY <1>3, <1>5, Zenon
<1> QED
  BY <1>4, <1>5, <1>6 DEF n, k

LEMMA ClearFields ==
  ASSUME NEW m \in Memories
  PROVE  LET n == ClearPosition(m)
         IN  /\ n \in Memories /\ n.price = {} /\ n.adds = 0 /\ ~n.tpDone /\ ~n.armed
             /\ n.clocks = m.clocks
BY DEF ClearPosition, Memories

LEMMA AgedFields ==
  ASSUME NEW m \in Memories
  PROVE  LET n == [m EXCEPT !.clocks = OlderClocks(@)]
         IN  /\ n \in Memories /\ n.price = m.price /\ n.adds = m.adds
             /\ n.tpDone = m.tpDone /\ n.armed = m.armed /\ n.clocks = OlderClocks(m.clocks)
<1>1. OlderClocks(m.clocks) \in Clocks
  BY ClocksTyped DEF Memories
<1> QED
  BY <1>1 DEF Memories

LEMMA BlankTyped == BlankMemory \in Memories /\ BlankMemory.clocks = NoClocks
<1>1. NoClocks \in Clocks
  BY BoundsTyped DEF Clocks, Ages, NoClocks
<1> QED
  BY <1>1 DEF BlankMemory, Memories

-----------------------------------------------------------------------------
(* The trade history                                                       *)

LEMMA LedgerFields ==
  ASSUME NEW led \in Ledgers, NEW l \in Nat, NEW o \in SUBSET Nat, NEW e \in SUBSET Nat,
         NEW t \in BOOLEAN, NEW a \in BOOLEAN, NEW k \in Clocks
  PROVE  LET n == [led EXCEPT !.left = l, !.lots = o, !.ends = e, !.tpDone = t,
                              !.armed = a, !.clocks = k]
         IN  /\ n \in Ledgers /\ n.left = l /\ n.lots = o /\ n.ends = e
             /\ n.tpDone = t /\ n.armed = a /\ n.clocks = k
BY DEF Ledgers

\* A buy into nothing starts the replayed position anew.
LEMMA ReplayBuyFields ==
  ASSUME NEW led \in Ledgers, led.ends \subseteq 1..led.left, NEW id \in Nat,
         NEW qty \in Nat \ {0}
  PROVE  LET n == ReplayBuy(led, id, qty)
         IN  /\ n \in Ledgers /\ n.ends \subseteq 1..n.left
             /\ n.left = led.left + qty /\ n.lots = led.lots \cup {id}
             /\ n.clocks = TradeClocks(led.clocks)
             /\ led.left = 0 => n.ends = {n.left} /\ ~n.tpDone /\ ~n.armed
<1> DEFINE l == led.left + qty
           o == led.lots \cup {id}
           e == (IF led.left = 0 THEN {} ELSE led.ends) \cup {l}
           t == ~(led.left = 0) /\ led.tpDone
           a == ~(led.left = 0) /\ led.armed
           k == TradeClocks(led.clocks)
           n == [led EXCEPT !.left = l, !.lots = o, !.ends = e, !.tpDone = t,
                            !.armed = a, !.clocks = k]
<1>1. l \in Nat /\ e \in SUBSET Nat /\ e \subseteq 1..l
  BY DEF Ledgers
<1>2. o \in SUBSET Nat
  BY DEF Ledgers
<1>3. /\ t \in BOOLEAN /\ a \in BOOLEAN
      /\ led.left = 0 => ~t /\ ~a
  BY Zenon
<1>4. k \in Clocks
  BY ClocksTyped DEF Ledgers
<1>5. led.left = 0 => e = {l}
  OBVIOUS
<1>6. ReplayBuy(led, id, qty) = n
  BY DEF ReplayBuy, Ledgers
<1> HIDE DEF e, t, a, k, o
<1>7. /\ n \in Ledgers /\ n.left = l /\ n.lots = o /\ n.ends = e
      /\ n.tpDone = t /\ n.armed = a /\ n.clocks = k
  <2> HIDE DEF l
  <2> QED
    BY <1>1, <1>2, <1>3, <1>4 DEF Ledgers
<1> HIDE DEF n
<1>8. led.left = 0 => ~n.tpDone /\ ~n.armed
  BY <1>3, <1>7, Zenon
<1> QED
  BY <1>1, <1>5, <1>6, <1>7, <1>8 DEF o, k

LEMMA ClearReplayedFields ==
  ASSUME NEW led \in Ledgers
  PROVE  LET n == ClearReplayed(led)
         IN  /\ n \in Ledgers /\ n.left = 0 /\ n.lots = {} /\ n.ends = {}
             /\ ~n.tpDone /\ ~n.armed /\ n.clocks = led.clocks
BY DEF ClearReplayed, Ledgers

\* Of a remainder a sale takes its amount; the sale that leaves nothing, or is
\* final, ends the replayed position.
LEMMA ReplaySaleFields ==
  ASSUME NEW led \in Ledgers, led.ends \subseteq 1..led.left,
         led.left = 0 => led.lots = {} /\ ~led.tpDone /\ ~led.armed,
         NEW qty \in Nat \ {0}, NEW reason, NEW armed \in BOOLEAN, NEW final \in BOOLEAN
  PROVE  LET n == ReplaySale(led, [qty |-> qty, reason |-> reason,
                                   armed |-> armed, final |-> final])
         IN  /\ n \in Ledgers /\ n.ends \subseteq 1..n.left
             /\ n.left = 0 => n.lots = {} /\ ~n.tpDone /\ ~n.armed
             /\ final => n.left = 0
             /\ n.left > 0 => led.left > 0
             /\ n.left > 0 /\ reason = "partial_take_profit" => n.tpDone
             /\ led.left > 0 => n.clocks = SaleClocks(led.clocks, reason, ReplayedProfitReasons)
             /\ ~final /\ qty < led.left =>
                  /\ n.left = led.left - qty /\ n.lots = led.lots
                  /\ n.armed = armed
                  /\ led.ends = {led.left} => n.ends = {n.left}
<1> DEFINE rec == [qty |-> qty, reason |-> reason, armed |-> armed, final |-> final]
           l == IF qty < led.left THEN led.left - qty ELSE 0
           e == {x - qty : x \in {y \in led.ends : y > qty}}
           t == led.tpDone \/ (reason = "partial_take_profit" /\ l > 0)
           k == SaleClocks(led.clocks, reason, ReplayedProfitReasons)
           next == [led EXCEPT !.left = l, !.ends = e, !.tpDone = t, !.armed = armed,
                               !.clocks = k]
           n == ReplaySale(led, rec)
<1>1. /\ l \in Nat
      /\ led.left > 0 => e \subseteq 1..l
      /\ qty < led.left => l > 0 /\ l = led.left - qty /\ (led.ends = {led.left} => e = {l})
      /\ ~(qty < led.left) => l = 0
  BY DEF Ledgers
<1>2. /\ t \in BOOLEAN
      /\ reason = "partial_take_profit" /\ l > 0 => t
  BY Zenon
<1>3. k \in Clocks /\ TradeClocks(led.clocks) \in Clocks
  BY ClocksTyped DEF Ledgers
<1>4. n = IF led.left > 0
          THEN IF final \/ l = 0 THEN ClearReplayed(next) ELSE next
          ELSE IF final THEN ClearReplayed([led EXCEPT !.clocks = TradeClocks(led.clocks)])
                        ELSE led
  BY DEF ReplaySale
<1> HIDE DEF rec, t, k, e, l, n
<1>5. e \in SUBSET Nat =>
        /\ next \in Ledgers /\ next.left = l /\ next.lots = led.lots /\ next.ends = e
        /\ next.tpDone = t /\ next.armed = armed /\ next.clocks = k
  BY <1>1, <1>2, <1>3 DEF Ledgers
<1> HIDE DEF next
<1>6. CASE led.left > 0
  <2>1. e \in SUBSET Nat
    BY <1>1, <1>6
  <2>2. CASE final \/ l = 0
    <3>1. n = ClearReplayed(next)
      BY <1>4, <1>6, <2>2, Zenon
    <3>2. /\ n \in Ledgers /\ n.left = 0 /\ n.lots = {} /\ n.ends = {}
          /\ ~n.tpDone /\ ~n.armed /\ n.clocks = k
      BY <3>1, <1>5, <2>1, ClearReplayedFields
    <3>3. ~(~final /\ qty < led.left)
      BY <1>1, <2>2
    <3> QED
      BY <1>6, <3>2, <3>3 DEF n, rec, k
  <2>3. CASE ~final /\ l # 0
    <3>1. n = next
      BY <1>4, <1>6, <2>3, Zenon
    <3>2. /\ n \in Ledgers /\ n.left = l /\ n.lots = led.lots /\ n.ends = e
          /\ n.tpDone = t /\ n.armed = armed /\ n.clocks = k
      BY <3>1, <1>5, <2>1, Zenon
    <3>3. reason = "partial_take_profit" => n.tpDone
      BY <1>1, <1>2, <2>3, <3>2
    <3> QED
      BY <1>1, <1>6, <2>3, <3>2, <3>3 DEF n, rec, k
  <2> QED
    BY <2>2, <2>3
<1>7. CASE ~(led.left > 0)
  <2>1. led.left = 0 /\ ~(qty < led.left)
    BY <1>7 DEF Ledgers
  <2>2. CASE final
    <3> DEFINE m == [led EXCEPT !.clocks = TradeClocks(led.clocks)]
    <3>1. m \in Ledgers
      BY <1>3 DEF Ledgers
    <3>2. n = ClearReplayed(m)
      BY <1>4, <1>7, <2>2, Zenon
    <3> HIDE DEF m
    <3>3. n \in Ledgers /\ n.left = 0 /\ n.lots = {} /\ n.ends = {} /\ ~n.tpDone /\ ~n.armed
      BY <3>1, <3>2, ClearReplayedFields
    <3>4. ~(n.left > 0) /\ ~(led.left > 0) /\ n.ends \subseteq 1..n.left
      BY <2>1, <3>3
    <3> QED
      BY <2>1, <2>2, <3>3, <3>4, Zenon DEF n, rec
  <2>3. CASE ~final
    <3>1. n = led
      BY <1>4, <1>7, <2>3, Zenon
    <3> QED
      BY <2>1, <2>3, <3>1 DEF n, rec
  <2> QED
    BY <2>2, <2>3
<1> QED
  BY <1>6, <1>7

\* What a restart reads back
LEMMA RecoveredFields ==
  ASSUME NEW led \in Ledgers, led.ends \subseteq 1..led.left
  PROVE  LET n == RecoveredMemory(led)
         IN  /\ n \in Memories
             /\ n.price = IF led.left > 0 THEN led.lots ELSE {}
             /\ led.left = 0 \/ led.ends = {led.left} => n.adds = 0
             /\ n.tpDone = led.tpDone /\ n.armed = led.armed /\ n.clocks = led.clocks
<1> DEFINE a == IF led.ends = {} THEN 0 ELSE Cardinality(led.ends) - 1
           p == IF led.left > 0 THEN led.lots ELSE {}
<1>1. led.left \in Nat
  BY DEF Ledgers
<1>2. a \in Nat
  <2>1. IsFiniteSet(1..led.left)
    BY <1>1, FS_Interval
  <2>2. IsFiniteSet(led.ends)
    BY <2>1, FS_Subset
  <2>3. Cardinality(led.ends) \in Nat /\ (Cardinality(led.ends) = 0 <=> led.ends = {})
    BY <2>2, FS_CardinalityType, FS_EmptySet
  <2> QED
    BY <2>3
<1>3. led.left = 0 \/ led.ends = {led.left} => a = 0
  <2>1. CASE led.left = 0
    BY <2>1
  <2>2. CASE led.ends = {led.left}
    <3>1. Cardinality({led.left}) = 1
      BY FS_Singleton
    <3> QED
      BY <3>1, <2>2
  <2> QED
    BY <2>1, <2>2
<1>4. p \in SUBSET Nat
  BY DEF Ledgers
<1> DEFINE n == [price |-> p, adds |-> a, tpDone |-> led.tpDone, armed |-> led.armed,
                 confirm |-> 0, clocks |-> led.clocks]
<1>5. RecoveredMemory(led) = n
  BY Zenon DEF RecoveredMemory
<1> HIDE DEF a, p
<1>6. /\ n \in Memories /\ n.price = p /\ n.adds = a
      /\ n.tpDone = led.tpDone /\ n.armed = led.armed /\ n.clocks = led.clocks
  BY <1>2, <1>4 DEF Memories, Ledgers
<1> HIDE DEF n
<1> QED
  BY <1>3, <1>5, <1>6, Zenon DEF p

-----------------------------------------------------------------------------
(* Orders                                                                  *)

LEMMA NoOrderFields ==
  /\ NoOrder \in Orders /\ NoOrder.stage = "none" /\ NoOrder.kind = "entry"
  /\ ~NoOrder.partly /\ NoOrder.gross = 0
BY DEF NoOrder, Orders, Reasons

LEMMA StageFields ==
  ASSUME NEW o \in Orders, NEW s \in {"none", "sent", "filled", "acked"}, NEW g \in Int
  PROVE  /\ LET n == [o EXCEPT !.stage = s]
            IN  /\ n \in Orders /\ n.stage = s /\ n.kind = o.kind /\ n.id = o.id
                /\ n.qty = o.qty /\ n.reason = o.reason /\ n.partly = o.partly
                /\ n.gross = o.gross
         /\ LET n == [o EXCEPT !.stage = s, !.gross = g]
            IN  /\ n \in Orders /\ n.stage = s /\ n.kind = o.kind /\ n.id = o.id
                /\ n.qty = o.qty /\ n.reason = o.reason /\ n.partly = o.partly
                /\ n.gross = g
BY DEF Orders

\* The sale of a position that reached its target, whatever else the pass sees,
\* is a partial one in the record too.
LEMMA SellReasonTyped ==
  ASSUME NEW m, NEW F, Possible(F), ExitReasons(m, F) # {}
  PROVE  /\ SellReason(ExitReasons(m, F)) \in Reasons
         /\ PartialTriggered(m, F) => SellReason(ExitReasons(m, F)) = "partial_take_profit"
<1> DEFINE T == ExitReasons(m, F)
           Leads(i) == Priority[i] \in T /\ \A j \in 1..i - 1 : Priority[j] \notin T
           first == CHOOSE i \in 1..6 : Leads(i)
<1>1. T \subseteq {Priority[1], Priority[2], Priority[3], Priority[4], Priority[5], Priority[6]}
  BY DEF ExitReasons, Priority
<1>2. PartialTriggered(m, F) => Priority[1] \notin T /\ Priority[2] \in T
  BY DEF ExitReasons, Priority, PartialTriggered, Possible
<1>3. SellReason(T) = Priority[first]
  BY DEF SellReason
<1>4. T # {}
  OBVIOUS
<1> HIDE DEF T
<1>5. \E i \in 1..6 : Leads(i)
  <2>1. CASE Priority[1] \in T
    BY <2>1
  <2>2. CASE Priority[1] \notin T /\ Priority[2] \in T
    BY <2>2
  <2>3. CASE /\ Priority[1] \notin T /\ Priority[2] \notin T
             /\ Priority[3] \in T
    BY <2>3
  <2>4. CASE /\ Priority[1] \notin T /\ Priority[2] \notin T /\ Priority[3] \notin T
             /\ Priority[4] \in T
    BY <2>4
  <2>5. CASE /\ Priority[1] \notin T /\ Priority[2] \notin T /\ Priority[3] \notin T
             /\ Priority[4] \notin T /\ Priority[5] \in T
    BY <2>5
  <2>6. CASE /\ Priority[1] \notin T /\ Priority[2] \notin T /\ Priority[3] \notin T
             /\ Priority[4] \notin T /\ Priority[5] \notin T
    <3>1. Priority[6] \in T
      BY <1>1, <1>4, <2>6
    <3> QED
      BY <2>6, <3>1
  <2> QED
    BY <2>1, <2>2, <2>3, <2>4, <2>5, <2>6
<1>6. first \in 1..6 /\ Leads(first)
  BY <1>5, Zenon
<1> HIDE DEF first
<1>7. PartialTriggered(m, F) => first = 2
  BY <1>2, <1>6
<1>8. Priority[2] = "partial_take_profit"
  BY DEF Priority
<1> QED
  BY <1>3, <1>6, <1>7, <1>8 DEF T, Reasons

-----------------------------------------------------------------------------
(* Amounts                                                                 *)

LEMMA PositionHasAmount ==
  ASSUME Typed, NEW qty \in Nat
  PROVE  /\ IsPosition(qty) => qty > 0
         /\ ~TooSmall(qty) => qty > 0
         /\ Sellable(qty) => ~TooSmall(qty)
<1>1. /\ MinAmount \in Nat \ {0} /\ MinValue \in Nat /\ price \in Nat \ {0}
      /\ venue # "okx" => MinValue > 0
  BY BoundsTyped, VenueBounds DEF Typed
<1>2. qty = 0 => qty * price = 0
  BY <1>1
<1> QED
  BY <1>1, <1>2 DEF IsPosition, TooSmall, Sellable

LEMMA BalanceTyped == Typed => BaseFree \in Nat
BY DEF Typed, BaseFree

\* One more set of add-ons for each slip
LEMMA RepeatedTyped ==
  ASSUME NEW a \in Nat
  PROVE  /\ Repeated(a) \in Nat
         /\ Repeated(a + 1) = MaxAddOns + Repeated(a)
         /\ MaxAddOns * (1 + a) = MaxAddOns + Repeated(a)
         /\ MaxAddOns > 0 => a <= Repeated(a)
<1>1. MaxAddOns \in Nat
  BY BoundsTyped
<1>2. /\ MaxAddOns * a \in Nat /\ MaxAddOns * (a + 1) = MaxAddOns + MaxAddOns * a
      /\ MaxAddOns * (1 + a) = MaxAddOns + MaxAddOns * a
  BY <1>1
<1>3. MaxAddOns > 0 => a <= MaxAddOns * a
  <2>1. SUFFICES ASSUME MaxAddOns > 0 PROVE a <= MaxAddOns * a
    OBVIOUS
  <2> DEFINE m == MaxAddOns - 1
  <2>2. m \in Nat /\ MaxAddOns = m + 1
    BY <1>1, <2>1
  <2> HIDE DEF m
  <2>3. (m + 1) * a = m * a + a /\ m * a \in Nat
    BY <2>2
  <2> QED
    BY <2>2, <2>3
<1> QED
  BY <1>2, <1>3 DEF Repeated

LEMMA RepeatedGrows ==
  ASSUME NEW a \in Nat, NEW b \in Nat, a <= b
  PROVE  Repeated(a) <= Repeated(b)
<1>1. MaxAddOns \in Nat
  BY BoundsTyped
<1> DEFINE d == b - a
<1>2. d \in Nat /\ b = a + d
  OBVIOUS
<1> HIDE DEF d
<1>3. MaxAddOns * (a + d) = MaxAddOns * a + MaxAddOns * d
  BY <1>1, <1>2
<1>4. MaxAddOns * d \in Nat /\ MaxAddOns * a \in Nat
  BY <1>1, <1>2
<1> QED
  BY <1>2, <1>3, <1>4 DEF Repeated

-----------------------------------------------------------------------------
(* A pass keeps the invariant                                              *)

LEMMA LookFields ==
  ASSUME Inv, Passing, NEW F, NEW c, Look(F, c)
  PROVE  /\ up /\ order.stage = "none"
         /\ mem' = Looked(F, c)
         /\ mem' \in Memories /\ mem'.price = mem.price /\ mem'.clocks = mem.clocks
         /\ pnl' \in Int /\ pnl' = DailyResult /\ stale' = FALSE
         /\ missed' \in Nat /\ missed <= missed'
         /\ HasPosition => /\ mem'.adds = mem.adds /\ mem'.tpDone = mem.tpDone
                           /\ mem.armed => mem'.armed
                           /\ mem.price # {}
         /\ ~HasPosition => /\ mem'.adds = 0 /\ ~mem'.tpDone /\ ~mem'.armed
                            /\ held > 0 /\ missed = 0 => missed' = missed + 1
                            /\ held > 0 /\ (mem.tpDone \/ mem.adds > 0) => missed' = missed + 1
         /\ missed = 0 => BaseFree = held
<1>1. Typed /\ ViewTrue
  BY DEF Inv
<1>2. up /\ order.stage = "none" /\ ~coming /\ ~Unrecoverable
  BY DEF Passing
<1>3. mem' = Looked(F, c)
  BY DEF Look
<1>4. /\ mem' \in Memories /\ mem'.price = mem.price /\ mem'.clocks = mem.clocks
      /\ HasPosition => mem'.adds = mem.adds /\ mem'.tpDone = mem.tpDone
                        /\ (mem.armed => mem'.armed)
      /\ ~HasPosition => mem'.adds = 0 /\ ~mem'.tpDone /\ ~mem'.armed
  BY <1>1, <1>3, LookedFields
<1>5. pnl' = DailyResult /\ stale' = FALSE /\ pnl' \in Int
  BY <1>1 DEF Look, DailyResult, Typed
<1>6. /\ missed' \in Nat /\ missed <= missed'
      /\ LosesSight => missed' = missed + 1
  BY <1>1 DEF Look, Typed
<1>7. HasPosition => mem.price # {}
  BY <1>2 DEF Unrecoverable
<1>8. missed = 0 => BaseFree = held
  BY <1>1, <1>2 DEF ViewTrue, BaseFree
<1>9. ~HasPosition /\ held > 0 /\ (missed = 0 \/ mem.tpDone \/ mem.adds > 0) =>
        missed' = missed + 1
  BY <1>6 DEF LosesSight
<1> QED
  BY <1>2, <1>3, <1>4, <1>5, <1>6, <1>7, <1>8, <1>9, Zenon

\* Whatever a pass decides, what it remembers fits the position still, or it has
\* lost sight of it.
LEMMA PassKeeps ==
  ASSUME Inv, Passing, NEW F, NEW c, Look(F, c),
         UNCHANGED <<venue, up, exchange, price, stream, history, fills, life,
                     unrecorded, faults, moves>>,
         bought' \in Nat,
         order' \in Orders, order'.stage \in {"none", "sent"}, OrderFits'
  PROVE  Inv'
<1>1. /\ up /\ order.stage = "none"
      /\ mem' \in Memories /\ mem'.price = mem.price /\ mem'.clocks = mem.clocks
      /\ pnl' \in Int /\ pnl' = DailyResult /\ stale' = FALSE
      /\ missed' \in Nat /\ missed <= missed'
      /\ HasPosition => /\ mem'.adds = mem.adds /\ mem'.tpDone = mem.tpDone
                        /\ mem.armed => mem'.armed
                        /\ mem.price # {}
      /\ ~HasPosition => /\ mem'.adds = 0 /\ ~mem'.tpDone /\ ~mem'.armed
                         /\ held > 0 /\ missed = 0 => missed' = missed + 1
                         /\ held > 0 /\ (mem.tpDone \/ mem.adds > 0) => missed' = missed + 1
      /\ missed = 0 => BaseFree = held
  BY LookFields
<1>2. /\ venue' = venue /\ up' = up /\ held' = held /\ lots' = lots /\ price' = price
      /\ streaming' = streaming /\ coming' = coming /\ view' = view
      /\ ledger' = ledger /\ today' = today /\ fills' = fills /\ life' = life
      /\ unrecorded' = unrecorded /\ faults' = faults /\ moves' = moves
  BY DEF exchange, stream, history
<1>3. /\ mem \in Memories /\ life \in Lives /\ missed \in Nat /\ unrecorded \in Nat
      /\ held \in Nat /\ ledger \in Ledgers /\ MaxAddOns \in Nat
      /\ fills \in Clocks
  BY BoundsTyped DEF Inv, Typed
<1>4. Typed'
  BY <1>1, <1>2 DEF Inv, Typed
<1>5. ViewTrue'
  BY <1>1, <1>2, <1>3 DEF Inv, ViewTrue
<1>6. Sold' /\ Flat'
  BY <1>2 DEF Inv, Sold, Flat
<1>7. AddsCounted'
  <2>1. /\ life.adds <= missed + unrecorded
        /\ life.adds <= MaxAddOns + Repeated(missed)
        /\ life.adds <= mem.adds + Repeated(missed)
        /\ held = 0 => life.adds = 0
    <3>1. Pending("add_on", {"filled"}) = 0 /\ Pending("add_on", {"filled", "acked"}) = 0
      BY <1>1 DEF Pending, One, InStage
    <3>2. Repeated(missed) \in Nat
      BY <1>3, RepeatedTyped
    <3> QED
      BY <1>1, <1>3, <3>1, <3>2 DEF Inv, AddsCounted, Lives, Memories, Sold
  <2>2. /\ Repeated(missed) \in Nat /\ Repeated(missed') \in Nat
        /\ Repeated(missed) <= Repeated(missed')
        /\ Repeated(missed + 1) = MaxAddOns + Repeated(missed)
    BY <1>1, <1>3, RepeatedTyped, RepeatedGrows
  <2>3. life.adds <= mem'.adds + Repeated(missed')
    BY <1>1, <1>3, <2>1, <2>2 DEF Lives, Memories
  <2>4. ~InStage({"filled"})' /\ ~InStage({"filled", "acked"})'
    BY DEF InStage
  <2> QED
    <3>1. /\ life'.adds <= missed' + unrecorded'
          /\ life'.adds <= MaxAddOns + Repeated(missed')
          /\ life'.adds <= mem'.adds + Repeated(missed')
      BY <1>1, <1>2, <1>3, <2>1, <2>2, <2>3 DEF Lives, Memories
    <3>2. Pending("add_on", {"filled"})' = 0 /\ Pending("add_on", {"filled", "acked"})' = 0
      BY <2>4 DEF Pending, One
    <3>3. Repeated(missed)' = Repeated(missed')
      BY DEF Repeated
    <3> QED
      BY <1>1, <1>2, <1>3, <2>2, <3>1, <3>2, <3>3 DEF AddsCounted, Lives, Memories
<1>8. PartsCounted'
  <2>1. /\ mem.price # {} => life.parts <= One(mem.tpDone) + missed
        /\ ledger.left > 0 => life.parts <= One(ledger.tpDone) + missed + unrecorded
        /\ held = 0 => life.parts = 0
    BY <1>1, <1>3 DEF Inv, PartsCounted, Halving, InStage, One, Lives, Sold
  <2>2. mem.price # {} => life.parts <= One(mem'.tpDone) + missed'
    BY <1>1, <1>3, <2>1 DEF One, Lives, Memories
  <2>3. ~InStage({"filled"})' /\ ~InStage({"filled", "acked"})'
    BY DEF InStage
  <2> QED
    BY <1>1, <1>2, <1>3, <2>1, <2>2, <2>3 DEF PartsCounted, Halving, One, Lives
<1>9. Basis'
  BY <1>1, <1>2, <1>3 DEF Inv, Basis, InStage
<1>10. Recorded'
  <2>1. SUFFICES ASSUME Exact' PROVE Recorded'
    BY DEF Recorded
  <2>2. Exact /\ missed' = 0 /\ (held > 0 => HasPosition)
    BY <1>1, <1>2, <1>3, <2>1 DEF Exact
  <2>3. /\ IF held = 0 THEN ledger.left = 0
           ELSE ledger.left >= held /\ ledger.lots = lots /\ ledger.ends = {ledger.left}
        /\ mem.adds = 0
        /\ held > 0 => (mem.tpDone <=> ledger.tpDone) /\ (ledger.armed => mem.armed)
    BY <1>1, <2>2 DEF Inv, Recorded, InStage
  <2>4. mem'.adds = 0
    BY <1>1, <2>3
  <2>5. held > 0 => (mem'.tpDone <=> ledger.tpDone) /\ (ledger.armed => mem'.armed)
    BY <1>1, <2>2, <2>3, Zenon
  <2>6. ~InStage({"filled", "acked"})'
    BY DEF InStage
  <2> QED
    BY <1>2, <2>3, <2>4, <2>5, <2>6 DEF Recorded
<1>11. ClocksKept'
  BY <1>1, <1>2, <1>3 DEF Inv, ClocksKept, InStage, Exact
<1>12. LossesKept'
  BY <1>1, <1>2, <1>3 DEF Inv, LossesKept, InStage, DailyResult, Typed
<1> QED
  BY <1>4, <1>5, <1>6, <1>7, <1>8, <1>9, <1>10, <1>11, <1>12 DEF Inv

LEMMA WaitKeeps == Inv /\ Wait => Inv'
<1>1. SUFFICES ASSUME Inv, Wait PROVE Inv'
  OBVIOUS
<1>2. Passing /\ order' = order /\ order.stage = "none"
  BY <1>1 DEF Wait, Passing
<1>3. PICK F \in Seen, c \in BOOLEAN : Look(F, c)
  BY <1>1, Zenon DEF Wait
<1>4. /\ order' \in Orders /\ bought' \in Nat
      /\ UNCHANGED <<venue, up, exchange, price, stream, history, fills, life,
                     unrecorded, faults, moves>>
  BY <1>1 DEF Wait, Inv, Typed
<1>5. OrderFits'
  BY <1>1, <1>2 DEF Inv, OrderFits, EntryFits, AddOnFits, SellFits, InStage, IsKind
<1> QED
  BY <1>1, <1>2, <1>3, <1>4, <1>5, PassKeeps

LEMMA SubmitEntryKeeps == Inv /\ SubmitEntry => Inv'
<1>1. SUFFICES ASSUME Inv, SubmitEntry PROVE Inv'
  OBVIOUS
<1>2. Passing
  BY <1>1 DEF SubmitEntry
<1>3. PICK F \in Seen : Look(F, TRUE) /\ EntryReady(Looked(F, TRUE))
  BY <1>1, Zenon DEF SubmitEntry
<1>4. Typed /\ BaseFree \in Int /\ bought \in Nat
  BY <1>1, BalanceTyped DEF Inv, Typed
<1>5. order' = [[NoOrder EXCEPT !.kind = "entry", !.id = bought]
                  EXCEPT !.stage = "sent", !.base = BaseFree]
  BY <1>1 DEF SubmitEntry, Submit
<1>6. order' \in Orders /\ order'.stage = "sent" /\ order'.kind = "entry" /\ order'.gross = 0
  BY <1>4, <1>5, NoOrderFields DEF Orders
<1>7. /\ bought' \in Nat
      /\ UNCHANGED <<venue, up, exchange, price, stream, history, fills, life,
                     unrecorded, faults, moves>>
  BY <1>1, <1>4 DEF SubmitEntry, Submit
<1>8. ~HasPosition
  BY <1>3 DEF EntryReady
<1>9. /\ ~mem'.tpDone /\ ~mem'.armed /\ mem'.adds = 0
      /\ held > 0 => missed' > 0
      /\ up
  <2>1. /\ ~mem'.tpDone /\ ~mem'.armed /\ mem'.adds = 0 /\ up
        /\ missed' \in Nat /\ missed <= missed'
        /\ held > 0 /\ missed = 0 => missed' = missed + 1
    BY <1>1, <1>2, <1>3, <1>8, LookFields, Zenon
  <2> QED
    BY <1>4, <2>1 DEF Typed
<1>10. held' = held /\ up' = up
  BY <1>7 DEF exchange
<1>11. OrderFits'
  BY <1>6, <1>9, <1>10 DEF OrderFits, EntryFits, AddOnFits, SellFits, InStage, IsKind
<1> QED
  BY <1>1, <1>2, <1>3, <1>6, <1>7, <1>11, PassKeeps

LEMMA SubmitAddOnKeeps == Inv /\ SubmitAddOn => Inv'
<1>1. SUFFICES ASSUME Inv, SubmitAddOn PROVE Inv'
  OBVIOUS
<1>2. Passing
  BY <1>1 DEF SubmitAddOn
<1>3. PICK F \in Seen : Look(F, FALSE) /\ AddOnReady(Looked(F, FALSE), F)
  BY <1>1, Zenon DEF SubmitAddOn
<1>4. Typed /\ BaseFree \in Nat /\ bought \in Nat
  BY <1>1, BalanceTyped DEF Inv, Typed
<1>5. order' = [[NoOrder EXCEPT !.kind = "add_on", !.id = bought]
                  EXCEPT !.stage = "sent", !.base = BaseFree]
  BY <1>1 DEF SubmitAddOn, Submit
<1>6. order' \in Orders /\ order'.stage = "sent" /\ order'.kind = "add_on" /\ order'.gross = 0
  <2>1. BaseFree \in Int /\ bought \in Nat
    BY <1>4
  <2> QED
    BY <1>5, <2>1, NoOrderFields DEF Orders
<1>7. /\ bought' \in Nat
      /\ UNCHANGED <<venue, up, exchange, price, stream, history, fills, life,
                     unrecorded, faults, moves>>
  BY <1>1, <1>4 DEF SubmitAddOn, Submit
<1>8. HasPosition
  BY <1>3 DEF AddOnReady
<1>9. /\ mem' = Looked(F, FALSE) /\ up
      /\ missed' \in Nat /\ missed <= missed'
      /\ mem'.price = mem.price /\ mem.price # {}
      /\ missed = 0 => BaseFree = held
  BY <1>1, <1>2, <1>3, <1>8, LookFields, Zenon
<1>10. mem'.adds < MaxAddOns
  BY <1>3, <1>9 DEF AddOnReady
<1>11. BaseFree > 0
  BY <1>4, <1>8, PositionHasAmount DEF HasPosition
<1>12. held = 0 => missed' > 0
  BY <1>4, <1>9, <1>11 DEF Typed
<1>13. held' = held /\ up' = up
  BY <1>7 DEF exchange
<1>14. OrderFits'
  BY <1>6, <1>9, <1>10, <1>12, <1>13
  DEF OrderFits, EntryFits, AddOnFits, SellFits, InStage, IsKind
<1> QED
  BY <1>1, <1>2, <1>3, <1>6, <1>7, <1>14, PassKeeps

LEMMA SubmitSellKeeps == Inv /\ SubmitSell => Inv'
<1>1. SUFFICES ASSUME Inv, SubmitSell PROVE Inv'
  OBVIOUS
<1>2. Passing
  BY <1>1 DEF SubmitSell
<1>3. PICK F \in Seen : /\ Look(F, FALSE) /\ ExitReady(Looked(F, FALSE), F)
                        /\ Submit(SellOrder(Looked(F, FALSE), F))
  BY <1>1, Zenon DEF SubmitSell
<1> DEFINE seen == Looked(F, FALSE)
           partial == PartialTriggered(mem, F) /\ Halves
           reason == SellReason(ExitReasons(seen, F))
           qty == IF partial THEN Part ELSE BaseFree
<1>4. Typed /\ BaseFree \in Nat /\ bought \in Nat
  BY <1>1, BalanceTyped DEF Inv, Typed
<1>5. HasPosition /\ ExitReasons(seen, F) # {} /\ Sellable(BaseFree)
  BY <1>3 DEF ExitReady
<1>6. Possible(F)
  BY BtcBotAssumption, Zenon DEF Seen
<1>7. /\ mem' = seen /\ up
      /\ missed' \in Nat /\ missed <= missed'
      /\ mem'.price = mem.price /\ mem.price # {} /\ mem'.tpDone = mem.tpDone
      /\ missed = 0 => BaseFree = held
  BY <1>1, <1>2, <1>3, <1>5, LookFields, Zenon
<1>8. PartialTriggered(mem, F) => PartialTriggered(seen, F)
  BY <1>7, Zenon DEF PartialTriggered
<1>9. reason \in Reasons /\ (partial => reason = "partial_take_profit")
  BY <1>5, <1>6, <1>8, SellReasonTyped, Zenon
<1>10. /\ partial \in BOOLEAN
       /\ partial => ~mem'.tpDone
  BY <1>7, Zenon DEF PartialTriggered
<1>11. /\ qty \in Nat /\ qty > 0
       /\ IF partial THEN qty < BaseFree ELSE qty = BaseFree
  <2>1. BaseFree > 0
    BY <1>4, <1>5, PositionHasAmount
  <2>2. Part \in Nat /\ BaseFree - Part \in Nat
    BY <1>4 DEF Part
  <2>3. Halves => Part > 0 /\ BaseFree - Part > 0
    BY <1>4, <2>2, PositionHasAmount DEF Halves
  <2> QED
    BY <1>4, <2>1, <2>2, <2>3
<1>12. order' = [[NoOrder EXCEPT !.kind = "sell", !.reason = reason, !.partly = partial,
                                 !.qty = qty]
                   EXCEPT !.stage = "sent", !.base = BaseFree]
  BY <1>3 DEF Submit, SellOrder
<1> HIDE DEF seen, partial, reason, qty
<1>13. /\ order' \in Orders /\ order'.stage = "sent" /\ order'.kind = "sell"
       /\ order'.gross = 0 /\ order'.partly = partial /\ order'.reason = reason
       /\ order'.qty = qty
  <2>1. BaseFree \in Int /\ reason \in Reasons /\ partial \in BOOLEAN /\ qty \in Nat
    BY <1>4, <1>9, <1>10, <1>11
  <2> QED
    BY <1>12, <2>1, NoOrderFields DEF Orders
<1>14. /\ bought' \in Nat
       /\ UNCHANGED <<venue, up, exchange, price, stream, history, fills, life,
                      unrecorded, faults, moves>>
  BY <1>1, <1>4 DEF SubmitSell, Submit
<1>15. held' = held /\ up' = up
  BY <1>14 DEF exchange
<1>16. missed' = 0 => BaseFree = held
  BY <1>4, <1>7 DEF Typed
<1>17. SellFits'
  BY <1>4, <1>7, <1>9, <1>10, <1>11, <1>13, <1>15, <1>16 DEF SellFits, InStage, IsKind, Typed
<1>18. OrderFits'
  BY <1>7, <1>13, <1>15, <1>17 DEF OrderFits, EntryFits, AddOnFits, InStage, IsKind
<1> QED
  BY <1>1, <1>2, <1>3, <1>13, <1>14, <1>18, PassKeeps

-----------------------------------------------------------------------------
(* The exchange keeps the invariant                                        *)

LEMMA FillsFields ==
  ASSUME Inv, ExchangeFills
  PROVE  /\ up /\ order.stage = "sent"
         /\ order' \in Orders /\ order'.stage = "filled" /\ order'.kind = order.kind
         /\ order'.id = order.id /\ order'.qty = order.qty /\ order'.reason = order.reason
         /\ order'.partly = order.partly /\ order'.gross = order.gross
         /\ missed' \in Nat /\ missed <= missed'
         /\ coming' = streaming
         /\ missed' = 0 => streaming \/ view = Unknown
         /\ held' \in Nat /\ lots' \in SUBSET Nat /\ life' \in Lives
         /\ fills' = Applied(fills, ProfitReasons) /\ fills' \in Clocks
         /\ order.kind # "sell" =>
              /\ held' > 0 /\ held' <= held + BuyAmount /\ lots' = lots \cup {order.id}
              /\ order.kind = "entry" => life'.adds = 0 /\ life'.parts = 0
              /\ order.kind = "add_on" => life'.adds = life.adds + 1 /\ life'.parts = life.parts
         /\ order.kind = "sell" =>
              /\ order.qty <= held /\ held' = held - order.qty
              /\ held' = 0 => lots' = {}
              /\ held' > 0 => lots' = lots
              /\ order.partly /\ held' > 0 =>
                   life'.adds = life.adds /\ life'.parts = life.parts + 1
              /\ ~(order.partly /\ held' > 0) => life'.adds = 0 /\ life'.parts = 0
<1>1. Typed /\ OrderFits
  BY DEF Inv
<1>2. /\ order \in Orders /\ held \in Nat /\ lots \in SUBSET Nat /\ life \in Lives
      /\ missed \in Nat /\ fills \in Clocks
  BY <1>1 DEF Typed
<1>3. order.stage = "sent" /\ up
  BY <1>1 DEF ExchangeFills, OrderFits, InStage, Typed
<1>4. order' = [order EXCEPT !.stage = "filled"]
  BY DEF ExchangeFills
<1>5. /\ order' \in Orders /\ order'.stage = "filled" /\ order'.kind = order.kind
      /\ order'.id = order.id /\ order'.qty = order.qty /\ order'.reason = order.reason
      /\ order'.partly = order.partly /\ order'.gross = order.gross
  BY <1>2, <1>4 DEF Orders
<1>6. /\ missed' \in Nat /\ missed <= missed'
      /\ coming' = streaming
      /\ missed' = 0 => streaming \/ view = Unknown
  BY <1>2 DEF ExchangeFills, Report
<1>7. CASE order.kind # "sell"
  <2>1. ExecuteBuy
    BY <1>7 DEF ExchangeFills
  <2>2. PICK q \in BuyFills : held' = held + q
    BY <2>1 DEF ExecuteBuy
  <2>3. q \in Nat /\ q > 0 /\ q <= BuyAmount
    BY <2>2, BoundsTyped
  <2>4. /\ lots' = lots \cup {order.id} /\ fills' = TradeClocks(fills)
        /\ order.id \in Nat
    BY <1>2, <2>1 DEF ExecuteBuy, Orders
  <2>5. fills' = Applied(fills, ProfitReasons)
    BY <1>7, <2>4 DEF Applied, IsKind
  <2>6. fills' \in Clocks
    BY <1>2, <2>4, ClocksTyped
  <2>7. /\ life' \in Lives
        /\ order.kind = "entry" => life'.adds = 0 /\ life'.parts = 0
        /\ order.kind = "add_on" => life'.adds = life.adds + 1 /\ life'.parts = life.parts
    BY <1>2, <2>1 DEF ExecuteBuy, Lives, NewLife
  <2>8. held' \in Nat /\ held' > 0 /\ held' <= held + BuyAmount
    BY <1>2, <2>2, <2>3, BoundsTyped
  <2>9. lots' \in SUBSET Nat
    BY <1>2, <2>4
  <2> QED
    BY <1>3, <1>5, <1>6, <1>7, <2>4, <2>5, <2>6, <2>7, <2>8, <2>9, Zenon
<1>8. CASE order.kind = "sell"
  <2>1. ExecuteSell
    BY <1>8 DEF ExchangeFills
  <2>2. order.qty \in Nat /\ order.qty <= held /\ held' = held - order.qty /\ held' \in Nat
    BY <1>2, <2>1 DEF ExecuteSell, Covered, Orders
  <2>3. /\ held' = 0 => lots' = {}
        /\ held' > 0 => lots' = lots
        /\ lots' \in SUBSET Nat
    BY <1>2, <2>1 DEF ExecuteSell
  <2>4. fills' = SaleClocks(fills, order.reason, ProfitReasons)
    BY <2>1 DEF ExecuteSell
  <2>5. fills' = Applied(fills, ProfitReasons)
    BY <1>8, <2>4 DEF Applied, IsKind
  <2>6. fills' \in Clocks
    BY <1>2, <2>4, ClocksTyped
  <2>7. /\ order.partly /\ held' > 0 =>
             life'.adds = life.adds /\ life'.parts = life.parts + 1
        /\ ~(order.partly /\ held' > 0) => life'.adds = 0 /\ life'.parts = 0
        /\ life' \in Lives
    <3>1. CASE order.partly /\ held' > 0
      BY <1>2, <2>1, <3>1 DEF ExecuteSell, Lives
    <3>2. CASE ~(order.partly /\ held' > 0)
      <4>1. life' = NewLife
        BY <2>1, <3>2, Zenon DEF ExecuteSell
      <4> QED
        BY <3>2, <4>1 DEF NewLife, Lives
    <3> QED
      BY <3>1, <3>2
  <2> QED
    BY <1>3, <1>5, <1>6, <1>8, <2>2, <2>3, <2>5, <2>6, <2>7, Zenon
<1> QED
  BY <1>7, <1>8

LEMMA ExchangeFillsKeeps == Inv /\ ExchangeFills => Inv'
<1>1. SUFFICES ASSUME Inv, ExchangeFills PROVE Inv'
  OBVIOUS
<1>2. /\ up /\ order.stage = "sent"
      /\ order' \in Orders /\ order'.stage = "filled" /\ order'.kind = order.kind
      /\ order'.id = order.id /\ order'.qty = order.qty /\ order'.reason = order.reason
      /\ order'.partly = order.partly /\ order'.gross = order.gross
      /\ missed' \in Nat /\ missed <= missed'
      /\ coming' = streaming
      /\ missed' = 0 => streaming \/ view = Unknown
      /\ held' \in Nat /\ lots' \in SUBSET Nat /\ life' \in Lives
      /\ fills' = Applied(fills, ProfitReasons) /\ fills' \in Clocks
  BY <1>1, FillsFields
<1>3. order.kind # "sell" =>
        /\ held' > 0 /\ held' <= held + BuyAmount /\ lots' = lots \cup {order.id}
        /\ order.kind = "entry" => life'.adds = 0 /\ life'.parts = 0
        /\ order.kind = "add_on" => life'.adds = life.adds + 1 /\ life'.parts = life.parts
  BY <1>1, FillsFields
<1>4. order.kind = "sell" =>
        /\ order.qty <= held /\ held' = held - order.qty
        /\ held' = 0 => lots' = {}
        /\ held' > 0 => lots' = lots
        /\ order.partly /\ held' > 0 => life'.adds = life.adds /\ life'.parts = life.parts + 1
        /\ ~(order.partly /\ held' > 0) => life'.adds = 0 /\ life'.parts = 0
  BY <1>1, FillsFields
<1>5. UNCHANGED <<venue, up, mem, pnl, price, streaming, view, ledger, today, stale,
                  unrecorded, bought, faults, moves>>
  BY <1>1 DEF ExchangeFills, history
<1>6. /\ mem \in Memories /\ life \in Lives /\ missed \in Nat /\ unrecorded \in Nat
      /\ held \in Nat /\ ledger \in Ledgers /\ MaxAddOns \in Nat /\ BuyAmount \in Nat
      /\ fills \in Clocks /\ order \in Orders
  BY <1>1, BoundsTyped DEF Inv, Typed
<1>7. order.kind \in {"entry", "add_on", "sell"} /\ order.qty \in Nat /\ order.partly \in BOOLEAN
  BY <1>6 DEF Orders
\* What the sent order promised
<1>8. /\ order.kind = "entry" => /\ ~mem.tpDone /\ ~mem.armed /\ mem.adds = 0
                                 /\ held > 0 => missed > 0
      /\ order.kind = "add_on" => /\ mem.adds < MaxAddOns /\ mem.price # {}
                                  /\ held = 0 => missed > 0
      /\ order.kind = "sell" =>
           /\ order.qty > 0 /\ mem.price # {}
           /\ order.partly => order.reason = "partial_take_profit" /\ ~mem.tpDone
           /\ missed = 0 => IF order.partly THEN order.qty < held ELSE order.qty = held
      /\ order.kind # "sell" => order.gross = 0
  BY <1>1, <1>2, Zenon DEF Inv, OrderFits, EntryFits, AddOnFits, SellFits, InStage, IsKind
<1>9. Typed'
  BY <1>1, <1>2, <1>5 DEF Inv, Typed
<1>10. ViewTrue'
  BY <1>1, <1>2, <1>5 DEF ViewTrue
<1>11. OrderFits'
  <2>1. EntryFits'
    BY <1>2, <1>3, <1>5, <1>8 DEF EntryFits, InStage, IsKind
  <2>2. AddOnFits'
    BY <1>2, <1>3, <1>5, <1>8 DEF AddOnFits, InStage, IsKind
  <2>3. SellFits'
    <3>1. missed' = 0 => missed = 0
      BY <1>2, <1>6
    <3>2. order.kind = "sell" /\ missed = 0 =>
            IF order.partly THEN held' > 0 ELSE held' = 0
      BY <1>4, <1>6, <1>7, <1>8
    <3> QED
      BY <1>2, <1>4, <1>5, <1>8, <3>1, <3>2, Zenon DEF SellFits, InStage, IsKind
  <2> QED
    BY <1>2, <1>5, <1>8, <2>1, <2>2, <2>3 DEF OrderFits, IsKind
<1>12. Sold'
  BY <1>3, <1>4, <1>7 DEF Sold
<1>13. Flat'
  BY <1>1, <1>5 DEF Inv, Flat
<1>14. AddsCounted'
  <2>1. /\ life.adds <= missed + unrecorded
        /\ life.adds <= MaxAddOns + Repeated(missed)
        /\ life.adds <= mem.adds + Repeated(missed)
        /\ Repeated(missed) \in Nat /\ Repeated(missed') \in Nat
        /\ Repeated(missed) <= Repeated(missed')
    <3>1. Pending("add_on", {"filled"}) = 0 /\ Pending("add_on", {"filled", "acked"}) = 0
      BY <1>2 DEF Pending, One, InStage
    <3>2. /\ Repeated(missed) \in Nat /\ Repeated(missed') \in Nat
          /\ Repeated(missed) <= Repeated(missed')
      BY <1>2, <1>6, RepeatedTyped, RepeatedGrows
    <3> QED
      BY <1>1, <1>2, <1>6, <3>1, <3>2 DEF Inv, AddsCounted, Lives, Memories
  <2>2. /\ Pending("add_on", {"filled"})' = IF order.kind = "add_on" THEN 1 ELSE 0
        /\ Pending("add_on", {"filled", "acked"})' = IF order.kind = "add_on" THEN 1 ELSE 0
    BY <1>2 DEF Pending, One, InStage, IsKind
  <2>3. life'.adds <= life.adds + (IF order.kind = "add_on" THEN 1 ELSE 0)
    BY <1>3, <1>4, <1>6, <1>7 DEF Lives
  <2>4. /\ life'.adds <= missed' + unrecorded' + (IF order.kind = "add_on" THEN 1 ELSE 0)
        /\ life'.adds <= MaxAddOns + Repeated(missed')
        /\ life'.adds <= mem'.adds + Repeated(missed') + (IF order.kind = "add_on" THEN 1 ELSE 0)
    <3>1. life.adds \in Nat /\ mem.adds \in Nat /\ life'.adds \in Nat
      BY <1>2, <1>6 DEF Lives, Memories
    <3> QED
      BY <1>2, <1>5, <1>6, <1>8, <2>1, <2>3, <3>1
  <2>5. Repeated(missed)' = Repeated(missed')
    BY DEF Repeated
  <2> QED
    BY <2>2, <2>4, <2>5 DEF AddsCounted
<1>15. PartsCounted'
  <2>1. /\ mem.price # {} => life.parts <= One(mem.tpDone) + missed
        /\ ledger.left > 0 => life.parts <= One(ledger.tpDone) + missed + unrecorded
    <3>1. Halving({"filled"}) = 0 /\ Halving({"filled", "acked"}) = 0
      BY <1>2 DEF Halving, One, InStage
    <3> QED
      BY <1>1, <1>2, <1>6, <3>1 DEF Inv, PartsCounted, One, Lives
  <2>2. /\ Halving({"filled"})' = One(order.partly /\ order.kind = "sell")
        /\ Halving({"filled", "acked"})' = One(order.partly /\ order.kind = "sell")
    BY <1>2 DEF Halving, One, InStage, IsKind
  <2>3. life'.parts <= life.parts + One(order.partly /\ order.kind = "sell")
    BY <1>3, <1>4, <1>6, <1>7 DEF Lives, One
  <2>4. /\ mem'.price # {} =>
             life'.parts <= One(mem'.tpDone) + missed' + One(order.partly /\ order.kind = "sell")
        /\ ledger'.left > 0 =>
             life'.parts <= One(ledger'.tpDone) + missed' + unrecorded'
                              + One(order.partly /\ order.kind = "sell")
    <3>1. /\ life.parts \in Nat /\ life'.parts \in Nat
          /\ One(order.partly /\ order.kind = "sell") \in Nat
          /\ One(mem.tpDone) \in Nat /\ One(ledger.tpDone) \in Nat
      BY <1>2, <1>6 DEF Lives, One
    <3> QED
      BY <1>2, <1>5, <1>6, <2>1, <2>3, <3>1
  <2>5. One(mem.tpDone)' = One(mem'.tpDone) /\ One(ledger.tpDone)' = One(ledger'.tpDone)
    BY DEF One
  <2> QED
    BY <2>2, <2>4, <2>5 DEF PartsCounted
<1>16. Basis'
  <2>1. SUFFICES ASSUME missed' = 0, held' > 0
                 PROVE  lots' = IF order.kind = "entry" THEN {order.id}
                                ELSE IF order.kind = "add_on" THEN mem.price \cup {order.id}
                                ELSE mem.price
    BY <1>2, <1>5, Zenon DEF Basis, InStage, IsKind
  <2>2. missed = 0
    BY <1>2, <1>6, <2>1
  <2>3. held > 0 => lots = mem.price
    BY <1>1, <1>2, <2>2 DEF Inv, Basis, InStage
  <2>4. held = 0 => lots = {}
    BY <1>1 DEF Inv, Sold
  <2> QED
    BY <1>3, <1>4, <1>6, <1>7, <1>8, <2>1, <2>2, <2>3, <2>4
<1>17. Recorded'
  <2>1. SUFFICES ASSUME Exact' PROVE Recorded'
    BY DEF Recorded
  <2>2. Exact /\ missed = 0
    BY <1>2, <1>5, <1>6, <2>1 DEF Exact
  <2>3. /\ IF held = 0 THEN ledger.left = 0
           ELSE ledger.left >= held /\ ledger.lots = lots /\ ledger.ends = {ledger.left}
        /\ mem.adds = 0
    BY <1>1, <1>2, <2>2 DEF Inv, Recorded, InStage
  <2>4. held = 0 => lots = {}
    BY <1>1 DEF Inv, Sold
  <2>5. order.kind = "entry" => ledger.left = 0 /\ held' <= BuyAmount /\ lots' = {order.id}
    BY <1>3, <1>6, <1>8, <2>2, <2>3, <2>4
  <2>6. order.kind = "sell" => /\ ledger.left > 0 /\ ledger.left >= held' + order.qty
                               /\ ledger.ends = {ledger.left}
                               /\ held' > 0 => ledger.lots = lots'
    <3>1. ledger.left \in Nat
      BY <1>6 DEF Ledgers
    <3> QED
      BY <1>2, <1>4, <1>6, <1>7, <1>8, <2>2, <2>3, <3>1
  <2> QED
    BY <1>2, <1>5, <2>3, <2>5, <2>6 DEF Recorded, InStage, IsKind
<1>18. ClocksKept'
  <2>1. missed' = 0 => NoLater(Applied(mem.clocks, ProfitReasons), fills')
    <3>1. SUFFICES ASSUME missed' = 0
                   PROVE  NoLater(Applied(mem.clocks, ProfitReasons), fills')
      OBVIOUS
    <3>2. missed = 0
      BY <1>2, <1>6, <3>1
    <3>3. NoLater(mem.clocks, fills) /\ mem.clocks \in Clocks
      BY <1>1, <1>2, <1>6, <3>2 DEF Inv, ClocksKept, InStage, Memories
    <3>4. /\ NoLater(TradeClocks(mem.clocks), TradeClocks(fills))
          /\ NoLater(SaleClocks(mem.clocks, order.reason, ProfitReasons),
                     SaleClocks(fills, order.reason, ProfitReasons))
      BY <1>6, <3>3, NoLaterKept
    <3> QED
      BY <1>2, <3>4, Zenon DEF Applied
  <2>2. Applied(mem.clocks, ProfitReasons)' = Applied(mem.clocks, ProfitReasons)
    BY <1>2, <1>5, Zenon DEF Applied, IsKind
  <2>3. Exact' => NoLater(ledger.clocks, mem.clocks)
    BY <1>1, <1>2, <1>5, <1>6 DEF Inv, ClocksKept, InStage, Exact
  <2> QED
    BY <1>2, <1>5, <2>1, <2>2, <2>3, Zenon DEF ClocksKept, InStage
<1>19. LossesKept'
  BY <1>1, <1>2, <1>5, <1>6 DEF Inv, LossesKept, InStage
<1> QED
  BY <1>9, <1>10, <1>11, <1>12, <1>13, <1>14, <1>15, <1>16, <1>17, <1>18, <1>19 DEF Inv

-----------------------------------------------------------------------------
(* Steps that leave position, memory and history alone                     *)

LEMMA SamePositionKeeps ==
  ASSUME Inv, Typed', ViewTrue', LossesKept',
         UNCHANGED <<up, mem, order, exchange, ledger, fills, life, missed, unrecorded>>
  PROVE  Inv'
<1>1. /\ up' = up /\ mem' = mem /\ order' = order /\ held' = held /\ lots' = lots
      /\ ledger' = ledger /\ fills' = fills /\ life' = life /\ missed' = missed
      /\ unrecorded' = unrecorded
  BY DEF exchange
<1>2. OrderFits'
  BY <1>1 DEF Inv, OrderFits, EntryFits, AddOnFits, SellFits, InStage, IsKind
<1>3. Sold' /\ Flat'
  BY <1>1 DEF Inv, Sold, Flat
<1>4. AddsCounted'
  BY <1>1 DEF Inv, AddsCounted, Repeated, Pending, InStage, IsKind, One
<1>5. PartsCounted'
  BY <1>1 DEF Inv, PartsCounted, Halving, InStage, IsKind, One
<1>6. Basis' /\ Recorded'
  BY <1>1 DEF Inv, Basis, Recorded, Exact, InStage, IsKind
<1>7. ClocksKept'
  BY <1>1 DEF Inv, ClocksKept, Exact, Applied, InStage, IsKind
<1> QED
  BY <1>2, <1>3, <1>4, <1>5, <1>6, <1>7 DEF Inv

\* A slip costs what the order in progress may have changed unnoticed.
LEMMA SlipKeeps ==
  ASSUME Inv, Typed', OrderFits', missed' = missed + 1, up' => up /\ mem' = mem,
         order'.stage \in {"none", "sent"} \/ order' = order,
         today' = today,
         UNCHANGED <<exchange, ledger, life, unrecorded>>
  PROVE  Inv'
<1>1. /\ held' = held /\ lots' = lots /\ ledger' = ledger /\ life' = life
      /\ unrecorded' = unrecorded
  BY DEF exchange
<1>2. /\ mem \in Memories /\ life \in Lives /\ missed \in Nat /\ unrecorded \in Nat
      /\ MaxAddOns \in Nat /\ missed' # 0
  BY BoundsTyped DEF Inv, Typed
<1>3. ViewTrue' /\ Basis' /\ Recorded' /\ ClocksKept'
  BY <1>2 DEF ViewTrue, Basis, Recorded, ClocksKept, Exact
<1>4. LossesKept'
  BY <1>2 DEF Inv, LossesKept
<1>5. Sold' /\ Flat'
  BY <1>1 DEF Inv, Sold, Flat
<1>6. AddsCounted'
  <2>1. /\ life.adds <= missed + unrecorded + 1
        /\ life.adds <= MaxAddOns + Repeated(missed)
        /\ up => life.adds <= mem.adds + Repeated(missed) + MaxAddOns
    <3>1. Pending("add_on", {"filled", "acked"}) \in {0, 1}
      BY DEF Pending, One
    <3>2. /\ Pending("add_on", {"filled"}) \in Nat
          /\ Pending("add_on", {"filled"}) <= MaxAddOns
      <4>1. CASE IsKind("add_on") /\ InStage({"filled"})
        <5>1. mem.adds < MaxAddOns
          BY <4>1 DEF Inv, OrderFits, AddOnFits, InStage
        <5>2. MaxAddOns >= 1
          BY <1>2, <5>1 DEF Memories
        <5> QED
          BY <1>2, <5>2 DEF Pending, One
      <4>2. CASE ~(IsKind("add_on") /\ InStage({"filled"}))
        BY <1>2, <4>2 DEF Pending, One
      <4> QED
        BY <4>1, <4>2
    <3>3. Repeated(missed) \in Nat /\ life.adds \in Nat /\ mem.adds \in Nat
      BY <1>2, RepeatedTyped DEF Lives, Memories
    <3>4. /\ life.adds <= missed + unrecorded + Pending("add_on", {"filled", "acked"})
          /\ life.adds <= MaxAddOns + Repeated(missed)
          /\ up => life.adds <= mem.adds + Repeated(missed) + Pending("add_on", {"filled"})
      BY DEF Inv, AddsCounted
    <3> QED
      BY <1>2, <3>1, <3>2, <3>3, <3>4
  <2>2. Repeated(missed') = MaxAddOns + Repeated(missed) /\ Repeated(missed) \in Nat
    BY <1>2, RepeatedTyped
  <2>3. Repeated(missed)' = Repeated(missed')
    BY DEF Repeated
  <2>4. Pending("add_on", {"filled", "acked"})' \in Nat /\ Pending("add_on", {"filled"})' \in Nat
    BY DEF Pending, One
  <2>5. /\ life'.adds <= missed' + unrecorded'
        /\ life'.adds <= MaxAddOns + Repeated(missed')
        /\ up' => life'.adds <= mem'.adds + Repeated(missed')
    BY <1>1, <1>2, <2>1, <2>2 DEF Lives, Memories
  <2>6. life'.adds \in Nat /\ missed' + unrecorded' \in Nat
        /\ (up' => mem'.adds + Repeated(missed') \in Nat)
    BY <1>1, <1>2, <2>2 DEF Lives, Memories
  <2> QED
    BY <2>3, <2>4, <2>5, <2>6 DEF AddsCounted
<1>7. PartsCounted'
  <2>1. /\ up /\ mem.price # {} => life.parts <= One(mem.tpDone) + missed + 1
        /\ ledger.left > 0 => life.parts <= One(ledger.tpDone) + missed + unrecorded + 1
    <3>1. Halving({"filled"}) \in {0, 1} /\ Halving({"filled", "acked"}) \in {0, 1}
      BY DEF Halving, One
    <3> QED
      BY <1>2, <3>1 DEF Inv, PartsCounted, One, Lives
  <2>2. Halving({"filled"})' \in Nat /\ Halving({"filled", "acked"})' \in Nat
    BY DEF Halving, One
  <2>3. /\ up' /\ mem'.price # {} => life'.parts <= One(mem'.tpDone) + missed'
        /\ ledger'.left > 0 => life'.parts <= One(ledger'.tpDone) + missed' + unrecorded'
    BY <1>1, <1>2, <2>1 DEF One, Lives
  <2>4. /\ One(mem'.tpDone) \in Nat /\ One(ledger'.tpDone) \in Nat /\ life'.parts \in Nat
        /\ missed' \in Nat /\ unrecorded' \in Nat
    BY <1>1, <1>2 DEF One, Lives
  <2>5. One(mem.tpDone)' = One(mem'.tpDone) /\ One(ledger.tpDone)' = One(ledger'.tpDone)
    BY DEF One
  <2> QED
    BY <2>2, <2>3, <2>4, <2>5 DEF PartsCounted
<1> QED
  BY <1>3, <1>4, <1>5, <1>6, <1>7 DEF Inv

LEMMA StreamKeeps ==
  Inv /\ (StreamDelivers \/ StreamStops \/ StreamReturns) => Inv'
<1>1. ASSUME Inv, StreamDelivers PROVE Inv'
  <2>1. UNCHANGED <<venue, up, mem, pnl, order, exchange, ledger, today, stale, fills, life,
                    missed, unrecorded>>
    BY <1>1 DEF StreamDelivers, bot, history, observers
  <2>2. Typed' /\ ViewTrue'
    BY <1>1 DEF Inv, StreamDelivers, bot, exchange, history, observers, Typed, ViewTrue
  <2>3. LossesKept'
    BY <1>1, <2>1 DEF Inv, LossesKept, InStage
  <2> QED
    BY <1>1, <2>1, <2>2, <2>3, SamePositionKeeps
<1>2. ASSUME Inv, StreamStops PROVE Inv'
  <2>1. UNCHANGED <<venue, up, mem, pnl, order, exchange, ledger, today, stale, fills, life,
                    unrecorded>>
    BY <1>2 DEF StreamStops, bot, history
  <2>2. Typed'
    <3>1. missed' \in Nat /\ faults' \in Nat
      BY <1>2 DEF Inv, StreamStops, Fault, Typed
    <3>2. /\ streaming' = FALSE /\ coming' = FALSE
          /\ price' = price /\ view' = view /\ bought' = bought /\ moves' = moves
      BY <1>2 DEF StreamStops
    <3> QED
      BY <1>2, <2>1, <3>1, <3>2 DEF Inv, exchange, Typed
  <2>3. CASE coming
    <3>1. missed' = missed + 1
      BY <1>2, <2>3 DEF StreamStops
    <3>2. missed \in Nat
      BY <1>2 DEF Inv, Typed
    <3>3. OrderFits'
      BY <1>2, <2>1, <3>1, <3>2
      DEF Inv, OrderFits, EntryFits, AddOnFits, SellFits, InStage, IsKind, exchange
    <3> QED
      BY <1>2, <2>1, <2>2, <3>1, <3>3, SlipKeeps
  <2>4. CASE ~coming
    <3>1. missed' = missed
      BY <1>2, <2>4 DEF Inv, Typed, StreamStops
    <3>2. ViewTrue'
      BY <1>2, <2>4 DEF Inv, StreamStops, Typed, ViewTrue, exchange
    <3>3. LossesKept'
      BY <1>2, <2>1, <3>1 DEF Inv, LossesKept, InStage
    <3> QED
      BY <1>2, <2>1, <2>2, <3>1, <3>2, <3>3, SamePositionKeeps
  <2> QED
    BY <2>3, <2>4
<1>3. ASSUME Inv, StreamReturns PROVE Inv'
  <2>1. UNCHANGED <<venue, up, mem, pnl, order, exchange, ledger, today, stale, fills, life,
                    missed, unrecorded>>
    BY <1>3 DEF StreamReturns, bot, history, observers
  <2>2. Typed' /\ ViewTrue'
    BY <1>3 DEF Inv, StreamReturns, bot, exchange, history, observers, Typed, ViewTrue
  <2>3. LossesKept'
    BY <1>3, <2>1 DEF Inv, LossesKept, InStage
  <2> QED
    BY <1>3, <2>1, <2>2, <2>3, SamePositionKeeps
<1> QED
  BY <1>1, <1>2, <1>3

LEMMA PriceMovesKeeps == Inv /\ PriceMoves => Inv'
<1>1. SUFFICES ASSUME Inv, PriceMoves PROVE Inv'
  OBVIOUS
<1>2. /\ UNCHANGED <<venue, up, mem, pnl, order, exchange, ledger, today, stale, fills, life,
                     missed, unrecorded>>
      /\ streaming' = streaming /\ coming' = coming /\ view' = view
      /\ bought' = bought /\ faults' = faults
  BY <1>1 DEF PriceMoves, bot, history, observers, stream
<1>3. moves' \in Nat /\ price' \in Prices
  BY <1>1 DEF PriceMoves, Inv, Typed
<1>4. Typed' /\ ViewTrue' /\ LossesKept'
  BY <1>1, <1>2, <1>3 DEF Inv, Typed, ViewTrue, LossesKept, InStage, exchange
<1> QED
  BY <1>1, <1>2, <1>4, SamePositionKeeps

LEMMA NewDayKeeps == Inv /\ NewDay => Inv'
<1>1. SUFFICES ASSUME Inv, NewDay PROVE Inv'
  OBVIOUS
<1>2. /\ UNCHANGED <<venue, up, mem, pnl, order, exchange, price, ledger, fills, life,
                     missed, unrecorded>>
      /\ streaming' = streaming /\ coming' = coming /\ view' = view
      /\ bought' = bought /\ faults' = faults /\ moves' = moves
      /\ today' = [gross |-> 0, net |-> 0] /\ stale' = TRUE
  BY <1>1 DEF NewDay, bot, observers, stream
<1>3. Typed' /\ ViewTrue' /\ LossesKept'
  BY <1>1, <1>2 DEF Inv, Typed, ViewTrue, LossesKept, InStage, exchange
<1> QED
  BY <1>1, <1>2, <1>3, SamePositionKeeps

\* Without an order there is nothing an order must fit.
LEMMA NoOrderFits ==
  ASSUME order' = NoOrder
  PROVE  OrderFits' /\ order' \in Orders
BY NoOrderFields DEF OrderFits, EntryFits, AddOnFits, SellFits, InStage, IsKind

LEMMA RejectedKeeps == Inv /\ Rejected => Inv'
<1>1. SUFFICES ASSUME Inv, Rejected PROVE Inv'
  OBVIOUS
<1>2. /\ UNCHANGED <<venue, up, mem, pnl, exchange, price, ledger, today, stale, fills, life,
                     missed, unrecorded>>
      /\ streaming' = streaming /\ coming' = coming /\ view' = view
      /\ bought' = bought /\ moves' = moves
      /\ order.stage = "sent" /\ order' = NoOrder
  BY <1>1 DEF Rejected, history, observers, stream
<1>3. faults' \in Nat
  BY <1>1 DEF Rejected, Fault, Inv, Typed
<1>4. OrderFits' /\ order' \in Orders
  BY <1>2, NoOrderFits
<1>5. order'.stage = "none" /\ ~order'.partly /\ order'.gross = 0
  BY <1>2, NoOrderFields
<1>6. /\ up' = up /\ mem' = mem /\ held' = held /\ lots' = lots
      /\ ledger' = ledger /\ fills' = fills /\ life' = life /\ missed' = missed
      /\ unrecorded' = unrecorded /\ pnl' = pnl /\ today' = today /\ stale' = stale
  BY <1>2 DEF exchange
<1>7. Typed' /\ ViewTrue' /\ LossesKept'
  BY <1>1, <1>2, <1>3, <1>4, <1>5, <1>6 DEF Inv, Typed, ViewTrue, LossesKept, InStage
<1>8. Sold' /\ Flat'
  BY <1>1, <1>6 DEF Inv, Sold, Flat
<1>9. AddsCounted'
  <2>1. \A S \in {{"filled"}, {"filled", "acked"}} :
          Pending("add_on", S) = 0 /\ Pending("add_on", S)' = 0
    BY <1>2, <1>5 DEF Pending, One, InStage
  <2> QED
    BY <1>1, <1>6, <2>1 DEF Inv, AddsCounted, Repeated
<1>10. PartsCounted'
  <2>1. \A S \in {{"filled"}, {"filled", "acked"}} : Halving(S) = 0 /\ Halving(S)' = 0
    BY <1>2, <1>5 DEF Halving, One, InStage
  <2> QED
    BY <1>1, <1>6, <2>1 DEF Inv, PartsCounted, One
<1>11. Basis' /\ Recorded'
  BY <1>1, <1>2, <1>5, <1>6 DEF Inv, Basis, Recorded, Exact, InStage, IsKind
<1>12. ClocksKept'
  BY <1>1, <1>2, <1>5, <1>6 DEF Inv, ClocksKept, Exact, InStage
<1> QED
  BY <1>4, <1>7, <1>8, <1>9, <1>10, <1>11, <1>12 DEF Inv

LEMMA ResponseLostKeeps == Inv /\ ResponseLost => Inv'
<1>1. SUFFICES ASSUME Inv, ResponseLost PROVE Inv'
  OBVIOUS
<1>2. /\ UNCHANGED <<venue, up, mem, pnl, exchange, price, ledger, today, stale, fills, life,
                     unrecorded>>
      /\ streaming' = streaming /\ coming' = coming /\ view' = view
      /\ bought' = bought /\ moves' = moves
      /\ order.stage = "filled" /\ missed' = missed + 1
      /\ order' = NoOrder \/ order' = [order EXCEPT !.stage = "sent"]
  BY <1>1 DEF ResponseLost, history, stream
<1>3. faults' \in Nat /\ missed' \in Nat /\ missed' > 0 /\ order \in Orders /\ up
  BY <1>1, <1>2 DEF ResponseLost, Fault, Inv, Typed, OrderFits, InStage
<1>4. /\ order' \in Orders /\ OrderFits'
      /\ order'.stage \in {"none", "sent"}
  <2>1. CASE order' = NoOrder
    BY <2>1, NoOrderFits, NoOrderFields
  <2>2. CASE order' = [order EXCEPT !.stage = "sent"]
    <3>1. /\ order' \in Orders /\ order'.stage = "sent" /\ order'.kind = order.kind
          /\ order'.qty = order.qty /\ order'.reason = order.reason
          /\ order'.partly = order.partly /\ order'.gross = order.gross
      BY <1>3, <2>2 DEF Orders
    <3>2. up' = up /\ mem' = mem /\ held' = held /\ life' = life
      BY <1>2 DEF exchange
    <3>3. EntryFits'
      BY <1>1, <1>2, <1>3, <3>1, <3>2 DEF Inv, OrderFits, EntryFits, InStage, IsKind
    <3>4. AddOnFits'
      BY <1>1, <1>2, <1>3, <3>1, <3>2 DEF Inv, OrderFits, AddOnFits, InStage, IsKind
    <3>5. SellFits'
      <4>1. order.kind = "sell" =>
              /\ order.qty > 0 /\ mem.price # {}
              /\ order.partly => order.reason = "partial_take_profit" /\ ~mem.tpDone
        BY <1>1, <1>2, Zenon DEF Inv, OrderFits, SellFits, InStage, IsKind
      <4>2. ~(missed' = 0)
        BY <1>3
      <4> QED
        BY <3>1, <3>2, <4>1, <4>2 DEF SellFits, InStage, IsKind
    <3> QED
      BY <1>1, <1>3, <3>1, <3>2, <3>3, <3>4, <3>5 DEF Inv, OrderFits, IsKind
  <2> QED
    BY <1>2, <2>1, <2>2
<1>5. Typed'
  BY <1>1, <1>2, <1>3, <1>4 DEF Inv, Typed, exchange
<1> QED
  BY <1>1, <1>2, <1>3, <1>4, <1>5, SlipKeeps

LEMMA BookkeepingFailsKeeps == Inv /\ BookkeepingFails => Inv'
<1>1. SUFFICES ASSUME Inv, BookkeepingFails PROVE Inv'
  OBVIOUS
<1>2. /\ UNCHANGED <<venue, up, mem, pnl, exchange, price, ledger, today, stale, fills, life,
                     unrecorded>>
      /\ streaming' = streaming /\ coming' = coming /\ view' = view
      /\ bought' = bought /\ moves' = moves
      /\ order.stage = "acked" /\ missed' = missed + 1 /\ order' = NoOrder
  BY <1>1 DEF BookkeepingFails, history, stream
<1>3. faults' \in Nat /\ missed' \in Nat /\ up
  BY <1>1, <1>2 DEF BookkeepingFails, Fault, Inv, Typed, OrderFits, InStage
<1>4. OrderFits' /\ order' \in Orders /\ order'.stage = "none"
  BY <1>2, NoOrderFits, NoOrderFields
<1>5. Typed'
  BY <1>1, <1>2, <1>3, <1>4 DEF Inv, Typed, exchange
<1> QED
  BY <1>1, <1>2, <1>3, <1>4, <1>5, SlipKeeps

-----------------------------------------------------------------------------
(* Crashes, restarts and time                                              *)

LEMMA CrashKeeps == Inv /\ Crash => Inv'
<1>1. SUFFICES ASSUME Inv, Crash PROVE Inv'
  OBVIOUS
<1>2. /\ UNCHANGED <<venue, exchange, price, ledger, today, stale, fills, life, unrecorded>>
      /\ streaming' = streaming /\ coming' = coming /\ view' = view
      /\ bought' = bought /\ moves' = moves
      /\ up /\ up' = FALSE /\ mem' = BlankMemory /\ pnl' = 0 /\ order' = NoOrder
      /\ missed' = missed + (IF order.stage \in {"filled", "acked"} THEN 1 ELSE 0)
  BY <1>1 DEF Crash, history, stream
<1>3. faults' \in Nat /\ missed' \in Nat
  BY <1>1 DEF Crash, Fault, Inv, Typed
<1>4. OrderFits' /\ order' \in Orders /\ order'.stage = "none" /\ ~order'.partly
  BY <1>2, NoOrderFits, NoOrderFields
<1>5. Typed'
  <2>1. mem' \in Memories /\ up' \in BOOLEAN /\ pnl' \in Int
    <3>1. BlankMemory \in Memories
      BY BlankTyped
    <3>2. mem' = BlankMemory /\ up' = FALSE /\ pnl' = 0
      BY <1>2
    <3>3. mem' \in Memories /\ up' \in BOOLEAN
      BY <3>1, <3>2, Zenon
    <3> QED
      BY <3>2, <3>3
  <2>2. UNCHANGED <<venue, held, lots, price, ledger, today, stale, fills, life, unrecorded>>
    BY <1>2 DEF exchange
  <2> QED
    BY <1>1, <1>2, <1>3, <1>4, <2>1, <2>2 DEF Inv, Typed
<1>6. CASE order.stage \in {"filled", "acked"}
  <2>1. missed' = missed + 1
    BY <1>2, <1>6
  <2> QED
    BY <1>1, <1>2, <1>4, <1>5, <2>1, SlipKeeps
<1>7. CASE order.stage \notin {"filled", "acked"}
  <2>1. missed' = missed
    BY <1>1, <1>2, <1>7 DEF Inv, Typed
  <2>2. /\ held' = held /\ lots' = lots /\ ledger' = ledger /\ fills' = fills
        /\ life' = life /\ unrecorded' = unrecorded /\ today' = today
    BY <1>2 DEF exchange
  <2>3. order.stage \in {"none", "sent"}
    BY <1>1, <1>7 DEF Inv, Typed, Orders
  <2>4. ViewTrue' /\ Sold' /\ Flat'
    BY <1>1, <1>2, <2>1, <2>2 DEF Inv, ViewTrue, Sold, Flat
  <2>5. AddsCounted'
    <3>1. \A S \in {{"filled"}, {"filled", "acked"}} :
            Pending("add_on", S) = 0 /\ Pending("add_on", S)' = 0
      BY <1>4, <2>3 DEF Pending, One, InStage
    <3> QED
      BY <1>1, <1>2, <2>1, <2>2, <3>1 DEF Inv, AddsCounted, Repeated
  <2>6. PartsCounted'
    <3>1. \A S \in {{"filled"}, {"filled", "acked"}} : Halving(S) = 0 /\ Halving(S)' = 0
      BY <1>4, <2>3 DEF Halving, One, InStage
    <3> QED
      BY <1>1, <1>2, <2>1, <2>2, <3>1 DEF Inv, PartsCounted, One
  <2>7. Basis' /\ LossesKept'
    BY <1>1, <1>2, <2>2 DEF Inv, Basis, LossesKept
  <2>8. Recorded'
    BY <1>1, <1>2, <1>4, <2>1, <2>2, <2>3 DEF Inv, Recorded, Exact, InStage
  <2>9. ClocksKept'
    <3>1. Exact => NoLater(ledger.clocks, mem.clocks) /\ NoLater(mem.clocks, fills)
      BY <1>1, <1>2, <2>3 DEF Inv, ClocksKept, Exact, InStage
    <3>2. ledger.clocks \in Clocks /\ mem.clocks \in Clocks /\ fills \in Clocks
      BY <1>1 DEF Inv, Typed, Ledgers, Memories
    <3>3. Exact => NoLater(ledger.clocks, fills)
      BY <3>1, <3>2, NoLaterTransitive
    <3> QED
      BY <1>2, <2>1, <2>2, <3>3 DEF ClocksKept, Exact
  <2> QED
    BY <1>4, <1>5, <2>4, <2>5, <2>6, <2>7, <2>8, <2>9 DEF Inv
<1> QED
  BY <1>6, <1>7

LEMMA StartKeeps == Inv /\ Start => Inv'
<1>1. SUFFICES ASSUME Inv, Start PROVE Inv'
  OBVIOUS
<1>2. /\ UNCHANGED <<venue, order, exchange, price, ledger, today, fills, life, bought,
                     faults, moves>>
      /\ streaming' = streaming /\ coming' = coming /\ view' = view
      /\ ~up /\ up' = TRUE /\ mem' = RecoveredMemory(ledger)
      /\ pnl' = today.net /\ stale' = FALSE
      /\ missed' = missed + unrecorded /\ unrecorded' = 0
  BY <1>1 DEF Start, history, stream
<1>3. /\ held' = held /\ lots' = lots /\ ledger' = ledger /\ fills' = fills
      /\ life' = life /\ order' = order /\ today' = today
  BY <1>2 DEF exchange
<1>4. /\ ledger \in Ledgers /\ ledger.ends \subseteq 1..ledger.left /\ life \in Lives
      /\ missed \in Nat /\ unrecorded \in Nat /\ MaxAddOns \in Nat /\ held \in Nat
      /\ order \in Orders
  BY <1>1, BoundsTyped DEF Inv, Typed
<1>5. /\ mem' \in Memories
      /\ mem'.price = IF ledger.left > 0 THEN ledger.lots ELSE {}
      /\ ledger.left = 0 \/ ledger.ends = {ledger.left} => mem'.adds = 0
      /\ mem'.tpDone = ledger.tpDone /\ mem'.armed = ledger.armed
      /\ mem'.clocks = ledger.clocks
  BY <1>2, <1>4, RecoveredFields
<1>6. order.stage = "none" /\ (order.kind # "sell" => order.gross = 0)
  BY <1>1, <1>2 DEF Inv, OrderFits, InStage, IsKind
<1>7. missed' \in Nat /\ missed <= missed' /\ (missed' = 0 => Exact)
  BY <1>2, <1>4 DEF Exact
<1>8. Typed'
  BY <1>1, <1>2, <1>5, <1>7 DEF Inv, Typed, exchange
<1>9. OrderFits'
  BY <1>3, <1>6 DEF OrderFits, EntryFits, AddOnFits, SellFits, InStage, IsKind
<1>10. ViewTrue'
  BY <1>1, <1>2, <1>3, <1>7 DEF Inv, ViewTrue, Exact
<1>11. Sold' /\ Flat'
  BY <1>1, <1>3 DEF Inv, Sold, Flat
<1>12. AddsCounted'
  <2>1. \A S \in {{"filled"}, {"filled", "acked"}} :
          Pending("add_on", S) = 0 /\ Pending("add_on", S)' = 0
    BY <1>3, <1>6 DEF Pending, One, InStage
  <2>2. /\ Repeated(missed) \in Nat /\ Repeated(missed') \in Nat
        /\ Repeated(missed) <= Repeated(missed')
        /\ MaxAddOns > 0 => missed' <= Repeated(missed')
        /\ MaxAddOns = 0 => Repeated(missed') = 0 /\ Repeated(missed) = 0
    <3>1. MaxAddOns = 0 => Repeated(missed') = 0 /\ Repeated(missed) = 0
      <4>1. missed \in Nat /\ missed' \in Nat
        BY <1>4, <1>7
      <4>2. \A n \in Nat : 0 * n = 0
        OBVIOUS
      <4> QED
        BY <4>1, <4>2 DEF Repeated
    <3>2. Repeated(missed) \in Nat /\ Repeated(missed) <= Repeated(missed')
      <4>1. missed \in Nat /\ missed' \in Nat /\ missed <= missed'
        BY <1>4, <1>7
      <4>2. Repeated(missed) \in Nat
        BY <4>1, RepeatedTyped
      <4> QED
        BY <4>1, <4>2, RepeatedGrows
    <3>3. Repeated(missed') \in Nat /\ (MaxAddOns > 0 => missed' <= Repeated(missed'))
      BY <1>7, RepeatedTyped
    <3> QED
      BY <3>1, <3>2, <3>3
  <2>3. life.adds <= missed' /\ life.adds <= MaxAddOns + Repeated(missed)
    BY <1>1, <1>2, <2>1 DEF Inv, AddsCounted
  <2>4. life.adds <= MaxAddOns + Repeated(missed') /\ life.adds <= mem'.adds + Repeated(missed')
    BY <1>4, <1>5, <1>7, <2>2, <2>3 DEF Lives, Memories
  <2>5. Repeated(missed)' = Repeated(missed')
    BY DEF Repeated
  <2>6. mem'.adds \in Nat
    BY <1>5 DEF Memories
  <2> QED
    BY <1>2, <1>3, <1>7, <2>1, <2>2, <2>3, <2>4, <2>5, <2>6 DEF AddsCounted
<1>13. PartsCounted'
  <2>1. \A S \in {{"filled"}, {"filled", "acked"}} : Halving(S) = 0 /\ Halving(S)' = 0
    BY <1>3, <1>6 DEF Halving, One, InStage
  <2>2. ledger.left > 0 => life.parts <= One(ledger.tpDone) + missed'
    BY <1>1, <1>2, <1>4, <2>1 DEF Inv, PartsCounted, One
  <2>3. One(mem.tpDone)' = One(ledger.tpDone) /\ One(ledger.tpDone)' = One(ledger.tpDone)
    BY <1>3, <1>5 DEF One
  <2>4. One(ledger.tpDone) \in Nat
    BY DEF One
  <2>5. mem'.price # {} => ledger.left > 0
    BY <1>5
  <2> QED
    BY <1>2, <1>3, <1>7, <2>1, <2>2, <2>3, <2>4, <2>5 DEF PartsCounted
<1>14. /\ Exact => IF held = 0 THEN ledger.left = 0
                   ELSE ledger.left >= held /\ ledger.lots = lots /\ ledger.ends = {ledger.left}
  BY <1>1, <1>6 DEF Inv, Recorded, InStage
<1>15. Basis'
  <2>1. SUFFICES ASSUME missed' = 0, held > 0 PROVE lots = mem'.price
    BY <1>3, <1>6 DEF Basis, InStage
  <2>2. ledger.left \in Nat
    BY <1>4 DEF Ledgers
  <2> QED
    BY <1>4, <1>5, <1>7, <1>14, <2>1, <2>2
<1>16. Recorded'
  <2>1. SUFFICES ASSUME Exact' PROVE Recorded'
    BY DEF Recorded
  <2>2. Exact
    BY <1>7, <2>1 DEF Exact
  <2>3. mem'.adds = 0
    BY <1>5, <1>14, <2>2
  <2>4. (mem'.tpDone <=> ledger.tpDone) /\ (ledger.armed => mem'.armed)
    BY <1>5, Zenon
  <2> QED
    BY <1>3, <1>6, <1>14, <2>2, <2>3, <2>4 DEF Recorded, InStage
<1>17. ClocksKept'
  <2>1. missed' = 0 => NoLater(ledger.clocks, fills)
    BY <1>1, <1>2, <1>7 DEF Inv, ClocksKept
  <2>2. NoLater(ledger.clocks, ledger.clocks)
    BY <1>4, NoLaterReflexive DEF Ledgers
  <2> QED
    BY <1>2, <1>3, <1>5, <1>6, <2>1, <2>2 DEF ClocksKept, InStage
<1>18. LossesKept'
  BY <1>1, <1>2, <1>3, <1>6 DEF Inv, Typed, LossesKept, InStage
<1> QED
  BY <1>8, <1>9, <1>10, <1>11, <1>12, <1>13, <1>15, <1>16, <1>17, <1>18 DEF Inv

LEMMA TickKeeps == Inv /\ Tick => Inv'
<1>1. SUFFICES ASSUME Inv, Tick PROVE Inv'
  OBVIOUS
<1> DEFINE aged == [mem EXCEPT !.clocks = OlderClocks(@)]
<1>2. /\ UNCHANGED <<venue, up, pnl, order, exchange, price, today, stale, life, missed,
                     unrecorded, bought, faults, moves>>
      /\ streaming' = streaming /\ coming' = coming /\ view' = view
      /\ order.stage = "none"
      /\ mem' = IF up THEN aged ELSE mem
      /\ ledger' = [ledger EXCEPT !.clocks = OlderClocks(@)]
      /\ fills' = OlderClocks(fills)
  BY <1>1 DEF Tick, stream
<1>3. mem \in Memories /\ ledger \in Ledgers /\ fills \in Clocks
  BY <1>1 DEF Inv, Typed
<1>4. /\ aged \in Memories /\ aged.price = mem.price /\ aged.adds = mem.adds
      /\ aged.tpDone = mem.tpDone /\ aged.armed = mem.armed
      /\ aged.clocks = OlderClocks(mem.clocks)
  BY <1>3, AgedFields
<1> HIDE DEF aged
<1>5. /\ mem' \in Memories /\ mem'.price = mem.price /\ mem'.adds = mem.adds
      /\ mem'.tpDone = mem.tpDone /\ mem'.armed = mem.armed
      /\ up => mem'.clocks = OlderClocks(mem.clocks)
  BY <1>2, <1>3, <1>4
<1>6. /\ OlderClocks(ledger.clocks) \in Clocks /\ fills' \in Clocks
  BY <1>2, <1>3, ClocksTyped DEF Ledgers
<1>7. /\ ledger' \in Ledgers /\ ledger'.left = ledger.left /\ ledger'.lots = ledger.lots
      /\ ledger'.ends = ledger.ends /\ ledger'.tpDone = ledger.tpDone
      /\ ledger'.armed = ledger.armed /\ ledger'.clocks = OlderClocks(ledger.clocks)
  BY <1>2, <1>3, <1>6 DEF Ledgers
<1>8. /\ held' = held /\ lots' = lots /\ life' = life /\ order' = order /\ up' = up
      /\ missed' = missed /\ unrecorded' = unrecorded /\ today' = today
  BY <1>2 DEF exchange
<1>9. Typed'
  BY <1>1, <1>2, <1>5, <1>6, <1>7 DEF Inv, Typed, exchange
<1>10. ViewTrue' /\ Sold' /\ Flat'
  BY <1>1, <1>2, <1>7, <1>8 DEF Inv, ViewTrue, Sold, Flat
<1>11. OrderFits'
  BY <1>1, <1>2, <1>8 DEF Inv, OrderFits, EntryFits, AddOnFits, SellFits, InStage, IsKind
<1>12. AddsCounted'
  BY <1>1, <1>5, <1>8 DEF Inv, AddsCounted, Repeated, Pending, InStage, IsKind, One
<1>13. PartsCounted'
  BY <1>1, <1>5, <1>7, <1>8 DEF Inv, PartsCounted, Halving, InStage, IsKind, One
<1>14. Basis' /\ Recorded'
  BY <1>1, <1>5, <1>7, <1>8 DEF Inv, Basis, Recorded, Exact, InStage, IsKind
<1>15. ClocksKept'
  <2>1. ledger.clocks \in Clocks /\ mem.clocks \in Clocks
    BY <1>3 DEF Ledgers, Memories
  <2>2. /\ up /\ missed = 0 => NoLater(mem.clocks, fills)
        /\ Exact /\ up => NoLater(ledger.clocks, mem.clocks)
        /\ Exact /\ ~up => NoLater(ledger.clocks, fills)
    BY <1>1, <1>2 DEF Inv, ClocksKept, InStage
  <2>3. /\ up /\ missed = 0 => NoLater(OlderClocks(mem.clocks), OlderClocks(fills))
        /\ Exact /\ up => NoLater(OlderClocks(ledger.clocks), OlderClocks(mem.clocks))
        /\ Exact /\ ~up => NoLater(OlderClocks(ledger.clocks), OlderClocks(fills))
    BY <1>3, <2>1, <2>2, NoLaterKept
  <2> QED
    BY <1>2, <1>5, <1>7, <1>8, <2>3 DEF ClocksKept, Exact, InStage
<1>16. LossesKept'
  BY <1>1, <1>2, <1>8 DEF Inv, LossesKept, InStage
<1> QED
  BY <1>9, <1>10, <1>11, <1>12, <1>13, <1>14, <1>15, <1>16 DEF Inv

-----------------------------------------------------------------------------
(* The bot's side of an order keeps the invariant                          *)

\* What a filled order promised
LEMMA FilledFits ==
  ASSUME Inv, order.stage = "filled"
  PROVE  /\ up
         /\ order.kind \in {"entry", "add_on", "sell"} /\ order.id \in Nat /\ order.qty \in Nat
         /\ order.partly \in BOOLEAN
         /\ order.kind = "entry" => /\ ~mem.tpDone /\ ~mem.armed /\ mem.adds = 0
                                    /\ life.adds = 0 /\ life.parts = 0 /\ held > 0
         /\ order.kind = "add_on" => /\ mem.adds < MaxAddOns /\ mem.price # {} /\ held > 0
         /\ order.kind = "sell" =>
              /\ order.qty > 0 /\ mem.price # {}
              /\ order.partly => /\ order.reason = "partial_take_profit" /\ ~mem.tpDone
                                 /\ missed = 0 => held > 0
              /\ ~order.partly => /\ life.adds = 0 /\ life.parts = 0
                                  /\ missed = 0 => held = 0
         /\ order.kind # "sell" => order.gross = 0
<1>1. up /\ order \in Orders
  BY DEF Inv, Typed, OrderFits, InStage
<1>2. /\ order.kind \in {"entry", "add_on", "sell"} /\ order.id \in Nat /\ order.qty \in Nat
      /\ order.partly \in BOOLEAN
  BY <1>1 DEF Orders
<1>3. /\ order.kind = "entry" => /\ ~mem.tpDone /\ ~mem.armed /\ mem.adds = 0
                                 /\ life.adds = 0 /\ life.parts = 0 /\ held > 0
      /\ order.kind = "add_on" => /\ mem.adds < MaxAddOns /\ mem.price # {} /\ held > 0
      /\ order.kind # "sell" => order.gross = 0
  BY Zenon DEF Inv, OrderFits, EntryFits, AddOnFits, InStage, IsKind
<1>4. order.kind = "sell" =>
        /\ order.qty > 0 /\ mem.price # {}
        /\ order.partly => /\ order.reason = "partial_take_profit" /\ ~mem.tpDone
                           /\ missed = 0 => held > 0
        /\ ~order.partly => /\ life.adds = 0 /\ life.parts = 0
                            /\ missed = 0 => held = 0
  BY Zenon DEF Inv, OrderFits, SellFits, InStage, IsKind
<1> QED
  BY <1>1, <1>2, <1>3, <1>4

LEMMA AcknowledgedKeeps == Inv /\ Acknowledged => Inv'
<1>1. SUFFICES ASSUME Inv, Acknowledged PROVE Inv'
  OBVIOUS
<1>2. PICK gross \in Gross : /\ order' = [order EXCEPT !.stage = "acked", !.gross = gross]
                             /\ pnl' = pnl + gross
  BY <1>1, Zenon DEF Acknowledged
<1>3. /\ UNCHANGED <<venue, up, exchange, price, ledger, today, stale, fills, life, missed,
                     unrecorded, bought, faults, moves>>
      /\ streaming' = streaming /\ coming' = coming /\ view' = view
      /\ order.stage = "filled" /\ mem' = Remembered
  BY <1>1 DEF Acknowledged, stream, history, observers
<1>4. /\ held' = held /\ lots' = lots /\ ledger' = ledger /\ fills' = fills /\ up' = up
      /\ life' = life /\ missed' = missed /\ unrecorded' = unrecorded /\ today' = today
      /\ stale' = stale
  BY <1>3 DEF exchange
<1>5. /\ mem \in Memories /\ life \in Lives /\ missed \in Nat /\ unrecorded \in Nat
      /\ held \in Nat /\ ledger \in Ledgers /\ MaxAddOns \in Nat /\ fills \in Clocks
      /\ order \in Orders /\ pnl \in Int
  BY <1>1, BoundsTyped DEF Inv, Typed
<1>6. /\ up
      /\ order.kind \in {"entry", "add_on", "sell"} /\ order.id \in Nat /\ order.qty \in Nat
      /\ order.partly \in BOOLEAN
      /\ order.kind = "entry" => /\ ~mem.tpDone /\ ~mem.armed /\ mem.adds = 0
                                 /\ life.adds = 0 /\ life.parts = 0 /\ held > 0
      /\ order.kind = "add_on" => /\ mem.adds < MaxAddOns /\ mem.price # {} /\ held > 0
      /\ order.kind = "sell" =>
           /\ order.qty > 0 /\ mem.price # {}
           /\ order.partly => /\ order.reason = "partial_take_profit" /\ ~mem.tpDone
                              /\ missed = 0 => held > 0
           /\ ~order.partly => /\ life.adds = 0 /\ life.parts = 0
                               /\ missed = 0 => held = 0
      /\ order.kind # "sell" => order.gross = 0
  BY <1>1, <1>3, FilledFits
<1>7. gross \in Int /\ (order.kind # "sell" => gross = 0)
  BY <1>2, BoundsTyped DEF Gross
<1>8. /\ order' \in Orders /\ order'.stage = "acked" /\ order'.kind = order.kind
      /\ order'.id = order.id /\ order'.qty = order.qty /\ order'.reason = order.reason
      /\ order'.partly = order.partly /\ order'.gross = gross
  BY <1>2, <1>5, <1>7 DEF Orders
<1>9. /\ mem' \in Memories
      /\ mem'.clocks = Applied(mem.clocks, ProfitReasons)
      /\ order.kind = "entry" => /\ mem'.price = {order.id} /\ mem'.adds = 0 /\ ~mem'.armed
                                 /\ mem'.tpDone = mem.tpDone
      /\ order.kind = "add_on" => /\ mem'.price = mem.price \cup {order.id}
                                  /\ mem'.adds = mem.adds + 1 /\ mem'.tpDone = mem.tpDone
      /\ order.kind = "sell" => /\ mem'.price = mem.price /\ mem'.adds = mem.adds
                                /\ mem'.tpDone <=> mem.tpDone \/ order.partly
  <2>1. CASE order.kind = "entry"
    <3>1. mem' = ApplyEntry(mem, order.id)
      BY <1>3, <2>1 DEF Remembered
    <3>2. /\ mem' \in Memories /\ mem'.price = {order.id} /\ mem'.adds = 0 /\ ~mem'.armed
          /\ mem'.tpDone = mem.tpDone /\ mem'.clocks = TradeClocks(mem.clocks)
      BY <1>5, <1>6, <3>1, FillFields
    <3>3. Applied(mem.clocks, ProfitReasons) = TradeClocks(mem.clocks)
      BY <2>1 DEF Applied, IsKind
    <3> QED
      BY <2>1, <3>2, <3>3
  <2>2. CASE order.kind = "add_on"
    <3>1. mem' = ApplyAddOn(mem, order.id)
      BY <1>3, <2>2 DEF Remembered
    <3>2. /\ mem' \in Memories /\ mem'.price = mem.price \cup {order.id}
          /\ mem'.adds = mem.adds + 1
          /\ mem'.tpDone = mem.tpDone /\ mem'.clocks = TradeClocks(mem.clocks)
      BY <1>5, <1>6, <3>1, FillFields
    <3>3. Applied(mem.clocks, ProfitReasons) = TradeClocks(mem.clocks)
      BY <2>2 DEF Applied, IsKind
    <3> QED
      BY <2>2, <3>2, <3>3
  <2>3. CASE order.kind = "sell"
    <3>1. mem' = ApplySale(mem, order.reason, order.partly)
      BY <1>3, <2>3 DEF Remembered
    <3>2. /\ mem' \in Memories /\ mem'.price = mem.price /\ mem'.adds = mem.adds
          /\ mem'.tpDone <=> mem.tpDone \/ order.partly
          /\ mem'.clocks = SaleClocks(mem.clocks, order.reason, ProfitReasons)
      BY <1>5, <1>6, <3>1, SaleFields
    <3>3. Applied(mem.clocks, ProfitReasons) = SaleClocks(mem.clocks, order.reason, ProfitReasons)
      BY <2>3 DEF Applied, IsKind
    <3> QED
      BY <2>3, <3>2, <3>3
  <2> QED
    BY <1>6, <2>1, <2>2, <2>3
<1>10. Typed'
  BY <1>1, <1>2, <1>3, <1>4, <1>5, <1>7, <1>8, <1>9 DEF Inv, Typed
<1>11. ViewTrue' /\ Sold' /\ Flat'
  BY <1>1, <1>3, <1>4 DEF Inv, ViewTrue, Sold, Flat
<1>12. OrderFits'
  <2>1. EntryFits'
    BY <1>4, <1>6, <1>8, <1>9 DEF EntryFits, InStage, IsKind
  <2>2. AddOnFits'
    BY <1>4, <1>6, <1>8, <1>9 DEF AddOnFits, InStage, IsKind
  <2>3. SellFits'
    BY <1>4, <1>6, <1>8, <1>9 DEF SellFits, InStage, IsKind
  <2> QED
    BY <1>4, <1>6, <1>7, <1>8, <2>1, <2>2, <2>3 DEF OrderFits, IsKind
<1>13. AddsCounted'
  <2>1. /\ Pending("add_on", {"filled"}) = IF order.kind = "add_on" THEN 1 ELSE 0
        /\ Pending("add_on", {"filled"})' = 0
        /\ Pending("add_on", {"filled", "acked"})' = Pending("add_on", {"filled", "acked"})
    BY <1>3, <1>8 DEF Pending, One, InStage, IsKind
  <2>2. Repeated(missed) \in Nat /\ Repeated(missed)' = Repeated(missed)
    BY <1>4, <1>5, RepeatedTyped DEF Repeated
  <2>3. /\ life.adds <= missed + unrecorded + Pending("add_on", {"filled", "acked"})
        /\ life.adds <= MaxAddOns + Repeated(missed)
        /\ life.adds <= mem.adds + Repeated(missed) + Pending("add_on", {"filled"})
    BY <1>1, <1>6 DEF Inv, AddsCounted
  <2>4. life.adds <= mem'.adds + Repeated(missed)
    BY <1>5, <1>6, <1>9, <2>1, <2>2, <2>3 DEF Lives, Memories
  <2>5. mem'.adds \in Nat
    BY <1>9 DEF Memories
  <2> QED
    BY <1>4, <2>1, <2>2, <2>3, <2>4, <2>5 DEF AddsCounted
<1>14. PartsCounted'
  <2>1. /\ Halving({"filled"}) = One(order.partly /\ order.kind = "sell")
        /\ Halving({"filled"})' = 0
        /\ Halving({"filled", "acked"})' = Halving({"filled", "acked"})
    BY <1>3, <1>8 DEF Halving, One, InStage, IsKind
  <2>2. mem.price # {} => life.parts <= One(mem.tpDone) + missed + Halving({"filled"})
    BY <1>1, <1>6 DEF Inv, PartsCounted
  <2>3. mem'.price # {} => life.parts <= One(mem'.tpDone) + missed
    <3>1. CASE order.kind = "sell"
      BY <1>5, <1>6, <1>9, <2>1, <2>2, <3>1 DEF One, Lives
    <3>2. CASE order.kind # "sell"
      BY <1>5, <1>6, <1>9, <2>1, <2>2, <3>2 DEF One, Lives
    <3> QED
      BY <3>1, <3>2
  <2>4. One(mem.tpDone)' = One(mem'.tpDone) /\ One(ledger.tpDone)' = One(ledger.tpDone)
    BY <1>4 DEF One
  <2>5. One(mem'.tpDone) \in Nat
    BY DEF One
  <2> QED
    BY <1>1, <1>4, <1>5, <2>1, <2>3, <2>4, <2>5 DEF Inv, PartsCounted
<1>15. Basis'
  <2>1. SUFFICES ASSUME missed = 0, held > 0 PROVE lots = mem'.price
    BY <1>4, <1>8 DEF Basis, InStage
  <2>2. lots = IF order.kind = "entry" THEN {order.id}
               ELSE IF order.kind = "add_on" THEN mem.price \cup {order.id}
               ELSE mem.price
    BY <1>1, <1>3, <1>6, <2>1 DEF Inv, Basis, InStage, IsKind
  <2> QED
    BY <1>6, <1>9, <2>2
<1>16. Recorded'
  <2>1. SUFFICES ASSUME Exact' PROVE Recorded'
    BY DEF Recorded
  <2>2. Exact
    BY <1>4, <2>1 DEF Exact
  <2>3. /\ order.kind = "entry" => ledger.left = 0 /\ held <= BuyAmount /\ lots = {order.id}
        /\ order.kind = "sell" => /\ ledger.left > 0 /\ ledger.left >= held + order.qty
                                  /\ ledger.ends = {ledger.left}
                                  /\ held > 0 => ledger.lots = lots
        /\ mem.adds = 0
    BY <1>1, <1>3, <1>6, <2>2 DEF Inv, Recorded, InStage, IsKind
  <2>4. order.kind # "add_on" => mem'.adds = 0
    BY <1>6, <1>9, <2>3
  <2> QED
    BY <1>4, <1>8, <2>3, <2>4 DEF Recorded, InStage, IsKind
<1>17. ClocksKept'
  <2>1. mem.clocks \in Clocks /\ ledger.clocks \in Clocks
    BY <1>5 DEF Memories, Ledgers
  <2>2. missed = 0 => NoLater(mem'.clocks, fills)
    BY <1>1, <1>3, <1>6, <1>9 DEF Inv, ClocksKept, InStage
  <2>3. Exact => NoLater(ledger.clocks, mem.clocks)
    BY <1>1, <1>3, <1>6 DEF Inv, ClocksKept, InStage
  <2>4. Exact => NoLater(Applied(ledger.clocks, ReplayedProfitReasons),
                         Applied(mem.clocks, ProfitReasons))
    <3>1. CASE order.kind = "sell"
      BY <2>1, <2>3, <3>1, NoLaterKept DEF Applied, IsKind
    <3>2. CASE order.kind # "sell"
      BY <2>1, <2>3, <3>2, NoLaterKept DEF Applied, IsKind
    <3> QED
      BY <3>1, <3>2
  <2>5. Applied(ledger.clocks, ReplayedProfitReasons)' =
          Applied(ledger.clocks, ReplayedProfitReasons)
    BY <1>4, <1>8, Zenon DEF Applied, IsKind
  <2> QED
    BY <1>4, <1>6, <1>8, <1>9, <2>2, <2>4, <2>5 DEF ClocksKept, Exact, InStage
<1>18. LossesKept'
  <2>1. today.gross \in Int /\ today.net \in Int
    BY <1>1 DEF Inv, Typed
  <2>2. missed = 0 /\ ~stale => pnl <= today.gross
    BY <1>1, <1>3, <1>6, <2>1 DEF Inv, LossesKept, InStage
  <2> QED
    BY <1>1, <1>2, <1>4, <1>5, <1>7, <1>8, <2>1, <2>2 DEF Inv, LossesKept, InStage
<1> QED
  BY <1>10, <1>11, <1>12, <1>13, <1>14, <1>15, <1>16, <1>17, <1>18 DEF Inv

LEMMA AddOnNotRecordedKeeps == Inv /\ AddOnNotRecorded => Inv'
<1>1. SUFFICES ASSUME Inv, AddOnNotRecorded PROVE Inv'
  OBVIOUS
<1>2. /\ UNCHANGED <<venue, up, mem, pnl, exchange, price, ledger, today, stale, fills, life,
                     missed, bought, faults, moves>>
      /\ streaming' = streaming /\ coming' = coming /\ view' = view
      /\ order.stage = "acked" /\ order.kind = "add_on" /\ order' = NoOrder
      /\ unrecorded' = unrecorded + 1
  BY <1>1 DEF AddOnNotRecorded, stream, history
<1>3. /\ held' = held /\ lots' = lots /\ ledger' = ledger /\ fills' = fills /\ up' = up
      /\ life' = life /\ missed' = missed /\ mem' = mem /\ today' = today /\ stale' = stale
      /\ pnl' = pnl
  BY <1>2 DEF exchange
<1>4. /\ mem \in Memories /\ life \in Lives /\ missed \in Nat /\ unrecorded \in Nat
      /\ order.gross = 0
  BY <1>1, <1>2 DEF Inv, Typed, OrderFits, IsKind
<1>5. OrderFits' /\ order' \in Orders /\ order'.stage = "none" /\ ~order'.partly
  BY <1>2, NoOrderFits, NoOrderFields
<1>6. unrecorded' \in Nat /\ unrecorded' # 0
  BY <1>2, <1>4
<1>7. Typed'
  BY <1>1, <1>2, <1>3, <1>5, <1>6 DEF Inv, Typed
<1>8. ViewTrue' /\ Sold' /\ Flat'
  BY <1>1, <1>2, <1>3 DEF Inv, ViewTrue, Sold, Flat
<1>9. AddsCounted'
  <2>1. /\ Pending("add_on", {"filled"}) = 0 /\ Pending("add_on", {"filled", "acked"}) = 1
        /\ Pending("add_on", {"filled"})' = 0 /\ Pending("add_on", {"filled", "acked"})' = 0
    BY <1>2, <1>5 DEF Pending, One, InStage, IsKind
  <2>2. Repeated(missed)' = Repeated(missed)
    BY <1>3 DEF Repeated
  <2> QED
    BY <1>1, <1>2, <1>3, <1>4, <2>1, <2>2 DEF Inv, AddsCounted
<1>10. PartsCounted'
  <2>1. \A S \in {{"filled"}, {"filled", "acked"}} : Halving(S) = 0 /\ Halving(S)' = 0
    BY <1>2, <1>5 DEF Halving, One, InStage, IsKind
  <2>2. One(mem.tpDone)' = One(mem.tpDone) /\ One(ledger.tpDone)' = One(ledger.tpDone)
    BY <1>3 DEF One
  <2>3. One(mem.tpDone) \in Nat /\ One(ledger.tpDone) \in Nat /\ life.parts \in Nat
    BY <1>4 DEF One, Lives
  <2> QED
    BY <1>1, <1>2, <1>3, <1>4, <2>1, <2>2, <2>3 DEF Inv, PartsCounted
<1>11. Basis'
  BY <1>1, <1>2, <1>3, <1>5 DEF Inv, Basis, InStage
<1>12. Recorded'
  BY <1>6 DEF Recorded, Exact
<1>13. ClocksKept'
  BY <1>1, <1>2, <1>3, <1>5, <1>6 DEF Inv, ClocksKept, InStage, Exact
<1>14. LossesKept'
  BY <1>1, <1>2, <1>3, <1>4, <1>5 DEF Inv, Typed, LossesKept, InStage
<1> QED
  BY <1>5, <1>7, <1>8, <1>9, <1>10, <1>11, <1>12, <1>13, <1>14 DEF Inv

LEMMA RecordEntryKeeps ==
  ASSUME Inv, Record, order.kind = "entry"
  PROVE  Inv'
<1>1. /\ UNCHANGED <<venue, up, mem, pnl, exchange, price, today, stale, fills, life,
                     missed, unrecorded, bought, faults, moves>>
      /\ streaming' = streaming /\ coming' = coming /\ view' = view
      /\ order.stage = "acked" /\ order' = NoOrder
      /\ ledger' = ReplayBuy(ledger, order.id, BuyAmount)
  BY DEF Record, stream, observers
<1>2. /\ held' = held /\ lots' = lots /\ fills' = fills /\ up' = up
      /\ life' = life /\ missed' = missed /\ mem' = mem /\ today' = today /\ stale' = stale
      /\ pnl' = pnl /\ unrecorded' = unrecorded
  BY <1>1 DEF exchange
<1>3. /\ mem \in Memories /\ life \in Lives /\ missed \in Nat /\ unrecorded \in Nat
      /\ order.gross = 0 /\ ledger \in Ledgers /\ ledger.ends \subseteq 1..ledger.left
      /\ order.id \in Nat /\ BuyAmount \in Nat \ {0} /\ held \in Nat
  BY BoundsTyped DEF Inv, Typed, OrderFits, IsKind, Orders
<1>4. OrderFits' /\ order' \in Orders /\ order'.stage = "none" /\ ~order'.partly
  BY <1>1, NoOrderFits, NoOrderFields
<1>5. /\ ledger' \in Ledgers /\ ledger'.ends \subseteq 1..ledger'.left
      /\ ledger'.left = ledger.left + BuyAmount /\ ledger'.lots = ledger.lots \cup {order.id}
      /\ ledger'.clocks = TradeClocks(ledger.clocks)
      /\ ledger.left = 0 => /\ ledger'.ends = {ledger'.left}
                            /\ ~ledger'.tpDone /\ ~ledger'.armed
  BY <1>1, <1>3, ReplayBuyFields
<1>6. /\ ~mem.tpDone /\ life.adds = 0 /\ life.parts = 0 /\ held > 0
  BY <1>1, Zenon DEF Inv, OrderFits, EntryFits, InStage, IsKind
<1>7. ledger.left \in Nat /\ ledger'.left > 0
  BY <1>3, <1>5 DEF Ledgers
<1>8. Typed'
  BY <1>1, <1>2, <1>4, <1>5 DEF Inv, Typed
<1>9. ViewTrue' /\ Sold' /\ Flat'
  BY <1>1, <1>2, <1>7 DEF Inv, ViewTrue, Sold, Flat
<1>10. AddsCounted'
  <2>1. \A S \in {{"filled"}, {"filled", "acked"}} : Pending("add_on", S)' = 0
    BY <1>4 DEF Pending, One, InStage
  <2>2. Repeated(missed)' \in Nat /\ MaxAddOns \in Nat
    BY <1>2, <1>3, BoundsTyped, RepeatedTyped DEF Repeated
  <2> QED
    BY <1>2, <1>3, <1>6, <2>1, <2>2 DEF AddsCounted, Memories
<1>11. PartsCounted'
  <2>1. \A S \in {{"filled"}, {"filled", "acked"}} : Halving(S)' = 0
    BY <1>4 DEF Halving, One, InStage
  <2>2. One(mem.tpDone)' \in Nat /\ One(ledger.tpDone)' \in Nat
    BY DEF One
  <2> QED
    BY <1>2, <1>3, <1>6, <2>1, <2>2 DEF PartsCounted
<1>12. Basis'
  BY <1>1, <1>2, <1>4 DEF Inv, Basis, InStage
<1>13. Recorded'
  <2>1. SUFFICES ASSUME Exact' PROVE Recorded'
    BY DEF Recorded
  <2>2. Exact
    BY <1>2, <2>1 DEF Exact
  <2>3. /\ ledger.left = 0 /\ held <= BuyAmount /\ lots = {order.id}
        /\ up => mem.adds = 0
    BY <1>1, <2>2 DEF Inv, Recorded, InStage, IsKind
  <2>4. ledger.lots = {}
    BY <2>3 DEF Inv, Flat
  <2>5. ledger'.left >= held /\ ledger'.lots = lots /\ ledger'.ends = {ledger'.left}
    BY <1>3, <1>5, <2>3, <2>4
  <2>6. (mem.tpDone <=> ledger'.tpDone) /\ ~ledger'.armed
    BY <1>5, <1>6, <2>3, Zenon
  <2> QED
    BY <1>2, <1>4, <1>6, <2>3, <2>5, <2>6 DEF Recorded, InStage
<1>14. ClocksKept'
  <2>1. /\ up /\ missed = 0 => NoLater(mem.clocks, fills)
        /\ Exact /\ up => NoLater(TradeClocks(ledger.clocks), mem.clocks)
        /\ up
    BY <1>1 DEF Inv, ClocksKept, Applied, IsKind, InStage, OrderFits, Typed
  <2> QED
    BY <1>2, <1>4, <1>5, <2>1 DEF ClocksKept, Exact, InStage
<1>15. LossesKept'
  BY <1>1, <1>2, <1>3, <1>4 DEF Inv, Typed, LossesKept, InStage
<1> QED
  BY <1>4, <1>8, <1>9, <1>10, <1>11, <1>12, <1>13, <1>14, <1>15 DEF Inv

LEMMA RecordSaleKeeps ==
  ASSUME Inv, Record, order.kind = "sell"
  PROVE  Inv'
<1> DEFINE rec == [qty |-> order.qty, reason |-> order.reason, armed |-> mem.armed,
                   final |-> ~order.partly]
<1>1. /\ UNCHANGED <<venue, up, pnl, exchange, price, stale, fills, life,
                     missed, unrecorded, bought, moves>>
      /\ streaming' = streaming /\ coming' = coming /\ view' = view
      /\ order.stage = "acked" /\ order' = NoOrder
      /\ ledger' = ReplaySale(ledger, rec)
      /\ today' = [gross |-> today.gross + order.gross,
                   net |-> today.net + order.gross - Fee]
      /\ mem' = mem \/ (~order.partly /\ mem' = ClearPosition(mem))
  BY DEF Record, stream, observers
<1>2. faults' \in Nat
  BY DEF Record, Fault, Inv, Typed
<1>3. /\ held' = held /\ lots' = lots /\ fills' = fills /\ up' = up
      /\ life' = life /\ missed' = missed /\ stale' = stale
      /\ pnl' = pnl /\ unrecorded' = unrecorded
  BY <1>1 DEF exchange
<1>4. /\ mem \in Memories /\ life \in Lives /\ missed \in Nat /\ unrecorded \in Nat
      /\ ledger \in Ledgers /\ ledger.ends \subseteq 1..ledger.left
      /\ held \in Nat /\ order \in Orders /\ pnl \in Int
      /\ today.gross \in Int /\ today.net \in Int /\ Fee \in Nat
  BY BoundsTyped DEF Inv, Typed
<1>5. /\ order.qty \in Nat /\ order.partly \in BOOLEAN /\ order.gross \in Int
      /\ mem.armed \in BOOLEAN /\ ledger.left \in Nat
  BY <1>4 DEF Orders, Memories, Ledgers
<1>6. OrderFits' /\ order' \in Orders /\ order'.stage = "none" /\ ~order'.partly
  BY <1>1, NoOrderFits, NoOrderFields
<1>7. /\ order.qty > 0 /\ mem.price # {}
      /\ order.partly => /\ order.reason = "partial_take_profit" /\ mem.tpDone
                         /\ missed = 0 => held > 0
      /\ ~order.partly => /\ life.adds = 0 /\ life.parts = 0
                          /\ missed = 0 => held = 0
  BY <1>1, Zenon DEF Inv, OrderFits, SellFits, InStage, IsKind
<1>8. up
  BY <1>1 DEF Inv, OrderFits, InStage, Typed
<1>9. /\ ledger' \in Ledgers /\ ledger'.ends \subseteq 1..ledger'.left
      /\ ledger'.left = 0 => ledger'.lots = {} /\ ~ledger'.tpDone /\ ~ledger'.armed
      /\ ~order.partly => ledger'.left = 0
      /\ ledger'.left > 0 => ledger.left > 0
      /\ ledger'.left > 0 /\ order.reason = "partial_take_profit" => ledger'.tpDone
      /\ ledger.left > 0 =>
           ledger'.clocks = SaleClocks(ledger.clocks, order.reason, ReplayedProfitReasons)
      /\ order.partly /\ order.qty < ledger.left =>
           /\ ledger'.left = ledger.left - order.qty /\ ledger'.lots = ledger.lots
           /\ ledger'.armed = mem.armed
           /\ ledger.ends = {ledger.left} => ledger'.ends = {ledger'.left}
  <2> DEFINE final == ~order.partly
  <2>1. final \in BOOLEAN /\ order.qty \in Nat \ {0}
    BY <1>5, <1>7
  <2>2. ledger' = ReplaySale(ledger, [qty |-> order.qty, reason |-> order.reason,
                                      armed |-> mem.armed, final |-> final])
    BY <1>1
  <2>3. ledger.left = 0 => ledger.lots = {} /\ ~ledger.tpDone /\ ~ledger.armed
    BY DEF Inv, Flat
  <2>4. (final => ~order.partly) /\ (~order.partly => final)
    OBVIOUS
  <2> HIDE DEF final
  <2>5. /\ ledger' \in Ledgers /\ ledger'.ends \subseteq 1..ledger'.left
        /\ ledger'.left = 0 => ledger'.lots = {} /\ ~ledger'.tpDone /\ ~ledger'.armed
        /\ final => ledger'.left = 0
        /\ ledger'.left > 0 => ledger.left > 0
        /\ ledger'.left > 0 /\ order.reason = "partial_take_profit" => ledger'.tpDone
        /\ ledger.left > 0 =>
             ledger'.clocks = SaleClocks(ledger.clocks, order.reason, ReplayedProfitReasons)
        /\ ~final /\ order.qty < ledger.left =>
             /\ ledger'.left = ledger.left - order.qty /\ ledger'.lots = ledger.lots
             /\ ledger'.armed = mem.armed
             /\ ledger.ends = {ledger.left} => ledger'.ends = {ledger'.left}
    BY <1>4, <1>5, <2>1, <2>2, <2>3, ReplaySaleFields
  <2> QED
    BY <2>4, <2>5, Zenon
<1> HIDE DEF rec
<1>10. /\ mem' \in Memories /\ mem'.clocks = mem.clocks
       /\ order.partly => mem' = mem
       /\ mem' = mem \/ (mem'.price = {} /\ mem'.adds = 0)
  BY <1>1, <1>4, ClearFields
<1>11. today'.gross = today.gross + order.gross /\ today'.net = today.net + order.gross - Fee
  BY <1>1
<1>12. Typed'
  BY <1>1, <1>2, <1>3, <1>4, <1>5, <1>6, <1>9, <1>10 DEF Inv, Typed
<1>13. ViewTrue' /\ Sold' /\ Flat'
  BY <1>1, <1>3, <1>9 DEF Inv, ViewTrue, Sold, Flat
<1>14. AddsCounted'
  <2>1. /\ \A S \in {{"filled"}, {"filled", "acked"}} :
             Pending("add_on", S) = 0 /\ Pending("add_on", S)' = 0
    BY <1>1, <1>6 DEF Pending, One, InStage, IsKind
  <2>2. Repeated(missed)' = Repeated(missed) /\ Repeated(missed) \in Nat
    BY <1>3, <1>4, RepeatedTyped DEF Repeated
  <2>3. /\ life.adds <= missed + unrecorded /\ life.adds <= MaxAddOns + Repeated(missed)
        /\ life.adds <= mem.adds + Repeated(missed)
    BY <1>4, <1>8, <2>1, <2>2 DEF Inv, AddsCounted, Lives, Memories
  <2>4. life.adds <= mem'.adds + Repeated(missed) /\ mem'.adds \in Nat
    <3>1. mem'.adds \in Nat
      BY <1>10 DEF Memories
    <3>2. CASE mem' = mem
      BY <2>3, <3>1, <3>2
    <3>3. CASE mem' # mem
      BY <1>5, <1>7, <1>10, <2>2, <3>1, <3>3
    <3> QED
      BY <3>1, <3>2, <3>3
  <2> QED
    BY <1>3, <1>4, <2>1, <2>2, <2>3, <2>4 DEF AddsCounted, Lives
<1>15. PartsCounted'
  <2>1. /\ Halving({"filled"}) = 0
        /\ \A S \in {{"filled"}, {"filled", "acked"}} : Halving(S)' = 0
    BY <1>1, <1>6 DEF Halving, One, InStage, IsKind
  <2>2. life.parts <= One(mem.tpDone) + missed
    BY <1>4, <1>7, <1>8, <2>1 DEF Inv, PartsCounted, One
  <2>3. mem'.price # {} => life.parts <= One(mem'.tpDone) + missed
    BY <1>10, <2>2
  <2>4. ledger'.left > 0 => life.parts <= One(ledger'.tpDone) + missed + unrecorded
    <3>1. ledger'.left > 0 => ledger'.tpDone
      BY <1>5, <1>7, <1>9
    <3>2. One(mem.tpDone) <= 1 /\ One(mem.tpDone) \in Nat
      BY DEF One
    <3>3. ledger'.left > 0 => One(ledger'.tpDone) = 1
      BY <3>1 DEF One
    <3>4. life.parts \in Nat
      BY <1>4 DEF Lives
    <3> QED
      BY <1>4, <2>2, <3>2, <3>3, <3>4
  <2>5. One(mem.tpDone)' = One(mem'.tpDone) /\ One(ledger.tpDone)' = One(ledger'.tpDone)
    BY DEF One
  <2>6. One(mem'.tpDone) \in Nat /\ One(ledger'.tpDone) \in Nat
    BY DEF One
  <2> QED
    BY <1>3, <1>4, <2>1, <2>3, <2>4, <2>5, <2>6 DEF PartsCounted
<1>16. Basis'
  <2>1. SUFFICES ASSUME missed = 0, held > 0 PROVE lots = mem'.price
    BY <1>3, <1>6 DEF Basis, InStage
  <2>2. lots = mem.price
    BY <1>1, <1>8, <2>1 DEF Inv, Basis, InStage
  <2> QED
    BY <1>5, <1>7, <1>10, <2>1, <2>2
<1>17. Recorded'
  <2>1. SUFFICES ASSUME Exact' PROVE Recorded'
    BY DEF Recorded
  <2>2. Exact /\ missed = 0
    BY <1>3, <2>1 DEF Exact
  <2>3. /\ ledger.left > 0 /\ ledger.left >= held + order.qty
        /\ ledger.ends = {ledger.left}
        /\ held > 0 => ledger.lots = lots
        /\ mem.adds = 0
    BY <1>1, <1>8, <2>2 DEF Inv, Recorded, InStage, IsKind
  <2>4. mem'.adds = 0
    BY <1>10, <2>3
  <2>5. CASE order.partly
    <3>1. order.qty < ledger.left
      BY <1>4, <1>5, <1>7, <2>2, <2>3, <2>5
    <3>2. /\ ledger'.left = ledger.left - order.qty /\ ledger'.lots = ledger.lots
          /\ ledger'.armed = mem.armed /\ ledger'.ends = {ledger'.left}
      BY <1>9, <2>3, <2>5, <3>1
    <3>3. ledger'.left >= held /\ ledger'.left > 0 /\ held > 0
      BY <1>4, <1>5, <1>7, <2>2, <2>3, <2>5, <3>1, <3>2
    <3>4. ledger'.tpDone /\ mem.tpDone /\ mem' = mem
      BY <1>7, <1>9, <1>10, <2>5, <3>3
    <3>5. (mem'.tpDone <=> ledger'.tpDone) /\ (ledger'.armed => mem'.armed)
      BY <3>2, <3>4, Zenon
    <3> QED
      BY <1>3, <1>6, <2>3, <2>4, <3>2, <3>3, <3>5 DEF Recorded, InStage
  <2>6. CASE ~order.partly
    <3>1. held = 0 /\ ledger'.left = 0
      BY <1>7, <1>9, <2>2, <2>6
    <3> QED
      BY <1>3, <1>6, <2>4, <3>1 DEF Recorded, InStage
  <2> QED
    BY <1>5, <2>5, <2>6
<1>18. ClocksKept'
  <2>1. /\ missed = 0 => NoLater(mem.clocks, fills)
        /\ Exact => NoLater(SaleClocks(ledger.clocks, order.reason, ReplayedProfitReasons),
                            mem.clocks)
    BY <1>1, <1>8 DEF Inv, ClocksKept, Applied, IsKind, InStage
  <2>2. Exact => ledger.left > 0
    BY <1>1 DEF Inv, Recorded, InStage, IsKind
  <2>3. Exact => NoLater(ledger'.clocks, mem.clocks)
    BY <1>9, <2>1, <2>2, Zenon
  <2> QED
    BY <1>3, <1>6, <1>8, <1>10, <2>1, <2>3 DEF ClocksKept, Exact, InStage
<1>19. LossesKept'
  <2>1. today.net <= today.gross
    BY DEF Inv, LossesKept
  <2>2. missed = 0 /\ ~stale => pnl <= today.gross + order.gross
    BY <1>1, <1>8 DEF Inv, LossesKept, InStage
  <2>3. today'.net <= today'.gross
    BY <1>4, <1>5, <1>11, <2>1
  <2> QED
    BY <1>3, <1>4, <1>5, <1>6, <1>11, <2>2, <2>3 DEF LossesKept, InStage
<1> QED
  BY <1>6, <1>12, <1>13, <1>14, <1>15, <1>16, <1>17, <1>18, <1>19 DEF Inv

-----------------------------------------------------------------------------
(* The theorems                                                            *)

LEMMA InitInv == Init => Inv
<1>1. SUFFICES ASSUME Init PROVE Inv
  OBVIOUS
<1>2. /\ mem = BlankMemory /\ BlankMemory \in Memories /\ mem.clocks = NoClocks
      /\ order = NoOrder /\ NoOrder \in Orders /\ order.stage = "none" /\ order.kind = "entry"
      /\ ~order.partly /\ order.gross = 0
  BY <1>1, BlankTyped, NoOrderFields DEF Init
<1>3. /\ mem.price = {} /\ mem.adds = 0 /\ ~mem.tpDone /\ ~mem.armed
  BY <1>2 DEF BlankMemory
<1>4. NoClocks \in Clocks
  BY BoundsTyped DEF Clocks, Ages, NoClocks
<1>5. /\ ledger \in Ledgers /\ ledger.left = 0 /\ ledger.lots = {} /\ ledger.ends = {}
      /\ ~ledger.tpDone /\ ~ledger.armed /\ ledger.clocks = NoClocks
  BY <1>1, <1>4 DEF Init, EmptyLedger, Ledgers
<1>6. life \in Lives /\ life.adds = 0 /\ life.parts = 0
  BY <1>1 DEF Init, NewLife, Lives
<1>7. Typed
  <2>1. streaming \in BOOLEAN /\ up \in BOOLEAN /\ coming \in BOOLEAN /\ stale \in BOOLEAN
    BY <1>1, Zenon DEF Init
  <2>2. /\ venue \in Venues /\ price \in Prices /\ view = Unknown /\ lots = {}
        /\ pnl = 0 /\ held = 0 /\ missed = 0 /\ unrecorded = 0
        /\ bought = 0 /\ faults = 0 /\ moves = 0 /\ fills = NoClocks
        /\ today = [gross |-> 0, net |-> 0]
    BY <1>1, Zenon DEF Init
  <2> QED
    BY <1>2, <1>4, <1>5, <1>6, <2>1, <2>2 DEF Typed
<1>8. ViewTrue /\ Sold /\ Flat
  BY <1>1, <1>5, <1>6 DEF Init, ViewTrue, Sold, Flat
<1>9. OrderFits
  BY <1>2 DEF OrderFits, EntryFits, AddOnFits, SellFits, InStage, IsKind
<1>10. AddsCounted
  <2>1. \A S \in {{"filled"}, {"filled", "acked"}} : Pending("add_on", S) = 0
    BY <1>2 DEF Pending, One, InStage
  <2>2. Repeated(missed) \in Nat /\ MaxAddOns \in Nat
    BY <1>1, BoundsTyped, RepeatedTyped DEF Init
  <2> QED
    BY <1>1, <1>3, <1>6, <2>1, <2>2 DEF Init, AddsCounted
<1>11. PartsCounted
  BY <1>3, <1>5 DEF PartsCounted
<1>12. Basis /\ Recorded
  BY <1>1, <1>2, <1>3, <1>5 DEF Init, Basis, Recorded, InStage
<1>13. ClocksKept
  <2>1. NoLater(NoClocks, NoClocks)
    BY <1>4, NoLaterReflexive
  <2> QED
    BY <1>1, <1>2, <1>5, <2>1 DEF Init, ClocksKept, InStage
<1>14. LossesKept
  BY <1>1, <1>2 DEF Init, LossesKept, InStage
<1> QED
  BY <1>7, <1>8, <1>9, <1>10, <1>11, <1>12, <1>13, <1>14 DEF Inv

LEMMA NextInv == Inv /\ [Next]_vars => Inv'
<1>1. SUFFICES ASSUME Inv, [Next]_vars PROVE Inv'
  OBVIOUS
<1>2. CASE Record
  <2>1. order.kind \in {"entry", "sell"}
    BY <1>1, <1>2 DEF Record, Inv, Typed, Orders
  <2> QED
    BY <1>1, <1>2, <2>1, RecordEntryKeeps, RecordSaleKeeps
<1>3. CASE UNCHANGED vars
  <2>1. UNCHANGED <<venue, up, mem, pnl, order, exchange, price, streaming, coming, view,
                    ledger, today, stale, fills, life, missed, unrecorded, bought, faults,
                    moves>>
    BY <1>3 DEF vars, bot, stream, history, observers
  <2>2. Typed' /\ ViewTrue' /\ LossesKept'
    BY <1>1, <2>1 DEF Inv, Typed, ViewTrue, LossesKept, InStage, exchange
  <2> QED
    BY <1>1, <2>1, <2>2, SamePositionKeeps
<1> QED
  BY <1>1, <1>2, <1>3, WaitKeeps, SubmitEntryKeeps, SubmitAddOnKeeps, SubmitSellKeeps,
     RejectedKeeps, ResponseLostKeeps, AcknowledgedKeeps, AddOnNotRecordedKeeps,
     BookkeepingFailsKeeps, ExchangeFillsKeeps, StreamKeeps, CrashKeeps, StartKeeps,
     NewDayKeeps, TickKeeps, PriceMovesKeeps
  DEF Next, Thread, Environment

LEMMA Invariance == Spec => []Inv
<1>1. Init => Inv
  BY InitInv
<1>2. Inv /\ [Next]_vars => Inv'
  BY NextInv
<1> QED
  BY <1>1, <1>2, PTL DEF Spec

LEMMA HeldPositionHasAmount == Typed /\ IsPosition(held) => held > 0
BY PositionHasAmount DEF Typed

\* The entry price of a held position averages exactly the buys it consists of,
\* as long as no fill and no balance was lost.
THEOREM BasisIsExact == Spec => []BasisExact
<1>1. Inv => BasisExact
  BY HeldPositionHasAmount DEF Inv, BasisExact, Basis, Settled, InStage
<1> QED
  BY <1>1, Invariance, PTL

\* A restart reads back what the running bot knows and is never bolder than it.
THEOREM RestartIsCautious == Spec => []RestartCautious
<1>1. Inv => RestartCautious
  <2>1. SUFFICES ASSUME Inv, Settled, missed = 0, unrecorded = 0
                 PROVE  LET again == RecoveredMemory(ledger)
                        IN  /\ \A c \in {"trade", "stop", "profit"} :
                                 again.clocks[c] <= mem.clocks[c]
                            /\ IsPosition(held) =>
                                 /\ again.price = mem.price /\ again.adds = mem.adds
                                 /\ again.tpDone = mem.tpDone
                                 /\ again.armed => mem.armed
    BY DEF RestartCautious
  <2> DEFINE again == RecoveredMemory(ledger)
  <2>2. /\ again.price = IF ledger.left > 0 THEN ledger.lots ELSE {}
        /\ ledger.left = 0 \/ ledger.ends = {ledger.left} => again.adds = 0
        /\ again.tpDone = ledger.tpDone /\ again.armed = ledger.armed
        /\ again.clocks = ledger.clocks
    BY <2>1, RecoveredFields DEF Inv, Typed
  <2> HIDE DEF again
  <2>3. NoLater(ledger.clocks, mem.clocks)
    BY <2>1 DEF Inv, ClocksKept, Settled, Exact, InStage
  <2>4. \A c \in {"trade", "stop", "profit"} : again.clocks[c] <= mem.clocks[c]
    <3>1. /\ ledger.clocks.trade = ledger.clocks["trade"]
          /\ ledger.clocks.stop = ledger.clocks["stop"]
          /\ ledger.clocks.profit = ledger.clocks["profit"]
      OBVIOUS
    <3> QED
      BY <2>2, <2>3 DEF NoLater
  <2>5. IsPosition(held) =>
          /\ again.price = mem.price /\ again.adds = mem.adds
          /\ again.tpDone = mem.tpDone
          /\ again.armed => mem.armed
    <3>1. SUFFICES ASSUME IsPosition(held)
                   PROVE  /\ again.price = mem.price /\ again.adds = mem.adds
                          /\ again.tpDone = mem.tpDone
                          /\ again.armed => mem.armed
      OBVIOUS
    <3>2. held > 0 /\ held \in Nat /\ up /\ order.stage = "none"
      BY <2>1, <3>1, HeldPositionHasAmount DEF Inv, Typed, Settled
    <3>3. /\ ledger.left >= held /\ ledger.lots = lots /\ ledger.ends = {ledger.left}
          /\ mem.adds = 0
          /\ (mem.tpDone <=> ledger.tpDone) /\ (ledger.armed => mem.armed)
      BY <2>1, <3>2 DEF Inv, Recorded, Exact, InStage
    <3>4. lots = mem.price
      BY <2>1, <3>2 DEF Inv, Basis, InStage
    <3>5. ledger.left > 0
      BY <2>1, <3>2, <3>3 DEF Inv, Typed, Ledgers
    <3>6. again.price = mem.price /\ again.adds = mem.adds
      BY <2>2, <3>3, <3>4, <3>5
    <3>7. mem.tpDone = ledger.tpDone
      <4>1. mem.tpDone \in BOOLEAN /\ ledger.tpDone \in BOOLEAN
        BY <2>1 DEF Inv, Typed, Memories, Ledgers
      <4> QED
        BY <3>3, <4>1
    <3> QED
      BY <2>2, <3>3, <3>6, <3>7, Zenon
  <2> QED
    BY <2>4, <2>5 DEF again
<1> QED
  BY <1>1, Invariance, PTL

\* No buy is sent before the cooldowns of the orders really executed are over, and
\* none once the results of the date reach the loss limit, restarts included.
THEOREM BuysAreAllowed == Spec => BuysAllowed
<1>1. ASSUME Inv, [Next]_vars, Submits({"entry", "add_on"}), missed = 0
      PROVE  /\ fills.trade >= TradeInterval /\ fills.stop >= StopCooldown
             /\ fills.profit >= ProfitCooldown /\ today.gross > -MaxDailyLoss
  <2>1. order.stage = "none" /\ order'.stage = "sent" /\ order'.kind \in {"entry", "add_on"}
    BY <1>1 DEF Submits
  <2>2. \E F \in Seen, c \in BOOLEAN : Look(F, c) /\ MayBuy(Looked(F, c)) /\ Passing
    <3>1. CASE SubmitEntry
      BY <3>1, Zenon DEF SubmitEntry, EntryReady
    <3>2. CASE SubmitAddOn
      BY <3>2, Zenon DEF SubmitAddOn, AddOnReady
    <3>3. ~SubmitSell
      <4>1. SUFFICES ASSUME SubmitSell PROVE FALSE
        OBVIOUS
      <4>2. PICK F \in Seen : Submit(SellOrder(Looked(F, FALSE), F))
        BY <4>1, Zenon DEF SubmitSell
      <4>3. order'.kind = "sell"
        BY <4>2 DEF Submit, SellOrder, NoOrder
      <4> QED
        BY <2>1, <4>3
    <3>4. order' # NoOrder
      BY <2>1, NoOrderFields
    <3>5. order' # order
      BY <2>1
    <3>6. CASE Thread
      BY <2>1, <3>1, <3>2, <3>3, <3>4, <3>5, <3>6
      DEF Thread, Wait, Rejected, ResponseLost, Acknowledged, Record, AddOnNotRecorded,
          BookkeepingFails
    <3>7. CASE Environment
      BY <2>1, <3>4, <3>5, <3>7
      DEF Environment, ExchangeFills, StreamDelivers, StreamStops, StreamReturns, Crash, Start,
          NewDay, Tick, PriceMoves, bot
    <3>8. CASE UNCHANGED vars
      BY <3>5, <3>8 DEF vars, bot
    <3> QED
      BY <1>1, <3>6, <3>7, <3>8 DEF Next
  <2>3. PICK F \in Seen, c \in BOOLEAN : Look(F, c) /\ MayBuy(Looked(F, c)) /\ Passing
    BY <2>2, Zenon
  <2>4. /\ mem' = Looked(F, c) /\ mem'.clocks = mem.clocks /\ up
    BY <1>1, <2>3, LookFields, Zenon
  <2>5. /\ mem \in Memories /\ fills \in Clocks /\ today.gross \in Int /\ today.net \in Int
        /\ pnl \in Int
    BY <1>1 DEF Inv, Typed
  <2>6. ~InCooldown(mem') /\ DailyResult > -MaxDailyLoss
    BY <2>3, <2>4 DEF MayBuy
  <2>7. NoLater(mem.clocks, fills)
    BY <1>1, <2>1, <2>4 DEF Inv, ClocksKept, InStage
  <2>8. mem.clocks \in Clocks
    BY <2>5 DEF Memories
  <2>9. /\ fills.trade >= TradeInterval /\ fills.stop >= StopCooldown
        /\ fills.profit >= ProfitCooldown
    BY <2>4, <2>5, <2>6, <2>7, <2>8, BoundsTyped DEF InCooldown, NoLater, Clocks, Ages
  <2>10. DailyResult <= today.gross /\ DailyResult \in Int
    BY <1>1, <2>1, <2>4, <2>5 DEF Inv, LossesKept, DailyResult, InStage
  <2> QED
    BY <2>5, <2>6, <2>9, <2>10, BoundsTyped
<1>2. Inv /\ [Next]_vars =>
        [Submits({"entry", "add_on"}) /\ missed = 0 =>
           /\ fills.trade >= TradeInterval /\ fills.stop >= StopCooldown
           /\ fills.profit >= ProfitCooldown /\ today.gross > -MaxDailyLoss]_vars
  BY <1>1
<1> QED
  BY <1>2, Invariance, PTL DEF Spec, BuysAllowed

-----------------------------------------------------------------------------
(* The account's position implements the abstract promise                  *)

LEMMA MissedOnlyGrows == Inv /\ [Next]_vars => missed' \in Nat /\ missed <= missed'
<1>1. SUFFICES ASSUME Inv, [Next]_vars PROVE missed' \in Nat /\ missed <= missed'
  OBVIOUS
<1>2. missed \in Nat /\ unrecorded \in Nat
  BY <1>1 DEF Inv, Typed
<1>3. ASSUME NEW F, NEW c, Look(F, c) PROVE missed' \in Nat /\ missed <= missed'
  BY <1>2, <1>3 DEF Look
<1>4. CASE Wait \/ SubmitEntry \/ SubmitAddOn \/ SubmitSell
  <2>1. \E F \in Seen, c \in BOOLEAN : Look(F, c)
    BY <1>4, Zenon DEF Wait, SubmitEntry, SubmitAddOn, SubmitSell
  <2> QED
    BY <1>3, <2>1
<1>5. CASE Rejected \/ ResponseLost \/ Acknowledged \/ Record \/ AddOnNotRecorded
             \/ BookkeepingFails
  <2>1. CASE Record
    BY <1>2, <2>1 DEF Record, observers
  <2>2. CASE Rejected \/ Acknowledged
    <3>1. UNCHANGED observers
      BY <2>2, Zenon DEF Rejected, Acknowledged
    <3> QED
      BY <1>2, <3>1 DEF observers
  <2>3. CASE ResponseLost \/ AddOnNotRecorded \/ BookkeepingFails
    BY <1>2, <2>3 DEF ResponseLost, AddOnNotRecorded, BookkeepingFails
  <2> QED
    BY <1>5, <2>1, <2>2, <2>3
<1>6. CASE Environment
  BY <1>2, <1>6
  DEF Environment, ExchangeFills, Report, StreamDelivers, StreamStops, StreamReturns, Crash,
      Start, NewDay, Tick, PriceMoves, observers
<1>7. CASE UNCHANGED vars
  BY <1>2, <1>7 DEF vars, observers
<1> QED
  BY <1>1, <1>4, <1>5, <1>6, <1>7 DEF Next, Thread

\* Only an executed order changes the position.
LEMMA OnlyFillsTrade ==
  ASSUME [Next]_vars, ~ExchangeFills
  PROVE  held' = held /\ life' = life
<1>1. CASE SubmitEntry \/ SubmitAddOn \/ SubmitSell
  <2>1. \E o : Submit(o)
    BY <1>1, Zenon DEF SubmitEntry, SubmitAddOn, SubmitSell
  <2> QED
    BY <2>1 DEF Submit, exchange
<1>2. CASE Wait \/ Rejected \/ ResponseLost \/ Acknowledged \/ Record \/ AddOnNotRecorded
             \/ BookkeepingFails
  BY <1>2
  DEF Wait, Rejected, ResponseLost, Acknowledged, Record, AddOnNotRecorded, BookkeepingFails,
      exchange, observers
<1>3. CASE Environment
  BY <1>3
  DEF Environment, StreamDelivers, StreamStops, StreamReturns, Crash, Start, NewDay, Tick,
      PriceMoves, exchange, observers
<1>4. CASE UNCHANGED vars
  BY <1>4 DEF vars, exchange, observers
<1> QED
  BY <1>1, <1>2, <1>3, <1>4 DEF Next, Thread

LEMMA FillsPromised ==
  ASSUME Inv, ExchangeFills
  PROVE  Promise!Next
<1>1. /\ order.stage = "sent"
      /\ missed' \in Nat /\ missed <= missed' /\ held' \in Nat
      /\ order.kind # "sell" =>
           /\ held' > 0
           /\ order.kind = "entry" => life'.adds = 0 /\ life'.parts = 0
           /\ order.kind = "add_on" => life'.adds = life.adds + 1 /\ life'.parts = life.parts
      /\ order.kind = "sell" =>
           /\ order.qty <= held /\ held' = held - order.qty
           /\ order.partly /\ held' > 0 => life'.adds = life.adds /\ life'.parts = life.parts + 1
           /\ ~(order.partly /\ held' > 0) => life'.adds = 0 /\ life'.parts = 0
  BY FillsFields
<1>2. /\ order.kind = "entry" => (held > 0 => missed > 0)
      /\ order.kind = "add_on" => mem.adds < MaxAddOns /\ (held = 0 => missed > 0)
      /\ order.kind = "sell" =>
           /\ order.qty > 0 /\ mem.price # {}
           /\ order.partly => ~mem.tpDone
           /\ missed = 0 => IF order.partly THEN order.qty < held ELSE order.qty = held
  BY <1>1, Zenon DEF Inv, OrderFits, EntryFits, AddOnFits, SellFits, InStage, IsKind
<1>3. /\ up /\ held \in Nat /\ missed \in Nat /\ life \in Lives /\ mem \in Memories
      /\ order.qty \in Nat /\ order.partly \in BOOLEAN
      /\ order.kind \in {"entry", "add_on", "sell"}
  BY <1>1 DEF Inv, Typed, Orders, OrderFits, InStage
<1>4. life.adds \in Nat /\ life.parts \in Nat /\ mem.adds \in Nat /\ MaxAddOns \in Nat
  BY <1>3, BoundsTyped DEF Lives, Memories
<1>5. Promise!Slipping
  BY <1>1 DEF Promise!Slipping
<1>6. CASE order.kind = "entry"
  <2>1. Promise!Open
    BY <1>1, <1>2, <1>3, <1>5, <1>6 DEF Promise!Open
  <2> QED
    BY <2>1 DEF Promise!Next
<1>7. CASE order.kind = "add_on"
  <2>1. life.adds < MaxAddOns * (1 + missed)
    <3>1. Pending("add_on", {"filled"}) = 0
      BY <1>1 DEF Pending, One, InStage
    <3>2. Repeated(missed) \in Nat /\ MaxAddOns * (1 + missed) = MaxAddOns + Repeated(missed)
      BY <1>3, RepeatedTyped
    <3>3. life.adds <= mem.adds + Repeated(missed)
      BY <1>3, <1>4, <3>1, <3>2 DEF Inv, AddsCounted
    <3> QED
      BY <1>2, <1>4, <1>7, <3>2, <3>3
  <2>2. Promise!Add
    BY <1>1, <1>2, <1>3, <1>5, <1>7, <2>1 DEF Promise!Add
  <2> QED
    BY <2>2 DEF Promise!Next
<1>8. CASE order.kind = "sell" /\ order.partly /\ held' > 0
  <2>1. life.parts < 1 * (1 + missed)
    <3>1. Halving({"filled"}) = 0 /\ One(mem.tpDone) = 0
      BY <1>1, <1>2, <1>8 DEF Halving, One, InStage
    <3> QED
      BY <1>2, <1>3, <1>4, <1>8, <3>1 DEF Inv, PartsCounted
  <2>2. Promise!Halve
    BY <1>1, <1>3, <1>5, <1>8, <2>1 DEF Promise!Halve
  <2> QED
    BY <2>2 DEF Promise!Next
<1>9. CASE order.kind = "sell" /\ ~(order.partly /\ held' > 0)
  <2>1. held > 0 /\ (held' > 0 => missed > 0)
    BY <1>1, <1>2, <1>3, <1>9
  <2>2. Promise!Close
    BY <1>1, <1>5, <1>9, <2>1 DEF Promise!Close
  <2> QED
    BY <2>2 DEF Promise!Next
<1> QED
  BY <1>3, <1>6, <1>7, <1>8, <1>9

\* As the orders that are executed make it, the position of the account is opened
\* while it is closed, added to and halved a bounded number of times, and closed;
\* a slip of the bot's knowledge allows one more add-on and one more half, and
\* afterwards an entry may meet an open position and start its counts anew.
THEOREM PromiseIsKept == Spec => KeepsPromise
<1>1. Init => Promise!Init
  BY DEF Init, NewLife, Promise!Init
<1>2. Inv /\ [Next]_vars => [Promise!Next]_(Promise!vars)
  <2>1. SUFFICES ASSUME Inv, [Next]_vars PROVE [Promise!Next]_(Promise!vars)
    OBVIOUS
  <2>2. CASE ExchangeFills
    BY <2>1, <2>2, FillsPromised
  <2>3. CASE ~ExchangeFills
    <3>1. held' = held /\ life' = life
      BY <2>1, <2>3, OnlyFillsTrade
    <3>2. missed' \in Nat /\ missed <= missed'
      BY <2>1, MissedOnlyGrows
    <3>3. missed \in Nat
      BY <2>1 DEF Inv, Typed
    <3>4. Promise!Slip
      BY <3>1, <3>2, <3>3 DEF Promise!Slip, Promise!Slipping
    <3> QED
      BY <3>4 DEF Promise!Next
  <2> QED
    BY <2>2, <2>3
<1> QED
  BY <1>1, <1>2, Invariance, PTL DEF Spec, KeepsPromise, Promise!Spec
=============================================================================
