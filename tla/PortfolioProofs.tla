-------------------------- MODULE PortfolioProofs --------------------------
(***************************************************************************)
(* Theorems about Portfolio, for any assets, processes, prices and bounds. *)
(***************************************************************************)
EXTENDS Portfolio, FiniteSetTheorems, SequenceTheorems, TLAPS

-----------------------------------------------------------------------------
(* Folds over finite sets                                                  *)

LEMMA SmallestExists ==
  ASSUME NEW S \in SUBSET Nat, S # {}
  PROVE  \E n \in S : \A m \in S : n <= m
<1> DEFINE R == OpToRel(<, Nat)
<1>1. PICK n \in S : \A m \in S : ~(<<m, n>> \in R)
  <2> HIDE DEF R
  <2>1. IsWellFoundedOn(R, Nat)
    BY NatLessThanWellFounded DEF R
  <2> QED
    BY <2>1, WFMin
<1>2. \A m \in S : <<m, n>> \in R <=> m < n
  BY DEF OpToRel
<1>3. \A m \in S : ~(m < n)
  BY <1>1, <1>2
<1> HIDE DEF R
<1> QED
  BY <1>3

LEMMA LargestExists ==
  ASSUME NEW n \in Nat, NEW S \in SUBSET (1..n), S # {}
  PROVE  Max(S) \in S /\ \A i \in S : i <= Max(S)
<1> DEFINE D == {n - i : i \in S}
<1>1. D \in SUBSET Nat /\ D # {}
  <2>1. D \in SUBSET Nat
    OBVIOUS
  <2>2. PICK i \in S : TRUE
    OBVIOUS
  <2>3. n - i \in D
    OBVIOUS
  <2> QED
    BY <2>1, <2>3
<1>2. PICK d \in D : \A e \in D : d <= e
  BY <1>1, SmallestExists
<1>3. PICK x \in S : d = n - x
  OBVIOUS
<1>4. ASSUME NEW y \in S PROVE x >= y
  <2>1. n - y \in D /\ x \in 1..n /\ y \in 1..n
    OBVIOUS
  <2>2. n - x <= n - y
    BY <1>2, <1>3, <2>1
  <2> QED
    BY <2>1, <2>2
<1>5. Max(S) \in S /\ \A y \in S : Max(S) >= y
  BY <1>4, Zenon DEF Max
<1> QED
  BY <1>5

\* Among some finite sets there is a smallest one.
LEMMA SmallestSet ==
  ASSUME NEW S, IsFiniteSet(S), NEW B \in SUBSET SUBSET S, B # {}
  PROVE  \E s \in B : \A t \in SUBSET S : Cardinality(t) < Cardinality(s) => t \notin B
<1> DEFINE N == {Cardinality(s) : s \in B}
<1>1. \A s \in SUBSET S : Cardinality(s) \in Nat
  BY FS_Subset, FS_CardinalityType
<1>2. PICK n \in N : \A m \in N : n <= m
  <2>1. N \in SUBSET Nat /\ N # {}
    BY <1>1
  <2> QED
    BY <2>1, SmallestExists
<1>3. PICK s \in B : n = Cardinality(s)
  OBVIOUS
<1>4. SUFFICES ASSUME NEW t \in SUBSET S, Cardinality(t) < Cardinality(s), t \in B
               PROVE  FALSE
  OBVIOUS
<1> QED
  BY <1>1, <1>2, <1>3, <1>4

LEMMA SmallerWithout ==
  ASSUME NEW S, IsFiniteSet(S), NEW s \in SUBSET S, NEW x \in s
  PROVE  /\ s \ {x} \in SUBSET S
         /\ Cardinality(s) \in Nat /\ Cardinality(s \ {x}) \in Nat
         /\ Cardinality(s \ {x}) = Cardinality(s) - 1
BY FS_Subset, FS_CardinalityType, FS_RemoveElement

\* A function defined by recursion over the subsets of S: c takes the element, o
\* combines it with the value of the rest.
Takes(c, S) == \A s \in SUBSET S : s # {} => c[s] \in s
FoldsOver(g, S, T, base, c, o) ==
  /\ g \in [SUBSET S -> T]
  /\ \A s \in SUBSET S : g[s] = IF s = {} THEN base ELSE o[<<c[s], g[s \ {c[s]}]>>]

LEMMA FoldExists ==
  ASSUME NEW S, IsFiniteSet(S), NEW T, NEW base \in T, NEW c, Takes(c, S),
         NEW o \in [S \X T -> T]
  PROVE  \E g : FoldsOver(g, S, T, base, c, o)
<1> USE DEF Takes
<1> DEFINE Upto(k) == {s \in SUBSET S : Cardinality(s) <= k}
           Folds(g, k) == /\ g \in [Upto(k) -> T]
                          /\ \A s \in Upto(k) :
                               g[s] = IF s = {} THEN base ELSE o[<<c[s], g[s \ {c[s]}]>>]
           Bad == {k \in Nat : ~\E g : Folds(g, k)}
<1>1. \A s \in SUBSET S : s # {} =>
        /\ s \ {c[s]} \in SUBSET S
        /\ Cardinality(s) \in Nat /\ Cardinality(s \ {c[s]}) = Cardinality(s) - 1
  BY SmallerWithout
<1>2. Cardinality({}) = 0
  BY FS_EmptySet
<1>3. Bad = {}
  <2>1. SUFFICES ASSUME Bad # {} PROVE FALSE
    OBVIOUS
  <2>2. PICK k \in Bad : \A j \in Bad : k <= j
    BY <2>1, SmallestExists
  <2>3. CASE k = 0
    <3> DEFINE g == [s \in Upto(0) |-> base]
    <3>1. \A s \in Upto(0) : s = {}
      BY <1>1, FS_Subset, FS_EmptySet, FS_CardinalityType
    <3>2. Folds(g, 0)
      BY <3>1
    <3> QED
      BY <2>2, <2>3, <3>2
  <2>4. CASE k > 0
    <3>1. k - 1 \in Nat /\ k - 1 \notin Bad
      <4> HIDE DEF Folds
      <4>1. k \in Nat
        BY <2>2
      <4>2. k - 1 \in Nat /\ ~(k <= k - 1)
        BY <2>4, <4>1
      <4> QED
        BY <2>2, <4>2
    <3>2. PICK f : Folds(f, k - 1)
      <4> HIDE DEF Folds
      <4> QED
        BY <3>1
    <3> DEFINE g == [s \in Upto(k) |->
                       IF s = {} THEN base ELSE o[<<c[s], f[s \ {c[s]}]>>]]
    <3>3. \A s \in Upto(k) : s # {} => s \ {c[s]} \in Upto(k - 1)
      BY <1>1, <2>2
    <3>4. \A s \in Upto(k - 1) : s \in Upto(k) /\ g[s] = f[s]
      <4>1. \A s \in Upto(k - 1) : s \in Upto(k)
        BY <2>2, FS_Subset, FS_CardinalityType
      <4> QED
        BY <3>2, <4>1
    <3>5. \A s \in Upto(k) : g[s] \in T
      <4>1. SUFFICES ASSUME NEW s \in Upto(k), s # {} PROVE o[<<c[s], f[s \ {c[s]}]>>] \in T
        OBVIOUS
      <4>2. c[s] \in S /\ f[s \ {c[s]}] \in T
        BY <3>2, <3>3, <4>1
      <4> QED
        BY <4>2
    <3>6. Folds(g, k)
      <4>1. g \in [Upto(k) -> T]
        BY <3>5
      <4>2. \A s \in Upto(k) : s # {} => g[s \ {c[s]}] = f[s \ {c[s]}]
        BY <3>3, <3>4
      <4> QED
        BY <4>1, <4>2
    <3> QED
      BY <2>2, <3>6
  <2> QED
    BY <2>2, <2>3, <2>4
<1>4. Cardinality(S) \in Nat /\ Upto(Cardinality(S)) = SUBSET S
  BY FS_Subset, FS_CardinalityType
<1>5. PICK g : Folds(g, Cardinality(S))
  BY <1>3, <1>4
<1> QED
  BY <1>4, <1>5 DEF FoldsOver

-----------------------------------------------------------------------------
(* Sums over the assets                                                    *)

Pick(s) == CHOOSE x \in s : TRUE

\* The sums over the sets of assets, as Sum adds them up.
Sums(f) ==
  CHOOSE it : it = [s \in SUBSET Assets |->
                      IF s = {} THEN 0 ELSE f[Pick(s)] + it[s \ {Pick(s)}]]

LEMMA AssetsFinite == IsFiniteSet(Assets)
BY PortfolioAssumption, Zenon

LEMMA SmallestAssets ==
  ASSUME NEW B \in SUBSET SUBSET Assets, B # {}
  PROVE  \E s \in B : \A t \in SUBSET Assets : Cardinality(t) < Cardinality(s) => t \notin B
BY AssetsFinite, SmallestSet

LEMMA SumIsLast == ASSUME NEW f PROVE Sum(f) = Sums(f)[Assets]
BY DEF Sum, Sums, Pick, MapThenSumSet, MapThenFoldSet

LEMMA PickIsMember == ASSUME NEW s, s # {} PROVE Pick(s) \in s
BY DEF Pick

LEMMA SumsRule ==
  ASSUME NEW f \in [Assets -> Nat]
  PROVE  /\ Sums(f) \in [SUBSET Assets -> Nat]
         /\ Sums(f)[{}] = 0
         /\ \A s \in SUBSET Assets : s # {} =>
              Sums(f)[s] = f[Pick(s)] + Sums(f)[s \ {Pick(s)}]
<1> DEFINE c == [s \in SUBSET Assets |-> Pick(s)]
           o == [p \in Assets \X Nat |-> f[p[1]] + p[2]]
           Rule(it) == it = [s \in SUBSET Assets |->
                               IF s = {} THEN 0 ELSE f[Pick(s)] + it[s \ {Pick(s)}]]
<1>1. \A s \in SUBSET Assets : s # {} => c[s] \in s
  BY PickIsMember
<1>2. o \in [Assets \X Nat -> Nat]
  OBVIOUS
<1>3. PICK g : FoldsOver(g, Assets, Nat, 0, c, o)
  <2>1. Takes(c, Assets)
    BY <1>1 DEF Takes
  <2>2. 0 \in Nat
    OBVIOUS
  <2> HIDE DEF c, o
  <2> QED
    BY <1>2, <2>1, <2>2, AssetsFinite, FoldExists
<1>4. ASSUME NEW s \in SUBSET Assets, s # {}
      PROVE  o[<<c[s], g[s \ {c[s]}]>>] = f[Pick(s)] + g[s \ {Pick(s)}]
  <2>1. c[s] = Pick(s) /\ Pick(s) \in Assets
    BY <1>4, PickIsMember
  <2>2. g[s \ {Pick(s)}] \in Nat
    BY <1>3 DEF FoldsOver
  <2> HIDE DEF c
  <2> QED
    BY <2>1, <2>2
<1>5. Rule(g)
  <2>1. \A s \in SUBSET Assets :
          g[s] = IF s = {} THEN 0 ELSE f[Pick(s)] + g[s \ {Pick(s)}]
    <3> HIDE DEF c, o
    <3> QED
      BY <1>3, <1>4, Zenon DEF FoldsOver
  <2>2. DOMAIN g = SUBSET Assets /\ g = [s \in DOMAIN g |-> g[s]]
    BY <1>3 DEF FoldsOver
  <2> HIDE DEF c, o
  <2> QED
    BY <2>1, <2>2
<1>6. Rule(Sums(f))
  BY <1>5, Zenon DEF Sums
<1>7. /\ DOMAIN Sums(f) = SUBSET Assets
      /\ Sums(f)[{}] = 0
      /\ \A s \in SUBSET Assets : s # {} =>
           Sums(f)[s] = f[Pick(s)] + Sums(f)[s \ {Pick(s)}]
  BY <1>6
<1>8. \A s \in SUBSET Assets : Sums(f)[s] \in Nat
  <2> DEFINE B == {s \in SUBSET Assets : Sums(f)[s] \notin Nat}
  <2>1. SUFFICES ASSUME B # {} PROVE FALSE
    OBVIOUS
  <2>2. PICK s \in B : \A t \in SUBSET Assets : Cardinality(t) < Cardinality(s) => t \notin B
    <3>1. B \in SUBSET SUBSET Assets
      OBVIOUS
    <3> HIDE DEF B
    <3> QED
      BY <2>1, <3>1, SmallestAssets
  <2>3. s # {}
    <3>1. {} \notin B
      BY <1>7
    <3> QED
      BY <2>2, <3>1
  <2>4. Sums(f)[s \ {Pick(s)}] \in Nat
    BY <2>2, <2>3, AssetsFinite, PickIsMember, SmallerWithout
  <2> QED
    BY <1>7, <2>2, <2>3, <2>4, PickIsMember
<1> QED
  BY <1>6, <1>7, <1>8

LEMMA SumTyped ==
  ASSUME NEW f \in [Assets -> Nat]
  PROVE  Sum(f) \in Nat
BY SumsRule, SumIsLast

LEMMA SumMonotone ==
  ASSUME NEW f \in [Assets -> Nat], NEW g \in [Assets -> Nat],
         \A a \in Assets : f[a] <= g[a]
  PROVE  Sum(f) <= Sum(g)
<1> DEFINE B == {s \in SUBSET Assets : ~(Sums(f)[s] <= Sums(g)[s])}
<1>1. SUFFICES ASSUME B # {} PROVE FALSE
  BY SumIsLast
<1>2. PICK s \in B : \A t \in SUBSET Assets : Cardinality(t) < Cardinality(s) => t \notin B
  <2>1. B \in SUBSET SUBSET Assets
    OBVIOUS
  <2> HIDE DEF B
  <2> QED
    BY <1>1, <2>1, SmallestAssets
<1>3. s # {}
  <2>1. Sums(f)[{}] = 0 /\ Sums(g)[{}] = 0
    BY SumsRule
  <2>2. {} \notin B
    BY <2>1
  <2> QED
    BY <1>2, <2>2
<1> DEFINE rest == s \ {Pick(s)}
<1>4. rest \in SUBSET Assets /\ Sums(f)[rest] <= Sums(g)[rest]
  BY <1>2, <1>3, AssetsFinite, PickIsMember, SmallerWithout
<1>5. Pick(s) \in Assets
  BY <1>3, PickIsMember
<1>6. /\ Sums(f)[s] = f[Pick(s)] + Sums(f)[rest] /\ Sums(f)[rest] \in Nat
      /\ Sums(g)[s] = g[Pick(s)] + Sums(g)[rest] /\ Sums(g)[rest] \in Nat
  BY <1>3, <1>4, SumsRule
<1> QED
  BY <1>2, <1>4, <1>5, <1>6

LEMMA SumBelow ==
  ASSUME NEW f \in [Assets -> Nat], NEW g \in [Assets -> Nat], NEW h \in [Assets -> Nat],
         \A a \in Assets : f[a] <= g[a] + h[a]
  PROVE  Sum(f) <= Sum(g) + Sum(h)
<1> DEFINE B == {s \in SUBSET Assets : ~(Sums(f)[s] <= Sums(g)[s] + Sums(h)[s])}
<1>1. SUFFICES ASSUME B # {} PROVE FALSE
  BY SumIsLast
<1>2. PICK s \in B : \A t \in SUBSET Assets : Cardinality(t) < Cardinality(s) => t \notin B
  <2>1. B \in SUBSET SUBSET Assets
    OBVIOUS
  <2> HIDE DEF B
  <2> QED
    BY <1>1, <2>1, SmallestAssets
<1>3. s # {}
  <2>1. Sums(f)[{}] = 0 /\ Sums(g)[{}] = 0 /\ Sums(h)[{}] = 0
    BY SumsRule
  <2>2. {} \notin B
    BY <2>1
  <2> QED
    BY <1>2, <2>2
<1> DEFINE rest == s \ {Pick(s)}
<1>4. rest \in SUBSET Assets /\ Sums(f)[rest] <= Sums(g)[rest] + Sums(h)[rest]
  BY <1>2, <1>3, AssetsFinite, PickIsMember, SmallerWithout
<1>5. Pick(s) \in Assets
  BY <1>3, PickIsMember
<1>6. /\ Sums(f)[s] = f[Pick(s)] + Sums(f)[rest] /\ Sums(f)[rest] \in Nat
      /\ Sums(g)[s] = g[Pick(s)] + Sums(g)[rest] /\ Sums(g)[rest] \in Nat
      /\ Sums(h)[s] = h[Pick(s)] + Sums(h)[rest] /\ Sums(h)[rest] \in Nat
  BY <1>3, <1>4, SumsRule
<1>7. f[Pick(s)] \in Nat /\ g[Pick(s)] \in Nat /\ h[Pick(s)] \in Nat
      /\ f[Pick(s)] <= g[Pick(s)] + h[Pick(s)]
  BY <1>5
<1> QED
  BY <1>2, <1>4, <1>6, <1>7

\* A larger summand makes the sum so much larger.
LEMMA SumAdds ==
  ASSUME NEW f \in [Assets -> Nat], NEW a \in Assets, NEW n \in Nat
  PROVE  Sum([f EXCEPT ![a] = @ + n]) = Sum(f) + n
<1> DEFINE g == [f EXCEPT ![a] = @ + n]
           Extra(s) == IF a \in s THEN n ELSE 0
           B == {s \in SUBSET Assets : Sums(g)[s] # Sums(f)[s] + Extra(s)}
<1>1. g \in [Assets -> Nat]
  OBVIOUS
<1>2. B = {}
  <2>1. SUFFICES ASSUME B # {} PROVE FALSE
    OBVIOUS
  <2>2. PICK s \in B : \A t \in SUBSET Assets : Cardinality(t) < Cardinality(s) => t \notin B
    <3>1. B \in SUBSET SUBSET Assets
      OBVIOUS
    <3> HIDE DEF B
    <3> QED
      BY <2>1, <3>1, SmallestAssets
  <2>3. Sums(f)[{}] = 0 /\ Sums(g)[{}] = 0
    <3> HIDE DEF g
    <3> QED
      BY <1>1, SumsRule
  <2>4. s # {}
    <3>1. {} \notin B
      BY <2>3
    <3> QED
      BY <2>2, <3>1
  <2> DEFINE rest == s \ {Pick(s)}
  <2>5. rest \in SUBSET Assets /\ Sums(g)[rest] = Sums(f)[rest] + Extra(rest)
    <3>1. rest \in SUBSET Assets /\ Cardinality(rest) < Cardinality(s)
      BY <2>2, <2>4, AssetsFinite, PickIsMember, SmallerWithout
    <3> HIDE DEF rest
    <3>2. rest \notin B
      BY <2>2, <3>1
    <3> QED
      BY <3>1, <3>2
  <2>6. Pick(s) \in Assets
    BY <2>4, PickIsMember
  <2>7. /\ Sums(f)[s] = f[Pick(s)] + Sums(f)[rest] /\ Sums(f)[rest] \in Nat
        /\ Sums(g)[s] = g[Pick(s)] + Sums(g)[rest]
    <3> HIDE DEF g
    <3> QED
      BY <1>1, <2>4, <2>5, SumsRule
  <2>8. CASE Pick(s) = a
    <3>1. Extra(s) = n /\ Extra(rest) = 0 /\ g[Pick(s)] = f[a] + n
      BY <2>4, <2>8, PickIsMember
    <3> QED
      BY <2>2, <2>5, <2>7, <2>8, <3>1
  <2>9. CASE Pick(s) # a
    <3>1. Extra(s) = Extra(rest) /\ g[Pick(s)] = f[Pick(s)] /\ Extra(s) \in Nat
      BY <2>6, <2>9
    <3> QED
      BY <2>2, <2>5, <2>6, <2>7, <3>1
  <2> QED
    BY <2>8, <2>9
<1>3. Sums(g)[Assets] = Sums(f)[Assets] + n
  BY <1>2
<1> QED
  BY <1>3, SumIsLast

LEMMA SumBounds ==
  ASSUME NEW f \in [Assets -> Nat], NEW a \in Assets
  PROVE  f[a] <= Sum(f)
<1> DEFINE g == [f EXCEPT ![a] = 0]
<1>1. g \in [Assets -> Nat] /\ f[a] \in Nat
  OBVIOUS
<1>2. f = [g EXCEPT ![a] = @ + f[a]]
  <2>1. \A b \in Assets : f[b] = [g EXCEPT ![a] = @ + f[a]][b]
    BY <1>1
  <2> QED
    BY <2>1
<1>3. Sum(g) \in Nat /\ Sum(f) = Sum(g) + f[a]
  <2> HIDE DEF g
  <2> QED
    BY <1>1, <1>2, SumTyped, SumAdds
<1> QED
  BY <1>1, <1>3

-----------------------------------------------------------------------------
(* The replay of one record                                                *)

Positions == [amount : Nat, cost : Nat]
Entries == [day : Nat, asset : Assets, side : {"buy", "sell"}, amount : Nat, value : Nat]

AtMost(p, q) == p.amount <= q.amount /\ p.cost <= q.cost

LEMMA RemainingTyped ==
  ASSUME NEW total \in Nat, NEW amount \in Nat \ {0}, NEW sold \in 0..amount
  PROVE  /\ Remaining(total, amount, sold) \in 0..total
         /\ sold = amount => Remaining(total, amount, sold) = 0
<1> DEFINE part == (total * sold) \div amount
<1>1. total * sold \in Nat /\ total * sold <= total * amount
  OBVIOUS
<1>2. part \in Nat
  BY <1>1
<1>3. part * amount <= total * sold
  BY <1>1
<1>4. part <= total
  <2>1. part * amount <= total * amount
    BY <1>1, <1>2, <1>3
  <2> HIDE DEF part
  <2>2. SUFFICES ASSUME part >= total + 1 PROVE FALSE
    BY <1>2
  <2>3. part * amount >= (total + 1) * amount
    BY <1>2, <2>2
  <2> QED
    BY <1>2, <2>1, <2>3
<1>5. sold = amount => part = total
  OBVIOUS
<1> QED
  BY <1>2, <1>4, <1>5 DEF Remaining

\* Selling the same amount from less, bought for less, leaves less cost.
LEMMA RemainingMonotone ==
  ASSUME NEW c \in Nat, NEW d \in Nat, c <= d,
         NEW m \in Nat, NEW n \in Nat, m <= n,
         NEW sold \in Nat, sold < m
  PROVE  Remaining(c, m, sold) <= Remaining(d, n, sold)
<1> DEFINE q == (c * sold) \div m
           r == (d * sold) \div n
<1>1. c * sold \in Nat /\ d * sold \in Nat
  OBVIOUS
<1>2. q \in Nat /\ r \in Nat
  BY <1>1
<1>3. c * sold < (q + 1) * m
  BY <1>1
<1>4. r * n <= d * sold
  BY <1>1
<1> HIDE DEF q, r
<1>5. r <= q + (d - c)
  <2>1. SUFFICES ASSUME r >= (q + 1) + (d - c) PROVE FALSE
    BY <1>2
  <2>2. (q + 1) * m \in Nat /\ (d - c) * sold \in Nat
    BY <1>2
  <2>3. r * n >= ((q + 1) + (d - c)) * n
    BY <1>2, <2>1
  <2>4. ((q + 1) + (d - c)) * n = (q + 1) * n + (d - c) * n
    BY <1>2
  <2>5. (q + 1) * n >= (q + 1) * m
    BY <1>2
  <2>6. (d - c) * n >= (d - c) * sold
    OBVIOUS
  <2>7. (d - c) * sold = d * sold - c * sold
    OBVIOUS
  <2>8. /\ r * n \in Int /\ (q + 1) * n \in Int /\ (q + 1) * m \in Int /\ (d - c) * n \in Int
        /\ (d - c) * sold \in Int
    BY <1>2
  <2> QED
    BY <1>1, <1>3, <1>4, <2>3, <2>4, <2>5, <2>6, <2>7, <2>8
<1>6. Remaining(c, m, sold) = c - q /\ Remaining(d, n, sold) = d - r
  BY DEF Remaining, q, r
<1> QED
  BY <1>2, <1>5, <1>6

IsFill(r) == r.side \in {"buy", "sell"} /\ r.amount \in Nat /\ r.value \in Nat

LEMMA ReplayTyped ==
  ASSUME NEW p \in Positions, NEW r, IsFill(r)
  PROVE  Replay(p, r) \in Positions
<1>1. CASE r.side = "sell" /\ r.amount < p.amount
  <2>1. Remaining(p.cost, p.amount, r.amount) \in 0..p.cost
    BY <1>1, RemainingTyped DEF Positions, IsFill
  <2> QED
    BY <1>1, <2>1 DEF Replay, Positions, IsFill
<1> QED
  BY <1>1 DEF Replay, Positions, IsFill

\* A replay that knows of less before a fill knows of less after it.
LEMMA ReplayMonotone ==
  ASSUME NEW p \in Positions, NEW q \in Positions, AtMost(p, q), NEW r, IsFill(r)
  PROVE  AtMost(Replay(p, r), Replay(q, r))
<1>1. CASE r.side = "buy"
  BY <1>1 DEF Replay, Positions, IsFill, AtMost
<1>2. CASE r.side = "sell" /\ r.amount >= p.amount
  <2>1. Replay(p, r).amount = 0 /\ Replay(p, r).cost = 0
    BY <1>2 DEF Replay
  <2>2. Replay(q, r) \in Positions
    BY ReplayTyped
  <2> QED
    BY <2>1, <2>2 DEF Positions, AtMost
<1>3. CASE r.side = "sell" /\ r.amount < p.amount
  <2>1. ~(r.amount >= p.amount) /\ ~(r.amount >= q.amount)
    BY <1>3 DEF Positions, IsFill, AtMost
  <2>2. /\ Replay(p, r) = [amount |-> p.amount - r.amount,
                           cost |-> Remaining(p.cost, p.amount, r.amount)]
        /\ Replay(q, r) = [amount |-> q.amount - r.amount,
                           cost |-> Remaining(q.cost, q.amount, r.amount)]
    BY <1>3, <2>1 DEF Replay
  <2>3. Remaining(p.cost, p.amount, r.amount) <= Remaining(q.cost, q.amount, r.amount)
    BY <1>3, RemainingMonotone DEF Positions, IsFill, AtMost
  <2> QED
    BY <2>2, <2>3 DEF Positions, IsFill, AtMost
<1> QED
  BY <1>1, <1>2, <1>3 DEF IsFill, Positions

LEMMA BuyAdds ==
  ASSUME NEW p \in Positions, NEW r, IsFill(r), r.side = "buy"
  PROVE  AtMost(p, Replay(p, r))
BY DEF Replay, Positions, IsFill, AtMost

LEMMA SellReduces ==
  ASSUME NEW p \in Positions, NEW r, IsFill(r), r.side = "sell"
  PROVE  AtMost(Replay(p, r), p)
<1>1. CASE r.amount >= p.amount
  BY <1>1 DEF Replay, Positions, AtMost
<1>2. CASE r.amount < p.amount
  <2>1. Remaining(p.cost, p.amount, r.amount) \in 0..p.cost
    BY <1>2, RemainingTyped DEF Positions, IsFill
  <2> QED
    BY <1>2, <2>1 DEF Replay, Positions, IsFill, AtMost
<1> QED
  BY <1>1, <1>2 DEF IsFill, Positions

LEMMA AtMostOrders ==
  /\ \A p \in Positions : AtMost(p, p)
  /\ \A p, q, r \in Positions : AtMost(p, q) /\ AtMost(q, r) => AtMost(p, r)
  /\ \A p \in Positions : AtMost(Nothing, p)
  /\ Nothing \in Positions
BY DEF AtMost, Positions, Nothing

-----------------------------------------------------------------------------
(* The replay of the files                                                 *)

Step(a, p, r) == IF r.asset = a THEN Replay(p, r) ELSE p

\* The replays over the sets of records of h, as FoldLeft computes them; those
\* over 1..k are the replays of the first k records.
Replays(a, h) ==
  CHOOSE it : it = [s \in SUBSET DOMAIN h |->
                      IF s = {} THEN Nothing
                      ELSE Step(a, it[s \ {Max(s)}], h[Max(s)])]
Played(a, h, k) == Replays(a, h)[1..k]

LoggedOf(a, h) ==
  FoldLeft(LAMBDA p, r : IF r.asset = a THEN Replay(p, r) ELSE p, Nothing, h)

LEMMA LoggedIsPlayed ==
  ASSUME NEW a, NEW h \in Seq(Entries)
  PROVE  LoggedOf(a, h) = Played(a, h, Len(h))
<1>1. LoggedOf(a, h) = Replays(a, h)[DOMAIN h]
  BY DEF LoggedOf, Replays, Step, FoldLeft, MapThenFoldSet
<1>2. DOMAIN h = 1..Len(h)
  OBVIOUS
<1> QED
  BY <1>1, <1>2 DEF Played

LEMMA LoggedNow == ASSUME NEW a PROVE Logged(a) = LoggedOf(a, history)
BY DEF Logged, LoggedOf
LEMMA LoggedNext == ASSUME NEW a PROVE Logged(a)' = LoggedOf(a, history')
BY DEF Logged, LoggedOf, FoldLeft, MapThenFoldSet

LEMMA EntryIsFill == ASSUME NEW r \in Entries PROVE IsFill(r)
BY DEF Entries, IsFill

LEMMA StepTyped ==
  ASSUME NEW a, NEW p \in Positions, NEW r \in Entries
  PROVE  Step(a, p, r) \in Positions
BY ReplayTyped, EntryIsFill DEF Step

LEMMA StepMonotone ==
  ASSUME NEW a, NEW p \in Positions, NEW q \in Positions, AtMost(p, q), NEW r \in Entries
  PROVE  AtMost(Step(a, p, r), Step(a, q, r))
BY ReplayMonotone, EntryIsFill DEF Step

LEMMA UpToFinite ==
  ASSUME NEW n \in Nat
  PROVE  IsFiniteSet(1..n)
BY FS_Interval

LEMMA PlayedRule ==
  ASSUME NEW a, NEW h \in Seq(Entries)
  PROVE  /\ Played(a, h, 0) = Nothing
         /\ \A k \in 1..Len(h) : Played(a, h, k) = Step(a, Played(a, h, k - 1), h[k])
         /\ \A k \in 0..Len(h) : Played(a, h, k) \in Positions
<1> DEFINE S == 1..Len(h)
           c == [s \in SUBSET S |-> Max(s)]
           o == [p \in S \X Positions |-> Step(a, p[2], h[p[1]])]
           Rule(it) == it = [s \in SUBSET S |->
                               IF s = {} THEN Nothing
                               ELSE Step(a, it[s \ {Max(s)}], h[Max(s)])]
<1>1. DOMAIN h = S /\ Len(h) \in Nat /\ IsFiniteSet(S)
  BY UpToFinite
<1>2. \A s \in SUBSET S : s # {} => Max(s) \in s
  BY <1>1, LargestExists, Zenon
<1>3. o \in [S \X Positions -> Positions]
  <2>1. \A i \in S : h[i] \in Entries
    OBVIOUS
  <2> QED
    BY <2>1, StepTyped
<1>4. PICK g : FoldsOver(g, S, Positions, Nothing, c, o)
  <2>1. Takes(c, S)
    BY <1>2 DEF Takes
  <2>2. Nothing \in Positions
    BY AtMostOrders
  <2> HIDE DEF c, o, S
  <2> QED
    BY <1>1, <1>3, <2>1, <2>2, FoldExists
<1>5. ASSUME NEW s \in SUBSET S, s # {}
      PROVE  o[<<c[s], g[s \ {c[s]}]>>] = Step(a, g[s \ {Max(s)}], h[Max(s)])
  <2>1. c[s] = Max(s) /\ Max(s) \in S
    BY <1>2, <1>5
  <2>2. g[s \ {Max(s)}] \in Positions
    BY <1>4 DEF FoldsOver
  <2> HIDE DEF c
  <2> QED
    BY <2>1, <2>2
<1>6. Rule(g)
  <2>1. \A s \in SUBSET S :
          g[s] = IF s = {} THEN Nothing ELSE Step(a, g[s \ {Max(s)}], h[Max(s)])
    <3> HIDE DEF c, o, S
    <3> QED
      BY <1>4, <1>5, Zenon DEF FoldsOver
  <2>2. DOMAIN g = SUBSET S /\ g = [s \in DOMAIN g |-> g[s]]
    BY <1>4 DEF FoldsOver
  <2> HIDE DEF c, o, S
  <2> QED
    BY <2>1, <2>2
<1>7. Rule(Replays(a, h))
  <2> HIDE DEF S
  <2> QED
    BY <1>1, <1>6, Zenon DEF Replays
<1>8. \A s \in SUBSET S : Replays(a, h)[s] =
        IF s = {} THEN Nothing ELSE Step(a, Replays(a, h)[s \ {Max(s)}], h[Max(s)])
  <2> HIDE DEF S
  <2> QED
    BY <1>7
<1>9. Played(a, h, 0) = Nothing
  <2>1. 1..0 = {} /\ {} \in SUBSET S
    OBVIOUS
  <2> HIDE DEF S
  <2> QED
    BY <1>8, <2>1, Zenon DEF Played
<1>10. ASSUME NEW k \in 1..Len(h)
       PROVE  Played(a, h, k) = Step(a, Played(a, h, k - 1), h[k])
  <2>1. 1..k \in SUBSET S /\ 1..k # {} /\ k \in 1..k
    OBVIOUS
  <2>2. Max(1..k) \in 1..k /\ \A i \in 1..k : i <= Max(1..k)
    <3>1. k \in Nat
      BY <1>1
    <3> QED
      BY <2>1, <3>1, LargestExists, Zenon
  <2>3. Max(1..k) = k
    BY <2>1, <2>2
  <2>4. (1..k) \ {k} = 1..(k - 1)
    OBVIOUS
  <2> HIDE DEF S
  <2> QED
    BY <1>8, <2>1, <2>3, <2>4, Zenon DEF Played
<1>11. \A k \in 0..Len(h) : Played(a, h, k) \in Positions
  <2> DEFINE Bad == {k \in 0..Len(h) : Played(a, h, k) \notin Positions}
  <2>1. SUFFICES ASSUME Bad # {} PROVE FALSE
    OBVIOUS
  <2>2. PICK k \in Bad : \A j \in Bad : k <= j
    <3>1. Bad \in SUBSET Nat
      BY <1>1
    <3> HIDE DEF Bad
    <3> QED
      BY <2>1, <3>1, SmallestExists
  <2>3. k # 0
    BY <1>9, AtMostOrders
  <2>4. k \in 1..Len(h) /\ Played(a, h, k - 1) \in Positions /\ h[k] \in Entries
    BY <1>1, <2>2, <2>3
  <2> QED
    BY <1>10, <2>2, <2>4, StepTyped
<1> QED
  BY <1>9, <1>10, <1>11

\* What is appended to a file changes no replay of what was there before.
LEMMA PlayedBefore ==
  ASSUME NEW a, NEW h \in Seq(Entries), NEW r \in Entries
  PROVE  \A k \in 0..Len(h) : Played(a, Append(h, r), k) = Played(a, h, k)
<1> DEFINE g == Append(h, r)
           Bad == {k \in 0..Len(h) : Played(a, g, k) # Played(a, h, k)}
<1>1. g \in Seq(Entries) /\ Len(g) = Len(h) + 1 /\ Len(h) \in Nat
      /\ \A k \in 1..Len(h) : g[k] = h[k]
  OBVIOUS
<1>2. SUFFICES ASSUME Bad # {} PROVE FALSE
  OBVIOUS
<1> HIDE DEF g
<1>3. PICK k \in Bad : \A j \in Bad : k <= j
  <2>1. Bad \in SUBSET Nat
    BY <1>1
  <2> HIDE DEF Bad
  <2> QED
    BY <1>2, <2>1, SmallestExists
<1>4. k # 0
  BY <1>1, PlayedRule
<1>5. k \in 1..Len(h) /\ k \in 1..Len(g) /\ k - 1 \in 0..Len(h)
  BY <1>1, <1>3, <1>4
<1>6. Played(a, g, k - 1) = Played(a, h, k - 1)
  BY <1>3, <1>5
<1>7. Played(a, g, k) = Step(a, Played(a, g, k - 1), g[k])
      /\ Played(a, h, k) = Step(a, Played(a, h, k - 1), h[k])
  BY <1>1, <1>5, PlayedRule
<1> QED
  BY <1>1, <1>3, <1>5, <1>6, <1>7

LEMMA PlayedAppend ==
  ASSUME NEW a, NEW h \in Seq(Entries), NEW r \in Entries
  PROVE  Played(a, Append(h, r), Len(Append(h, r))) = Step(a, Played(a, h, Len(h)), r)
<1> DEFINE g == Append(h, r)
           n == Len(h)
<1>1. g \in Seq(Entries) /\ Len(g) = n + 1 /\ n \in Nat /\ g[n + 1] = r
  OBVIOUS
<1>2. Played(a, g, n) = Played(a, h, n)
  BY <1>1, PlayedBefore
<1> HIDE DEF g, n
<1>3. n + 1 \in 1..Len(g) /\ (n + 1) - 1 = n
  BY <1>1
<1>4. Played(a, g, n + 1) = Step(a, Played(a, g, (n + 1) - 1), g[n + 1])
  BY <1>1, <1>3, PlayedRule
<1> QED
  BY <1>1, <1>2, <1>3, <1>4 DEF g, n

\* Deleting the first records never makes the files know of more, and changes
\* nothing for an asset that has none among them.
LEMMA PlayedRest ==
  ASSUME NEW a, NEW h \in Seq(Entries), NEW n \in 1..Len(h)
  PROVE  LET g == SubSeq(h, n + 1, Len(h))
         IN  /\ g \in Seq(Entries)
             /\ AtMost(Played(a, g, Len(g)), Played(a, h, Len(h)))
             /\ (\A i \in 1..n : h[i].asset # a) =>
                  Played(a, g, Len(g)) = Played(a, h, Len(h))
<1> DEFINE g == SubSeq(h, n + 1, Len(h))
           Fewer == {k \in 0..Len(g) : ~AtMost(Played(a, g, k), Played(a, h, n + k))}
           Some == {k \in 0..n : Played(a, h, k) # Nothing}
           Other == {k \in 0..Len(g) : Played(a, g, k) # Played(a, h, n + k)}
<1>1. g \in Seq(Entries) /\ Len(g) = Len(h) - n /\ Len(h) \in Nat /\ n \in Nat
      /\ Len(g) \in Nat /\ \A k \in 1..Len(g) : g[k] = h[n + k]
  OBVIOUS
<1> HIDE DEF g
<1>2. \A k \in 1..Len(g) :
        /\ k \in Nat /\ n + k \in 1..Len(h) /\ k - 1 \in 0..Len(g)
        /\ n + k - 1 \in 0..Len(h) /\ n + (k - 1) = n + k - 1
        /\ Played(a, g, k) = Step(a, Played(a, g, k - 1), h[n + k])
        /\ Played(a, h, n + k) = Step(a, Played(a, h, n + (k - 1)), h[n + k])
        /\ Played(a, g, k - 1) \in Positions /\ Played(a, h, n + (k - 1)) \in Positions
        /\ h[n + k] \in Entries
  <2>1. SUFFICES ASSUME NEW k \in 1..Len(g)
                 PROVE  /\ k \in Nat /\ n + k \in 1..Len(h) /\ k - 1 \in 0..Len(g)
                        /\ n + k - 1 \in 0..Len(h) /\ n + (k - 1) = n + k - 1
                        /\ Played(a, g, k) = Step(a, Played(a, g, k - 1), h[n + k])
                        /\ Played(a, h, n + k) = Step(a, Played(a, h, n + (k - 1)), h[n + k])
                        /\ Played(a, g, k - 1) \in Positions
                        /\ Played(a, h, n + (k - 1)) \in Positions
                        /\ h[n + k] \in Entries
    OBVIOUS
  <2>2. /\ k \in Nat /\ n + k \in 1..Len(h) /\ k - 1 \in 0..Len(g)
        /\ n + k - 1 \in 0..Len(h) /\ n + (k - 1) = n + k - 1
    BY <1>1
  <2>3. h[n + k] \in Entries /\ g[k] = h[n + k]
    BY <1>1, <2>2
  <2> QED
    <3>1. /\ Played(a, g, k) = Step(a, Played(a, g, k - 1), g[k])
          /\ Played(a, g, k - 1) \in Positions
      BY <1>1, <2>2, PlayedRule
    <3>2. /\ Played(a, h, n + k) = Step(a, Played(a, h, n + k - 1), h[n + k])
          /\ Played(a, h, n + k - 1) \in Positions
      <4> DEFINE j == n + k
      <4>1. j \in 1..Len(h) /\ j - 1 \in 0..Len(h)
        BY <2>2
      <4> HIDE DEF j
      <4>2. /\ Played(a, h, j) = Step(a, Played(a, h, j - 1), h[j])
            /\ Played(a, h, j - 1) \in Positions
        BY <4>1, PlayedRule
      <4> QED
        BY <4>2 DEF j
    <3> QED
      BY <2>2, <2>3, <3>1, <3>2
<1>3. Fewer = {}
  <2>1. SUFFICES ASSUME Fewer # {} PROVE FALSE
    OBVIOUS
  <2>2. PICK k \in Fewer : \A j \in Fewer : k <= j
    <3>1. Fewer \in SUBSET Nat
      BY <1>1
    <3> HIDE DEF Fewer
    <3> QED
      BY <2>1, <3>1, SmallestExists
  <2>3. k # 0
    <3>1. n + 0 = n /\ n \in 0..Len(h)
      BY <1>1
    <3>2. Played(a, g, 0) = Nothing /\ Played(a, h, n) \in Positions
      BY <1>1, <3>1, PlayedRule
    <3>3. AtMost(Played(a, g, 0), Played(a, h, n + 0))
      BY <3>1, <3>2, AtMostOrders
    <3> QED
      BY <2>2, <3>3
  <2>4. k \in 1..Len(g)
    BY <1>1, <2>2, <2>3
  <2>5. AtMost(Played(a, g, k - 1), Played(a, h, n + (k - 1)))
    <3>1. k - 1 \in 0..Len(g) /\ ~(k <= k - 1)
      BY <1>1, <2>4
    <3> QED
      BY <2>2, <3>1
  <2>6. AtMost(Played(a, g, k), Played(a, h, n + k))
    BY <1>2, <2>4, <2>5, StepMonotone
  <2> QED
    BY <2>2, <2>6
<1>4. ASSUME \A i \in 1..n : h[i].asset # a PROVE Some = {}
  <2>1. SUFFICES ASSUME Some # {} PROVE FALSE
    OBVIOUS
  <2>2. PICK k \in Some : \A j \in Some : k <= j
    <3>1. Some \in SUBSET Nat
      BY <1>1
    <3> HIDE DEF Some
    <3> QED
      BY <2>1, <3>1, SmallestExists
  <2>3. k # 0
    BY <1>1, <2>2, PlayedRule
  <2>4. k \in 1..n /\ k \in 1..Len(h) /\ k - 1 \in 0..n /\ ~(k <= k - 1)
    BY <1>1, <2>2, <2>3
  <2>5. Played(a, h, k - 1) = Nothing
    BY <2>2, <2>4
  <2>6. Played(a, h, k) = Step(a, Played(a, h, k - 1), h[k])
    BY <1>1, <2>4, PlayedRule
  <2>7. Played(a, h, k) = Nothing
    BY <1>4, <2>4, <2>5, <2>6 DEF Step
  <2> QED
    BY <2>2, <2>7
<1>5. ASSUME \A i \in 1..n : h[i].asset # a PROVE Other = {}
  <2>1. SUFFICES ASSUME Other # {} PROVE FALSE
    OBVIOUS
  <2>2. PICK k \in Other : \A j \in Other : k <= j
    <3>1. Other \in SUBSET Nat
      BY <1>1
    <3> HIDE DEF Other
    <3> QED
      BY <2>1, <3>1, SmallestExists
  <2>3. k # 0
    <3>1. n + 0 = n /\ n \in 0..n
      BY <1>1
    <3>2. Played(a, h, n) = Nothing
      BY <1>4, <1>5, <3>1
    <3>3. Played(a, g, 0) = Nothing
      BY <1>1, PlayedRule
    <3> QED
      BY <2>2, <3>1, <3>2, <3>3
  <2>4. k \in 1..Len(g)
    BY <1>1, <2>2, <2>3
  <2>5. k - 1 \in 0..Len(g) /\ ~(k <= k - 1)
    BY <1>1, <2>4
  <2>6. Played(a, g, k - 1) = Played(a, h, n + (k - 1))
    BY <2>2, <2>5
  <2> QED
    BY <1>2, <2>2, <2>4, <2>6
<1>6. Len(g) \in 0..Len(g) /\ n + Len(g) = Len(h)
  BY <1>1
<1>7. AtMost(Played(a, g, Len(g)), Played(a, h, Len(h)))
  BY <1>3, <1>6
<1>8. ASSUME \A i \in 1..n : h[i].asset # a
      PROVE  Played(a, g, Len(g)) = Played(a, h, Len(h))
  BY <1>5, <1>6, <1>8
<1> QED
  BY <1>1, <1>7, <1>8 DEF g

-----------------------------------------------------------------------------
(* The order a process may make                                            *)

LEMMA BoundsTyped ==
  /\ Owner \in [Assets -> Bots] /\ Target \in [Assets -> Nat \ {0}]
  /\ Bonus \in 0..100 /\ Cash \in Nat /\ MinBuy \in Nat
  /\ Prices \subseteq Nat \ {0} /\ Parts \subseteq 1..100
  /\ KeepDays \in Nat /\ MaxOrders \in Nat /\ MaxCrashes \in Nat /\ MaxDay \in Nat
BY PortfolioAssumption

LEMMA MinOfTwo ==
  ASSUME NEW m \in Nat, NEW n \in Nat
  PROVE  Min({m, n}) \in Nat /\ Min({m, n}) <= m /\ Min({m, n}) <= n
<1>1. \E x \in {m, n} : \A y \in {m, n} : x =< y
  <2>1. CASE m <= n
    BY <2>1
  <2>2. CASE n <= m
    BY <2>2
  <2> QED
    BY <2>1, <2>2
<1>2. Min({m, n}) \in {m, n} /\ \A y \in {m, n} : Min({m, n}) =< y
  BY <1>1, Zenon DEF Min
<1>3. Min({m, n}) = m \/ Min({m, n}) = n
  BY <1>2
<1> QED
  BY <1>2, <1>3

LEMMA WholeTyped ==
  ASSUME NEW a \in Assets
  PROVE  Sum(Target) \in Nat \ {0} /\ Whole \in Nat \ {0}
<1>1. Target \in [Assets -> Nat] /\ Target[a] > 0
  BY BoundsTyped
<1>2. Sum(Target) \in Nat /\ Target[a] <= Sum(Target)
  BY <1>1, SumTyped, SumBounds
<1>3. Target[a] \in Nat /\ Sum(Target) \in Nat \ {0}
  BY <1>1, <1>2
<1> QED
  BY <1>3 DEF Whole

LEMMA ShareTyped ==
  ASSUME NEW a \in Assets, NEW bonus \in BOOLEAN
  PROVE  Share(a, bonus) \in Nat
<1>1. Sum(Target) \in Nat /\ Whole \in Nat
  BY WholeTyped
<1>2. Target[a] \in Nat /\ Bonus \in Nat
  BY BoundsTyped
<1>3. 100 * Target[a] + Bonus * Sum(Target) \in Nat
  BY <1>1, <1>2
<1>4. Min({100 * Target[a] + Bonus * Sum(Target), Whole}) \in Nat
  <2> DEFINE n == 100 * Target[a] + Bonus * Sum(Target)
  <2> HIDE DEF n
  <2> QED
    BY <1>1, <1>3, MinOfTwo DEF n
<1> QED
  BY <1>2, <1>4 DEF Share

\* What an order may take leaves the asset within its share of the account.
LEMMA ApprovedFits ==
  ASSUME NEW b \in Bots, NEW a \in Assets, NEW bonus \in BOOLEAN, cash \in Nat,
         held \in [Assets -> Nat], visit[b].basis \in [Assets -> Nat]
  PROVE  /\ Counted(b) \in [Assets -> Nat]
         /\ Approved(b, a, bonus) \in Nat
         /\ Approved(b, a, bonus) > 0 =>
              (Counted(b)[a] + Approved(b, a, bonus)) * Whole
                <= Share(a, bonus) * (cash + Sum(Counted(b)))
<1> DEFINE X == cash + Sum(Counted(b))
           budget == Budget(b, a, bonus)
           rest == Clamped(budget - Counted(b)[a])
           value == Approved(b, a, bonus)
<1>1. Counted(b) \in [Assets -> Nat]
  BY DEF Counted
<1>2. X \in Nat /\ Share(a, bonus) \in Nat /\ Whole \in Nat \ {0}
  BY <1>1, SumTyped, ShareTyped, WholeTyped
<1>3. X * Share(a, bonus) \in Nat
  BY <1>2
<1>4. budget = (X * Share(a, bonus)) \div Whole
  BY DEF Budget
<1>5. Counted(b)[a] \in Nat
  BY <1>1
<1> HIDE DEF X
<1>6. budget \in Nat /\ budget * Whole <= X * Share(a, bonus)
  <2> DEFINE Y == X * Share(a, bonus)
  <2> HIDE DEF Y
  <2> SUFFICES budget \in Nat /\ budget * Whole <= Y
    BY DEF Y
  <2>1. Y \in Nat /\ budget = Y \div Whole
    BY <1>3, <1>4 DEF Y
  <2> QED
    BY <1>2, <2>1
<1> HIDE DEF budget
<1>7. rest \in Nat /\ (rest > 0 => rest = budget - Counted(b)[a])
  BY <1>5, <1>6 DEF Clamped
<1>8. value = Min({cash, rest})
  BY DEF Approved, budget
<1> HIDE DEF rest, value
<1>9. value \in Nat /\ value <= rest
  <2>1. Min({cash, rest}) \in Nat /\ Min({cash, rest}) <= rest
    BY <1>7, MinOfTwo
  <2> QED
    BY <1>8, <2>1
<1>10. ASSUME value > 0
       PROVE  (Counted(b)[a] + value) * Whole <= Share(a, bonus) * X
  <2>1. Counted(b)[a] + value <= budget
    BY <1>5, <1>6, <1>7, <1>9, <1>10
  <2> DEFINE n == Counted(b)[a] + value
             Y == X * Share(a, bonus)
  <2>2. n \in Nat
    BY <1>5, <1>9
  <2>3. Share(a, bonus) * X = Y /\ Y \in Nat
    BY <1>2
  <2> HIDE DEF n, Y
  <2>4. n <= budget /\ budget * Whole <= Y
    BY <1>6, <2>1 DEF n, Y
  <2>5. n * Whole <= budget * Whole
    BY <1>2, <1>6, <2>2, <2>4
  <2>6. n * Whole <= Y
    BY <1>2, <1>6, <2>2, <2>3, <2>4, <2>5
  <2> QED
    BY <2>3, <2>6 DEF n
<1> QED
  BY <1>1, <1>9, <1>10 DEF X, value

-----------------------------------------------------------------------------
(* The inductive invariant                                                 *)

\* The fill of an asset that its process has not recorded yet.
Filling(a) == visit[Owner[a]].step \in {"bought", "sold"} /\ visit[Owner[a]].asset = a

\* What the files say of an asset once its fill is recorded.
Settled(a) == IF Filling(a) THEN Replay(Logged(a), visit[Owner[a]]) ELSE Logged(a)

Truth(a) == [amount |-> held[a], cost |-> cost[a]]

\* A process trades its own assets.
OwnVisits == \A b \in Bots : ~At(b, "idle") => visit[b].asset \in Assigned(b)

\* What was filled has the side and some amount.
FillsTrue ==
  \A b \in Bots :
    /\ At(b, "bought") => visit[b].side = "buy"
    /\ At(b, "sold") => visit[b].side = "sell"

\* The files never know of more than there is, but where a record was too large or a
\* sale is missing, nor of less, but where a record was too small or a buy is missing.
NeverOver == \A a \in Assets \ overstated : AtMost(Settled(a), Truth(a))
NeverUnder == \A a \in Assets \ understated : AtMost(Truth(a), Settled(a))

\* A visit has read the cost of its own asset but for what is missing, and of all the
\* assets no more than there is but for the excess; the order it is about to send
\* leaves the asset within its share of the account, but for both.
Reads(b) ==
  /\ cost[visit[b].asset] <= visit[b].basis[visit[b].asset] + missing[b]
  /\ Sum(visit[b].basis) <= Sum(cost) + excess[b]
Fits(b) ==
  (cost[visit[b].asset] + visit[b].value - missing[b]) * Whole
    <= Share(visit[b].asset, visit[b].bonus) * (cash + Sum(cost) + excess[b])
VisitTrue(b) == (At(b, "refreshed") => Reads(b)) /\ (At(b, "decided") => Fits(b))
VisitsTrue == \A b \in Bots : VisitTrue(b)

Inv ==
  /\ TypeOK /\ OwnVisits /\ FillsTrue /\ NeverOver /\ NeverUnder /\ VisitsTrue

-----------------------------------------------------------------------------
(* Type correctness                                                        *)

EntriesUntil(d) == [day : 0..d, asset : Assets, side : {"buy", "sell"}, amount : Nat, value : Nat]

LEMMA HistoryTyped ==
  ASSUME NEW d \in Nat, NEW e \in Nat, d <= e, NEW h \in Seq(EntriesUntil(d))
  PROVE  h \in Seq(EntriesUntil(e)) /\ h \in Seq(Entries)
<1>1. EntriesUntil(d) \subseteq EntriesUntil(e) /\ EntriesUntil(d) \subseteq Entries
  BY DEF EntriesUntil, Entries
<1>2. h = [i \in 1..Len(h) |-> h[i]] /\ Len(h) \in Nat
      /\ \A i \in 1..Len(h) : h[i] \in EntriesUntil(d)
  OBVIOUS
<1> QED
  BY <1>1, <1>2

LEMMA LoggedTyped ==
  ASSUME TypeOK, NEW a
  PROVE  history \in Seq(Entries) /\ Logged(a) = Played(a, history, Len(history))
         /\ Logged(a) \in Positions
<1>1. day \in Nat /\ history \in Seq(EntriesUntil(day))
  BY BoundsTyped DEF TypeOK, EntriesUntil
<1>2. history \in Seq(Entries)
  BY <1>1, HistoryTyped
<1>3. Logged(a) = Played(a, history, Len(history))
  BY <1>2, LoggedNow, LoggedIsPlayed
<1>4. Len(history) \in 0..Len(history)
  BY <1>2
<1> QED
  BY <1>2, <1>3, <1>4, PlayedRule

LEMMA VisitKinds ==
  ASSUME NEW v \in Visits
  PROVE  \/ v.step = "idle" /\ v = Idle
         \/ /\ v.step = "refreshed" /\ v.asset \in Assets /\ v.basis \in [Assets -> Nat]
         \/ /\ v.step = "decided" /\ v.asset \in Assets /\ v.value \in Nat
            /\ v.bonus \in BOOLEAN
         \/ /\ v.step \in {"bought", "sold"} /\ v.asset \in Assets /\ IsFill(v)
BY DEF Visits, Idle, Fills, IsFill

LEMMA InitType == Init => TypeOK
<1> SUFFICES ASSUME Init PROVE TypeOK
  OBVIOUS
<1>1. Idle \in Visits
  BY DEF Visits
<1>2. visit \in [Bots -> Visits] /\ history \in Seq(EntriesUntil(day))
  BY <1>1 DEF Init
<1> QED
  BY <1>2, BoundsTyped DEF Init, TypeOK, EntriesUntil

LEMMA IdleTyped == Idle \in Visits /\ Idle.step = "idle"
BY DEF Visits, Idle

LEMMA RefreshType ==
  ASSUME TypeOK, NEW b \in Bots, NEW a \in Assets, Refresh(b, a)
  PROVE  TypeOK'
<1> DEFINE v == [step |-> "refreshed", asset |-> a, basis |-> [x \in Assets |-> Logged(x).cost]]
<1>1. [x \in Assets |-> Logged(x).cost] \in [Assets -> Nat]
  BY LoggedTyped DEF Positions
<1>2. v \in Visits
  BY <1>1 DEF Visits
<1> HIDE DEF v
<1>3. visit' = [visit EXCEPT ![b] = v]
  BY DEF Refresh, v
<1>4. excess' \in [Bots -> Nat]
  <2> DEFINE over == [x \in Assets |-> Clamped(Logged(x).cost - cost[x])]
  <2>1. over \in [Assets -> Nat]
    BY LoggedTyped DEF Positions, Clamped, TypeOK
  <2> HIDE DEF over
  <2>2. excess' = [excess EXCEPT ![b] = Sum(over)]
    BY DEF Refresh, over
  <2> QED
    BY <2>1, <2>2, SumTyped DEF TypeOK
<1>5. missing' \in [Bots -> Nat]
  BY LoggedTyped DEF Positions, Clamped, TypeOK, Refresh
<1> QED
  BY <1>2, <1>3, <1>4, <1>5 DEF TypeOK, Refresh, account, observers, bounds

LEMMA LeaveType ==
  ASSUME TypeOK, NEW b \in Bots, Leave(b)
  PROVE  visit' \in [Bots -> Visits] /\ excess' \in [Bots -> Nat] /\ missing' \in [Bots -> Nat]
BY IdleTyped DEF TypeOK, Leave

LEMMA DecideType ==
  ASSUME TypeOK, NEW b \in Bots, Decide(b)
  PROVE  TypeOK'
<1> DEFINE a == visit[b].asset
<1>1. visit[b] \in Visits /\ At(b, "refreshed")
  BY DEF TypeOK, Decide
<1>2. a \in Assets /\ visit[b].basis \in [Assets -> Nat]
  BY <1>1, VisitKinds DEF At
<1>3. PICK bonus \in BOOLEAN :
        IF Approved(b, a, bonus) <= MinBuy
        THEN Leave(b)
        ELSE /\ visit' = [visit EXCEPT ![b] =
                  [step |-> "decided", asset |-> a, value |-> Approved(b, a, bonus),
                   bonus |-> bonus]]
             /\ UNCHANGED errors
  BY DEF Decide
<1>4. Approved(b, a, bonus) \in Nat
  BY <1>2, ApprovedFits DEF TypeOK
<1> DEFINE v == [step |-> "decided", asset |-> a, value |-> Approved(b, a, bonus),
                 bonus |-> bonus]
<1>5. v \in Visits
  BY <1>2, <1>4 DEF Visits
<1> HIDE DEF v
<1>6. visit' \in [Bots -> Visits] /\ excess' \in [Bots -> Nat] /\ missing' \in [Bots -> Nat]
  BY <1>3, <1>5, LeaveType DEF TypeOK, v, errors
<1> QED
  BY <1>6 DEF TypeOK, Decide, account, observers, bounds

\* A buy of n coins that is recorded with r of them.
Buys(b, n, r) ==
  LET a == visit[b].asset
      value == visit[b].value
  IN  /\ At(b, "decided") /\ cash >= value /\ orders < MaxOrders
      /\ held' = [held EXCEPT ![a] = @ + n] /\ cash' = cash - value
      /\ cost' = [cost EXCEPT ![a] = @ + value] /\ orders' = orders + 1
      /\ visit' = [visit EXCEPT ![b] = [step |-> "bought", asset |-> a, side |-> "buy",
                                        amount |-> r, value |-> value]]
      /\ understated' = IF r < n THEN understated \cup {a} ELSE understated
      /\ overstated' = IF r > n THEN overstated \cup {a} ELSE overstated
      /\ excess' = [excess EXCEPT ![b] = 0] /\ missing' = [missing EXCEPT ![b] = 0]
      /\ UNCHANGED <<history, day, crashes>>

\* A sale of n coins for w.
Sells(b, a, n, w) ==
  LET left == Remaining(cost[a], held[a], n)
  IN  /\ At(b, "idle") /\ a \in Assigned(b) /\ orders < MaxOrders
      /\ held' = [held EXCEPT ![a] = @ - n] /\ cash' = cash + w
      /\ cost' = [cost EXCEPT ![a] = left] /\ orders' = orders + 1
      /\ visit' = [visit EXCEPT ![b] = [step |-> "sold", asset |-> a, side |-> "sell",
                                        amount |-> n, value |-> w]]
      /\ excess' = [c \in Bots |-> IF c # b /\ Busy(c) THEN excess[c] + (cost[a] - left)
                                   ELSE excess[c]]
      /\ UNCHANGED <<history, understated, overstated, missing, day, crashes>>

Rests == UNCHANGED <<day, cash, held, cost, history, understated, overstated, orders, crashes>>

LEMMA BuyIs ==
  ASSUME TypeOK, NEW b \in Bots, Buy(b)
  PROVE  /\ At(b, "decided") /\ visit[b].asset \in Assets /\ visit[b].value \in Nat
         /\ \/ \E n, r \in Nat \ {0} : Buys(b, n, r)
            \/ cash < visit[b].value /\ Leave(b) /\ Rests
<1>1. visit[b] \in Visits /\ At(b, "decided")
  BY DEF TypeOK, Buy
<1>2. visit[b].asset \in Assets /\ visit[b].value \in Nat
  BY <1>1, VisitKinds DEF At
<1>3. CASE cash < visit[b].value /\ Leave(b) /\ UNCHANGED <<account, history, observers, bounds>>
  BY <1>1, <1>2, <1>3 DEF Rests, account, observers, bounds
<1>4. ASSUME NEW fill \in Prices, NEW last \in Prices, cash >= visit[b].value,
             orders < MaxOrders, BuyFilled(b, visit[b].asset, visit[b].value, fill, last),
             cash' = cash - visit[b].value,
             cost' = [cost EXCEPT ![visit[b].asset] = @ + visit[b].value],
             excess' = [excess EXCEPT ![b] = 0], missing' = [missing EXCEPT ![b] = 0]
      PROVE  \E n, r \in Nat \ {0} : Buys(b, n, r)
  <2> DEFINE n == visit[b].value \div fill
             r == visit[b].value \div last
  <2>1. n \in Nat \ {0} /\ r \in Nat \ {0}
    BY <1>2, <1>4, BoundsTyped DEF BuyFilled
  <2> HIDE DEF n, r
  <2>2. Buys(b, n, r)
    BY <1>1, <1>4 DEF Buys, BuyFilled, Filled, n, r
  <2> QED
    BY <2>1, <2>2
<1> QED
  BY <1>1, <1>2, <1>3, <1>4 DEF Buy

LEMMA SellIs ==
  ASSUME TypeOK, NEW b \in Bots, NEW a \in Assets, Sell(b, a)
  PROVE  \E n \in 1..held[a], w \in Nat : Sells(b, a, n, w)
<1>1. PICK part \in Parts, p \in Prices :
        LET n == (held[a] * part) \div 100
            left == Remaining(cost[a], held[a], n)
        IN  /\ n > 0
            /\ held' = [held EXCEPT ![a] = @ - n]
            /\ cash' = cash + n * p
            /\ cost' = [cost EXCEPT ![a] = left]
            /\ Filled(b, "sell", a, n, n * p)
            /\ excess' = [c \in Bots |-> IF c # b /\ Busy(c) THEN excess[c] + (cost[a] - left)
                                         ELSE excess[c]]
  BY DEF Sell
<1> DEFINE n == (held[a] * part) \div 100
<1>2. held[a] \in Nat /\ part \in 1..100 /\ p \in Nat
  BY BoundsTyped DEF TypeOK
<1>3. n \in 1..held[a]
  <2>1. held[a] * part \in Nat /\ held[a] * part <= held[a] * 100
    BY <1>2
  <2>2. n \in Nat /\ n <= held[a]
    BY <1>2, <2>1
  <2> QED
    BY <1>1, <2>2
<1> HIDE DEF n
<1>4. n * p \in Nat
  BY <1>2, <1>3
<1>5. Sells(b, a, n, n * p)
  BY <1>1, Zenon DEF Sell, Sells, Filled, observers, n
<1> QED
  BY <1>3, <1>4, <1>5

LEMMA BuysType ==
  ASSUME TypeOK, NEW b \in Bots, visit[b].asset \in Assets, visit[b].value \in Nat,
         NEW n \in Nat \ {0}, NEW r \in Nat \ {0}, Buys(b, n, r)
  PROVE  TypeOK'
<1> DEFINE a == visit[b].asset
           v == [step |-> "bought", asset |-> a, side |-> "buy",
                 amount |-> r, value |-> visit[b].value]
<1>1. v \in Visits
  BY DEF Visits, Fills
<1> HIDE DEF v
<1>2. visit' = [visit EXCEPT ![b] = v]
  BY DEF Buys, v
<1>3. visit' \in [Bots -> Visits]
  BY <1>1, <1>2 DEF TypeOK
<1>4. held' \in [Assets -> Nat] /\ cost' \in [Assets -> Nat] /\ cash' \in Nat
      /\ orders' \in 0..MaxOrders
  <2> DEFINE value == visit[b].value
  <2>1. a \in Assets /\ value \in Nat /\ cash >= value /\ orders < MaxOrders
        /\ held' = [held EXCEPT ![a] = @ + n] /\ cost' = [cost EXCEPT ![a] = @ + value]
        /\ cash' = cash - value /\ orders' = orders + 1
    BY DEF Buys
  <2> HIDE DEF a, value
  <2>2. held' \in [Assets -> Nat] /\ cost' \in [Assets -> Nat]
    BY <2>1 DEF TypeOK
  <2>3. cash' \in Nat /\ orders' \in 0..MaxOrders
    BY <2>1, BoundsTyped DEF TypeOK
  <2> QED
    BY <2>2, <2>3
<1>5. \A x \in Assets : held'[x] = 0 => cost'[x] = 0
  BY DEF TypeOK, Buys
<1>6. /\ understated' \subseteq Assets /\ overstated' \subseteq Assets
      /\ excess' \in [Bots -> Nat] /\ missing' \in [Bots -> Nat]
  BY DEF TypeOK, Buys
<1> QED
  BY <1>3, <1>4, <1>5, <1>6 DEF TypeOK, Buys

LEMMA SellsType ==
  ASSUME TypeOK, NEW b \in Bots, NEW a \in Assets, NEW n \in 1..held[a], NEW w \in Nat,
         Sells(b, a, n, w)
  PROVE  TypeOK'
<1> DEFINE v == [step |-> "sold", asset |-> a, side |-> "sell", amount |-> n, value |-> w]
<1>1. held[a] \in Nat \ {0} /\ cost[a] \in Nat /\ n \in Nat
  BY DEF TypeOK
<1>2. v \in Visits
  BY <1>1 DEF Visits, Fills
<1> HIDE DEF v
<1>3. visit' = [visit EXCEPT ![b] = v]
  BY DEF Sells, v
<1>4. visit' \in [Bots -> Visits]
  BY <1>2, <1>3 DEF TypeOK
<1> DEFINE left == Remaining(cost[a], held[a], n)
<1>5. left \in 0..cost[a] /\ (n = held[a] => left = 0)
  BY <1>1, RemainingTyped
<1> HIDE DEF left
<1>6. cost' = [cost EXCEPT ![a] = left]
  BY DEF Sells, left
<1>7. held' \in [Assets -> Nat] /\ cost' \in [Assets -> Nat] /\ cash' \in Nat
      /\ orders' \in 0..MaxOrders
  BY <1>1, <1>5, <1>6, BoundsTyped DEF TypeOK, Sells
<1>8. \A x \in Assets : held'[x] = 0 => cost'[x] = 0
  BY <1>1, <1>5, <1>6 DEF TypeOK, Sells
<1>9. excess' \in [Bots -> Nat]
  <2>1. excess' = [c \in Bots |-> IF c # b /\ Busy(c) THEN excess[c] + (cost[a] - left)
                                 ELSE excess[c]]
    BY DEF Sells, left
  <2>2. cost[a] - left \in Nat /\ excess \in [Bots -> Nat]
    BY <1>1, <1>5 DEF TypeOK
  <2> QED
    BY <2>1, <2>2
<1> QED
  BY <1>4, <1>7, <1>8, <1>9 DEF TypeOK, Sells

LEMMA RecordType ==
  ASSUME TypeOK, NEW b \in Bots, Record(b)
  PROVE  TypeOK'
<1> DEFINE r == [day |-> day, asset |-> visit[b].asset, side |-> visit[b].side,
                 amount |-> visit[b].amount, value |-> visit[b].value]
<1>1. visit[b] \in Visits /\ visit[b].step \in {"bought", "sold"}
  BY DEF TypeOK, Record
<1>2. visit[b].asset \in Assets /\ IsFill(visit[b])
  BY <1>1, VisitKinds
<1>3. r \in EntriesUntil(day)
  BY <1>2 DEF TypeOK, EntriesUntil, IsFill
<1>4. history \in Seq(EntriesUntil(day))
  BY DEF TypeOK, EntriesUntil
<1> HIDE DEF r
<1>5. history' = Append(history, r)
  BY DEF Record, r
<1>6. history' \in Seq(EntriesUntil(day'))
  BY <1>3, <1>4, <1>5 DEF Record, bounds
<1>7. visit' \in [Bots -> Visits]
  BY IdleTyped DEF TypeOK, Record
<1>8. understated' \subseteq Assets
  BY DEF TypeOK, Record
<1> QED
  BY <1>6, <1>7, <1>8 DEF TypeOK, Record, EntriesUntil, account, errors, bounds

LEMMA CrashType ==
  ASSUME TypeOK, NEW b \in Bots, Crash(b)
  PROVE  TypeOK'
<1>1. visit[b] \in Visits
  BY DEF TypeOK
<1>2. At(b, "bought") \/ At(b, "sold") => visit[b].asset \in Assets
  BY <1>1, VisitKinds DEF At
<1>3. understated' \subseteq Assets /\ overstated' \subseteq Assets
  BY <1>2 DEF TypeOK, Crash
<1>4. visit' \in [Bots -> Visits] /\ excess' \in [Bots -> Nat] /\ missing' \in [Bots -> Nat]
  BY LeaveType DEF Crash
<1>5. crashes' \in 0..MaxCrashes
  BY BoundsTyped DEF TypeOK, Crash
<1> QED
  BY <1>3, <1>4, <1>5 DEF TypeOK, Crash, account

LEMMA NextDayType == TypeOK /\ NextDay => TypeOK'
<1> SUFFICES ASSUME TypeOK, NextDay PROVE TypeOK'
  OBVIOUS
<1>1. day \in Nat /\ day' \in 0..MaxDay /\ day <= day' /\ day' \in Nat
  BY BoundsTyped DEF TypeOK, NextDay
<1>2. history' \in Seq(EntriesUntil(day'))
  BY <1>1, HistoryTyped DEF TypeOK, NextDay, EntriesUntil
<1> QED
  BY <1>1, <1>2 DEF TypeOK, NextDay, EntriesUntil, account, observers, errors

LEMMA PruneType == TypeOK /\ Prune => TypeOK'
<1> SUFFICES ASSUME TypeOK, Prune PROVE TypeOK'
  OBVIOUS
<1>1. PICK n \in 1..Len(history) :
        /\ history' = SubSeq(history, n + 1, Len(history))
        /\ understated' = understated \cup
             {a \in Assets : held[a] > 0 /\ \E i \in 1..n : history[i].asset = a}
  BY DEF Prune
<1>2. history \in Seq(EntriesUntil(day)) /\ day' = day
  BY DEF TypeOK, EntriesUntil, Prune, bounds
<1>3. history' \in Seq(EntriesUntil(day'))
  <2> DEFINE S == EntriesUntil(day)
  <2>1. history \in Seq(S) /\ n \in Nat
    BY <1>2
  <2> HIDE DEF S
  <2>2. SubSeq(history, n + 1, Len(history)) \in Seq(S)
    BY <2>1
  <2> QED
    BY <1>1, <1>2, <2>2 DEF S
<1>4. understated' \subseteq Assets
  BY <1>1 DEF TypeOK
<1> QED
  BY <1>3, <1>4 DEF TypeOK, Prune, EntriesUntil, account, errors, bounds

LEMMA NextType == TypeOK /\ [Next]_vars => TypeOK'
<1> SUFFICES ASSUME TypeOK, [Next]_vars PROVE TypeOK'
  OBVIOUS
<1>1. ASSUME NEW b \in Bots, NEW a \in Assets, Refresh(b, a) PROVE TypeOK'
  BY <1>1, RefreshType
<1>2. ASSUME NEW b \in Bots, NEW a \in Assets, Sell(b, a) PROVE TypeOK'
  BY <1>2, SellIs, SellsType
<1>3. ASSUME NEW b \in Bots, Decide(b) PROVE TypeOK'
  BY <1>3, DecideType
<1>4. ASSUME NEW b \in Bots, Leave(b), Rests PROVE TypeOK'
  BY <1>4, LeaveType DEF TypeOK, Rests
<1>5. ASSUME NEW b \in Bots, Pass(b) PROVE TypeOK'
  BY <1>4, <1>5 DEF Pass, Rests, account, observers, bounds
<1>6. ASSUME NEW b \in Bots, Buy(b) PROVE TypeOK'
  BY <1>4, <1>6, BuyIs, BuysType
<1>7. ASSUME NEW b \in Bots, Record(b) PROVE TypeOK'
  BY <1>7, RecordType
<1>8. ASSUME NEW b \in Bots, Crash(b) PROVE TypeOK'
  BY <1>8, CrashType
<1>9. CASE UNCHANGED vars
  BY <1>9 DEF TypeOK, vars, account, observers, errors, bounds
<1> QED
  BY <1>1, <1>2, <1>3, <1>5, <1>6, <1>7, <1>8, <1>9, NextDayType, PruneType DEF Next

\* Every variable keeps its type, and what is held costs something.
THEOREM PortfolioTypeCorrect == Spec => []TypeOK
<1> QED
  BY InitType, NextType, PTL DEF Spec

-----------------------------------------------------------------------------
(* What the files know                                                     *)

LEMMA SettledTyped ==
  ASSUME TypeOK, NEW a \in Assets
  PROVE  /\ Owner[a] \in Bots
         /\ Filling(a) => IsFill(visit[Owner[a]])
         /\ Settled(a) \in Positions /\ Truth(a) \in Positions
<1>1. Owner[a] \in Bots /\ visit[Owner[a]] \in Visits
  BY BoundsTyped DEF TypeOK
<1>2. Filling(a) => IsFill(visit[Owner[a]])
  BY <1>1, VisitKinds DEF Filling
<1>3. Settled(a) \in Positions
  BY <1>2, LoggedTyped, ReplayTyped DEF Settled
<1>4. Truth(a) \in Positions
  BY DEF TypeOK, Truth, Positions
<1> QED
  BY <1>1, <1>2, <1>3, <1>4

LEMMA SettledSame ==
  ASSUME NEW a, history' = history, Filling(a)' <=> Filling(a),
         Filling(a) => visit'[Owner[a]] = visit[Owner[a]]
  PROVE  Settled(a)' = Settled(a) /\ Logged(a)' = Logged(a)
<1>1. Logged(a)' = Logged(a)
  BY LoggedNow, LoggedNext
<1> QED
  BY <1>1 DEF Settled

FillSteps == {"bought", "sold"}

\* A step that fills no order, records none and sells none leaves the files as right
\* as they were.
LEMMA QuietStep ==
  ASSUME Inv, UNCHANGED <<held, cost, history, understated, overstated>>,
         \A c \in Bots : \/ visit'[c] = visit[c]
                         \/ visit[c].step \notin FillSteps /\ visit'[c].step \notin FillSteps
  PROVE  NeverOver' /\ NeverUnder' /\ FillsTrue'
<1>1. ASSUME NEW a \in Assets PROVE Settled(a)' = Settled(a) /\ Truth(a)' = Truth(a)
  <2>1. Owner[a] \in Bots
    BY BoundsTyped
  <2>2. Filling(a)' <=> Filling(a)
    BY <2>1 DEF Filling, FillSteps
  <2>3. Filling(a) => visit'[Owner[a]] = visit[Owner[a]]
    BY <2>1 DEF Filling, FillSteps
  <2> QED
    BY <2>2, <2>3, SettledSame DEF Truth
<1>2. NeverOver' /\ NeverUnder'
  BY <1>1 DEF Inv, NeverOver, NeverUnder
<1>3. FillsTrue'
  BY DEF Inv, FillsTrue, At, FillSteps
<1> QED
  BY <1>2, <1>3

\* A new fill of an asset, not recorded yet: v is the visit that has it.
LEMMA NewFill ==
  ASSUME Inv, NEW b \in Bots, NEW a \in Assets, Owner[a] = b, visit[b].step \notin FillSteps,
         NEW v, IsFill(v), v.asset = a, v.step \in FillSteps,
         visit' = [visit EXCEPT ![b] = v],
         history' = history,
         understated \subseteq understated', overstated \subseteq overstated',
         \A x \in Assets \ {a} : held'[x] = held[x] /\ cost'[x] = cost[x],
         a \notin overstated' =>
           \A p \in Positions : AtMost(p, Truth(a)) => AtMost(Replay(p, v), Truth(a)'),
         a \notin understated' =>
           \A p \in Positions : AtMost(Truth(a), p) => AtMost(Truth(a)', Replay(p, v))
  PROVE  NeverOver' /\ NeverUnder'
<1>1. visit'[b] = v /\ \A c \in Bots \ {b} : visit'[c] = visit[c]
  BY DEF Inv, TypeOK
<1>2. ~Filling(a) /\ Filling(a)'
  BY <1>1 DEF Filling, FillSteps
<1>3. Logged(a)' = Logged(a)
  BY LoggedNow, LoggedNext
<1>4. Settled(a) = Logged(a) /\ Settled(a)' = Replay(Logged(a), v)
  BY <1>1, <1>2, <1>3 DEF Settled
<1>5. ASSUME NEW x \in Assets, x # a
      PROVE  Settled(x)' = Settled(x) /\ Truth(x)' = Truth(x)
  <2>1. Owner[x] \in Bots
    BY BoundsTyped
  <2>2. CASE Owner[x] = b
    <3>1. ~Filling(x) /\ ~Filling(x)'
      BY <1>1, <1>5, <2>2 DEF Filling, FillSteps
    <3> QED
      BY <1>5, <3>1, SettledSame DEF Truth
  <2>3. CASE Owner[x] # b
    <3>1. visit'[Owner[x]] = visit[Owner[x]]
      BY <1>1, <2>1, <2>3
    <3>2. Filling(x)' <=> Filling(x)
      BY <3>1 DEF Filling
    <3> QED
      BY <1>5, <3>1, <3>2, SettledSame DEF Truth
  <2> QED
    BY <2>2, <2>3
<1>6. Settled(a) \in Positions
  BY SettledTyped DEF Inv
<1>7. a \notin overstated' => AtMost(Settled(a)', Truth(a)')
  BY <1>4, <1>6 DEF Inv, NeverOver
<1>8. a \notin understated' => AtMost(Truth(a)', Settled(a)')
  BY <1>4, <1>6 DEF Inv, NeverUnder
<1>9. NeverOver'
  BY <1>5, <1>7 DEF Inv, NeverOver
<1>10. NeverUnder'
  BY <1>5, <1>8 DEF Inv, NeverUnder
<1> QED
  BY <1>9, <1>10

LEMMA BuysKnown ==
  ASSUME Inv, NEW b \in Bots, visit[b].asset \in Assets, visit[b].value \in Nat,
         NEW n \in Nat \ {0}, NEW r \in Nat \ {0}, Buys(b, n, r)
  PROVE  NeverOver' /\ NeverUnder' /\ FillsTrue' /\ OwnVisits'
<1>0. PICK a \in Assets, value \in Nat : a = visit[b].asset /\ value = visit[b].value
  OBVIOUS
<1> DEFINE v == [step |-> "bought", asset |-> a, side |-> "buy", amount |-> r, value |-> value]
<1>1. Owner[a] = b /\ visit[b].step = "decided" /\ visit' = [visit EXCEPT ![b] = v]
  BY <1>0 DEF Inv, OwnVisits, Assigned, At, Buys
<1>2. /\ a \in Assets /\ value \in Nat /\ held' = [held EXCEPT ![a] = @ + n]
      /\ cost' = [cost EXCEPT ![a] = @ + value] /\ history' = history
      /\ understated' = IF r < n THEN understated \cup {a} ELSE understated
      /\ overstated' = IF r > n THEN overstated \cup {a} ELSE overstated
  BY <1>0 DEF Buys
<1>3. IsFill(v) /\ v.asset = a /\ v.step \in FillSteps /\ v.side = "buy"
      /\ v.amount = r /\ v.value = value /\ v.step = "bought"
  BY DEF IsFill, FillSteps
<1> HIDE DEF v
<1>4. held \in [Assets -> Nat] /\ cost \in [Assets -> Nat]
  BY DEF Inv, TypeOK
<1>5. \A x \in Assets \ {a} : held'[x] = held[x] /\ cost'[x] = cost[x]
  BY <1>2, <1>4
<1>6. Truth(a)' = [amount |-> held[a] + n, cost |-> cost[a] + value]
  BY <1>2, <1>4 DEF Truth
<1>7. \A p : Replay(p, v) = [amount |-> p.amount + r, cost |-> p.cost + value]
  BY <1>3 DEF Replay
<1>8. ASSUME NEW p \in Positions, a \notin overstated', AtMost(p, Truth(a))
      PROVE  AtMost(Replay(p, v), Truth(a)')
  <2>1. r <= n
    BY <1>2, <1>8
  <2> QED
    BY <1>2, <1>4, <1>6, <1>7, <1>8, <2>1 DEF Positions, AtMost, Truth
<1>9. ASSUME NEW p \in Positions, a \notin understated', AtMost(Truth(a), p)
      PROVE  AtMost(Truth(a)', Replay(p, v))
  <2>1. n <= r
    BY <1>2, <1>9
  <2> QED
    BY <1>2, <1>4, <1>6, <1>7, <1>9, <2>1 DEF Positions, AtMost, Truth
<1>10. visit[b].step \notin FillSteps
  BY <1>1 DEF FillSteps
<1>11. NeverOver' /\ NeverUnder'
  BY <1>1, <1>2, <1>3, <1>5, <1>8, <1>9, <1>10, NewFill
<1>12. visit'[b] = v /\ \A c \in Bots \ {b} : visit'[c] = visit[c]
  BY <1>1 DEF Inv, TypeOK
<1>13. FillsTrue' /\ OwnVisits'
  BY <1>1, <1>2, <1>3, <1>12 DEF Inv, FillsTrue, OwnVisits, Assigned, At
<1> QED
  BY <1>11, <1>13

LEMMA SellsKnown ==
  ASSUME Inv, NEW b \in Bots, NEW a \in Assets, NEW n \in 1..held[a], NEW w \in Nat,
         Sells(b, a, n, w)
  PROVE  NeverOver' /\ NeverUnder' /\ FillsTrue' /\ OwnVisits'
<1> DEFINE v == [step |-> "sold", asset |-> a, side |-> "sell", amount |-> n, value |-> w]
           left == Remaining(cost[a], held[a], n)
<1>1. Owner[a] = b /\ visit[b].step = "idle" /\ visit' = [visit EXCEPT ![b] = v]
  BY DEF Assigned, At, Sells
<1>2. held \in [Assets -> Nat] /\ cost \in [Assets -> Nat] /\ n \in Nat /\ held[a] \in Nat \ {0}
      /\ cost[a] \in Nat /\ n <= held[a]
  BY DEF Inv, TypeOK
<1>3. IsFill(v) /\ v.asset = a /\ v.step \in FillSteps /\ v.side = "sell"
      /\ v.amount = n /\ v.step = "sold"
  BY <1>2 DEF IsFill, FillSteps
<1>4. left \in Nat /\ (n = held[a] => left = 0)
  BY <1>2, RemainingTyped
<1>5. cost' = [cost EXCEPT ![a] = left] /\ held' = [held EXCEPT ![a] = @ - n]
      /\ UNCHANGED <<history, understated, overstated>>
  BY DEF Sells
<1> HIDE DEF v
<1>6. \A x \in Assets \ {a} : held'[x] = held[x] /\ cost'[x] = cost[x]
  BY <1>2, <1>5
<1>7. Truth(a)' = [amount |-> held[a] - n, cost |-> left]
  BY <1>2, <1>5 DEF Truth
<1>8. Replay(Truth(a), v) = Truth(a)'
  <2>1. CASE n = held[a]
    BY <1>2, <1>3, <1>4, <1>7, <2>1 DEF Replay, Truth
  <2>2. CASE n < held[a]
    BY <1>2, <1>3, <1>7, <2>2 DEF Replay, Truth
  <2> QED
    BY <1>2, <2>1, <2>2
<1>9. \A p \in Positions :
        /\ AtMost(p, Truth(a)) => AtMost(Replay(p, v), Truth(a)')
        /\ AtMost(Truth(a), p) => AtMost(Truth(a)', Replay(p, v))
  <2>1. Truth(a) \in Positions
    BY <1>2 DEF Truth, Positions
  <2> QED
    BY <1>3, <1>8, <2>1, ReplayMonotone
<1>10. visit[b].step \notin FillSteps
  BY <1>1 DEF FillSteps
<1>11. NeverOver' /\ NeverUnder'
  BY <1>1, <1>3, <1>5, <1>6, <1>9, <1>10, NewFill
<1>12. visit'[b] = v /\ \A c \in Bots \ {b} : visit'[c] = visit[c]
  BY <1>1 DEF Inv, TypeOK
<1>13. FillsTrue' /\ OwnVisits'
  BY <1>1, <1>3, <1>12 DEF Inv, FillsTrue, OwnVisits, Assigned, At
<1> QED
  BY <1>11, <1>13

\* A step in which only process b moves, and no longer has a fill afterwards,
\* leaves what the files say of the assets other than a alone.
LEMMA OthersSame ==
  ASSUME Inv, NEW b \in Bots, NEW a, visit' = [visit EXCEPT ![b] = Idle],
         visit[b].step \in FillSteps => visit[b].asset = a,
         NEW x \in Assets, x # a
  PROVE  /\ Filling(x)' <=> Filling(x)
         /\ Filling(x) => visit'[Owner[x]] = visit[Owner[x]]
<1>1. visit'[b] = Idle /\ \A c \in Bots \ {b} : visit'[c] = visit[c]
  BY DEF Inv, TypeOK
<1>2. Owner[x] \in Bots
  BY BoundsTyped
<1>3. Idle.step \notin FillSteps
  BY IdleTyped DEF FillSteps
<1>4. CASE Owner[x] = b
  <2>1. ~Filling(x) /\ ~Filling(x)'
    BY <1>1, <1>3, <1>4 DEF Filling, FillSteps
  <2> QED
    BY <2>1
<1>5. CASE Owner[x] # b
  <2>1. visit'[Owner[x]] = visit[Owner[x]]
    BY <1>1, <1>2, <1>5
  <2>2. Filling(x)' <=> Filling(x)
    BY <2>1 DEF Filling
  <2> QED
    BY <2>1, <2>2
<1> QED
  BY <1>4, <1>5

LEMMA IdleOwns ==
  ASSUME Inv, NEW b \in Bots, visit' = [visit EXCEPT ![b] = Idle]
  PROVE  FillsTrue' /\ OwnVisits'
<1>1. visit'[b] = Idle /\ \A c \in Bots \ {b} : visit'[c] = visit[c]
  BY DEF Inv, TypeOK
<1> QED
  BY <1>1, IdleTyped DEF Inv, FillsTrue, OwnVisits, Assigned, At

LEMMA RecordKnown ==
  ASSUME Inv, NEW b \in Bots, Record(b)
  PROVE  NeverOver' /\ NeverUnder'
<1>1. visit[b] \in Visits /\ visit[b].step \in FillSteps
  BY DEF Inv, TypeOK, Record, FillSteps
<1>2. visit[b].asset \in Assets /\ IsFill(visit[b])
  BY <1>1, VisitKinds DEF FillSteps
<1>3. PICK a \in Assets : a = visit[b].asset
  BY <1>2
<1>4. Owner[a] = b
  BY <1>1, <1>3 DEF Inv, OwnVisits, Assigned, At, FillSteps
<1>5. PICK r : r = [day |-> day, asset |-> visit[b].asset, side |-> visit[b].side,
                    amount |-> visit[b].amount, value |-> visit[b].value]
  OBVIOUS
<1>6. r \in Entries /\ r.asset = a
  BY <1>2, <1>3, <1>5 DEF Inv, TypeOK, Entries, IsFill
<1>7. history' = Append(history, r) /\ visit' = [visit EXCEPT ![b] = Idle]
      /\ UNCHANGED <<held, cost, overstated>>
  BY <1>5 DEF Record, account
<1>8. history \in Seq(Entries) /\ history' \in Seq(Entries)
  <2>1. history \in Seq(Entries)
    BY LoggedTyped DEF Inv
  <2> QED
    BY <1>6, <1>7, <2>1
<1>9. ASSUME NEW x \in Assets PROVE Logged(x)' = Step(x, Logged(x), r)
  <2>1. Logged(x) = Played(x, history, Len(history))
    BY <1>8, LoggedNow, LoggedIsPlayed
  <2>2. Logged(x)' = Played(x, history', Len(history'))
    BY <1>8, LoggedNext, LoggedIsPlayed
  <2>3. Played(x, Append(history, r), Len(Append(history, r)))
          = Step(x, Played(x, history, Len(history)), r)
    BY <1>6, <1>8, PlayedAppend
  <2> QED
    BY <1>7, <2>1, <2>2, <2>3, Zenon
<1>10. Settled(a)' = Settled(a)
  <2>1. Filling(a) /\ ~Filling(a)'
    <3>1. visit'[b] = Idle
      BY <1>7 DEF Inv, TypeOK
    <3> QED
      BY <1>1, <1>3, <1>4, <3>1, IdleTyped DEF Filling, FillSteps
  <2>2. Settled(a) = Replay(Logged(a), visit[b])
    BY <1>4, <2>1 DEF Settled
  <2>3. Settled(a)' = Logged(a)'
    BY <2>1 DEF Settled
  <2>4. Logged(a)' = Replay(Logged(a), r)
    BY <1>6, <1>9 DEF Step
  <2>5. r.side = visit[b].side /\ r.amount = visit[b].amount /\ r.value = visit[b].value
    BY <1>5
  <2>6. Replay(Logged(a), r) = Replay(Logged(a), visit[b])
    BY <2>5 DEF Replay
  <2> QED
    BY <2>2, <2>3, <2>4, <2>6
<1>11. ASSUME NEW x \in Assets, x # a PROVE Settled(x)' = Settled(x)
  <2>1. Logged(x)' = Logged(x)
    BY <1>6, <1>9, <1>11 DEF Step
  <2>2. /\ Filling(x)' <=> Filling(x)
        /\ Filling(x) => visit'[Owner[x]] = visit[Owner[x]]
    BY <1>3, <1>7, <1>11, OthersSame
  <2> QED
    BY <2>1, <2>2 DEF Settled
<1>12. \A x \in Assets : Settled(x)' = Settled(x) /\ Truth(x)' = Truth(x)
  BY <1>7, <1>10, <1>11 DEF Truth
<1>13. NeverOver'
  BY <1>7, <1>12 DEF Inv, NeverOver
<1>14. ASSUME NEW x \in Assets, x \notin understated'
       PROVE  AtMost(Truth(x), Settled(x))
  <2>1. CASE x \notin understated
    BY <2>1 DEF Inv, NeverUnder
  <2>2. CASE x \in understated
    <3>1. x = a /\ held[a] = 0
      BY <1>3, <1>14, <2>2 DEF Record
    <3>2. Truth(x) = Nothing
      BY <3>1 DEF Inv, TypeOK, Truth, Nothing
    <3> QED
      BY <3>2, SettledTyped, AtMostOrders DEF Inv
  <2> QED
    BY <2>1, <2>2
<1>15. NeverUnder'
  BY <1>12, <1>14 DEF NeverUnder
<1> QED
  BY <1>13, <1>15

LEMMA CrashKnown ==
  ASSUME Inv, NEW b \in Bots, Crash(b)
  PROVE  NeverOver' /\ NeverUnder'
<1>1. visit' = [visit EXCEPT ![b] = Idle] /\ UNCHANGED <<held, cost, history>>
  BY DEF Crash, Leave, account
<1>2. visit'[b] = Idle /\ Idle.step \notin FillSteps
  BY <1>1, IdleTyped DEF Inv, TypeOK, FillSteps
<1>3. CASE visit[b].step \notin FillSteps
  <2>1. \A c \in Bots : \/ visit'[c] = visit[c]
                        \/ visit[c].step \notin FillSteps /\ visit'[c].step \notin FillSteps
    BY <1>1, <1>2, <1>3 DEF Inv, TypeOK
  <2>2. UNCHANGED <<understated, overstated>>
    BY <1>3 DEF Crash, At, FillSteps
  <2> QED
    BY <1>1, <2>1, <2>2, QuietStep
<1>4. CASE visit[b].step \in FillSteps
  <2>1. visit[b].asset \in Assets /\ IsFill(visit[b])
    BY <1>4, VisitKinds DEF Inv, TypeOK, FillSteps
  <2>2. PICK a \in Assets : a = visit[b].asset
    BY <2>1
  <2>3. Owner[a] = b
    BY <1>4, <2>2 DEF Inv, OwnVisits, Assigned, At, FillSteps
  <2>4. ASSUME NEW x \in Assets, x # a PROVE Settled(x)' = Settled(x) /\ Truth(x)' = Truth(x)
    <3>1. /\ Filling(x)' <=> Filling(x)
          /\ Filling(x) => visit'[Owner[x]] = visit[Owner[x]]
      BY <1>1, <2>2, <2>4, OthersSame
    <3> QED
      BY <1>1, <3>1, SettledSame DEF Truth
  <2>5. CASE visit[b].step = "bought"
    <3>1. understated' = understated \cup {a} /\ overstated' = overstated
      BY <2>2, <2>5 DEF Crash, At
    <3>2. Filling(a) /\ ~Filling(a)'
      BY <1>2, <1>4, <2>2, <2>3 DEF Filling, FillSteps
    <3>3. Settled(a)' = Logged(a) /\ Settled(a) = Replay(Logged(a), visit[b])
      BY <1>1, <2>3, <3>2, LoggedNow, LoggedNext DEF Settled
    <3>4. visit[b].side = "buy"
      BY <2>5 DEF Inv, FillsTrue, At
    <3>5. AtMost(Settled(a)', Settled(a)) /\ Settled(a)' \in Positions
      BY <2>1, <3>3, <3>4, BuyAdds, LoggedTyped DEF Inv
    <3>6. Settled(a) \in Positions /\ Truth(a) \in Positions /\ Truth(a)' = Truth(a)
      BY <1>1, SettledTyped DEF Inv, Truth
    <3>7. a \notin overstated => AtMost(Settled(a)', Truth(a)')
      BY <3>5, <3>6, AtMostOrders DEF Inv, NeverOver
    <3>8. NeverOver'
      BY <2>4, <3>1, <3>7 DEF Inv, NeverOver
    <3>9. NeverUnder'
      BY <2>4, <3>1 DEF Inv, NeverUnder
    <3> QED
      BY <3>8, <3>9
  <2>6. CASE visit[b].step = "sold"
    <3>1. understated' = understated /\ overstated' = overstated \cup {a}
      BY <2>2, <2>6 DEF Crash, At
    <3>2. NeverOver'
      BY <2>4, <3>1 DEF Inv, NeverOver
    <3>3. Filling(a) /\ ~Filling(a)'
      BY <1>2, <1>4, <2>2, <2>3 DEF Filling, FillSteps
    <3>4. Settled(a)' = Logged(a) /\ Settled(a) = Replay(Logged(a), visit[b])
      BY <1>1, <2>3, <3>3, LoggedNow, LoggedNext DEF Settled
    <3>5. visit[b].side = "sell"
      BY <2>6 DEF Inv, FillsTrue, At
    <3>6. AtMost(Settled(a), Settled(a)') /\ Settled(a)' \in Positions
      BY <2>1, <3>4, <3>5, SellReduces, LoggedTyped DEF Inv
    <3>7. Settled(a) \in Positions /\ Truth(a) \in Positions /\ Truth(a)' = Truth(a)
      BY <1>1, SettledTyped DEF Inv, Truth
    <3>8. a \notin understated => AtMost(Truth(a)', Settled(a)')
      BY <3>6, <3>7, AtMostOrders DEF Inv, NeverUnder
    <3>9. NeverUnder'
      BY <2>4, <3>1, <3>8 DEF Inv, NeverUnder
    <3> QED
      BY <3>2, <3>9
  <2> QED
    BY <1>4, <2>5, <2>6 DEF FillSteps
<1> QED
  BY <1>3, <1>4

LEMMA PruneKnown ==
  ASSUME Inv, Prune
  PROVE  NeverOver' /\ NeverUnder'
<1>1. PICK n \in 1..Len(history) :
        /\ history' = SubSeq(history, n + 1, Len(history))
        /\ understated' = understated \cup
             {a \in Assets : held[a] > 0 /\ \E i \in 1..n : history[i].asset = a}
  BY DEF Prune
<1>2. UNCHANGED <<visit, held, cost, overstated>>
  BY DEF Prune, account
<1>3. history \in Seq(Entries)
  BY LoggedTyped DEF Inv
<1>4. \A x \in Assets :
        /\ AtMost(Logged(x)', Logged(x)) /\ Logged(x) \in Positions /\ Logged(x)' \in Positions
        /\ (\A i \in 1..n : history[i].asset # x) => Logged(x)' = Logged(x)
  <2>1. SUFFICES ASSUME NEW x \in Assets
                 PROVE  /\ AtMost(Logged(x)', Logged(x)) /\ Logged(x) \in Positions
                        /\ Logged(x)' \in Positions
                        /\ (\A i \in 1..n : history[i].asset # x) => Logged(x)' = Logged(x)
    OBVIOUS
  <2>2. /\ history' \in Seq(Entries)
        /\ AtMost(Played(x, history', Len(history')), Played(x, history, Len(history)))
        /\ (\A i \in 1..n : history[i].asset # x) =>
             Played(x, history', Len(history')) = Played(x, history, Len(history))
    BY <1>1, <1>3, PlayedRest
  <2>3. Logged(x) = Played(x, history, Len(history))
        /\ Logged(x)' = Played(x, history', Len(history'))
    BY <1>3, <2>2, LoggedNow, LoggedNext, LoggedIsPlayed
  <2>4. Len(history) \in 0..Len(history) /\ Len(history') \in 0..Len(history')
    BY <1>3, <2>2
  <2> QED
    BY <1>3, <2>2, <2>3, <2>4, PlayedRule
<1>5. ASSUME NEW x \in Assets
      PROVE  /\ AtMost(Settled(x)', Settled(x)) /\ Settled(x)' \in Positions
             /\ Settled(x) \in Positions /\ Truth(x) \in Positions /\ Truth(x)' = Truth(x)
             /\ Logged(x)' = Logged(x) => Settled(x)' = Settled(x)
  <2>1. Filling(x)' <=> Filling(x)
    BY <1>2 DEF Filling
  <2>2. Filling(x) => IsFill(visit[Owner[x]])
    BY SettledTyped DEF Inv
  <2>3. Settled(x) \in Positions /\ Truth(x) \in Positions /\ Truth(x)' = Truth(x)
    BY <1>2, SettledTyped DEF Inv, Truth
  <2>4. CASE Filling(x)
    <3>1. Settled(x) = Replay(Logged(x), visit[Owner[x]])
          /\ Settled(x)' = Replay(Logged(x)', visit[Owner[x]])
      BY <1>2, <2>1, <2>4 DEF Settled
    <3> QED
      BY <1>4, <2>2, <2>3, <2>4, <3>1, ReplayMonotone, ReplayTyped
  <2>5. CASE ~Filling(x)
    <3>1. Settled(x) = Logged(x) /\ Settled(x)' = Logged(x)'
      BY <2>1, <2>5 DEF Settled
    <3> QED
      BY <1>4, <2>3, <3>1
  <2> QED
    BY <2>4, <2>5
<1>6. NeverOver'
  <2>1. SUFFICES ASSUME NEW x \in Assets, x \notin overstated'
                 PROVE  AtMost(Settled(x)', Truth(x)')
    BY DEF NeverOver
  <2>2. AtMost(Settled(x), Truth(x))
    BY <1>2, <2>1 DEF Inv, NeverOver
  <2> QED
    BY <1>5, <2>2, AtMostOrders
<1>7. NeverUnder'
  <2>1. SUFFICES ASSUME NEW x \in Assets, x \notin understated'
                 PROVE  AtMost(Truth(x)', Settled(x)')
    BY DEF NeverUnder
  <2>2. AtMost(Truth(x), Settled(x))
    BY <1>1, <1>2, <2>1 DEF Inv, NeverUnder
  <2>3. CASE \A i \in 1..n : history[i].asset # x
    BY <1>4, <1>5, <2>2, <2>3
  <2>4. CASE held[x] = 0
    <3>1. Truth(x) = Nothing
      BY <2>4 DEF Inv, TypeOK, Truth, Nothing
    <3> QED
      BY <1>5, <3>1, AtMostOrders
  <2>5. ~(held[x] > 0 /\ \E i \in 1..n : history[i].asset = x)
    BY <1>1, <2>1
  <2>6. held[x] \in Nat
    BY DEF Inv, TypeOK
  <2> QED
    BY <2>3, <2>4, <2>5, <2>6
<1> QED
  BY <1>6, <1>7

-----------------------------------------------------------------------------
(* What a visit has read                                                   *)

\* While the account stays as it is, so does the truth of a visit that stays.
LEMMA VisitStays ==
  ASSUME Inv, NEW c \in Bots, UNCHANGED <<cash, held, cost>>,
         visit'[c] = visit[c], excess'[c] = excess[c], missing'[c] = missing[c]
  PROVE  VisitTrue(c)'
<1>1. VisitTrue(c)
  BY DEF Inv, VisitsTrue
<1> QED
  BY <1>1 DEF VisitTrue, At, Fits, Reads

LEMMA OtherVisits ==
  ASSUME Inv, NEW b \in Bots, UNCHANGED <<cash, held, cost>>,
         \A c \in Bots \ {b} :
           visit'[c] = visit[c] /\ excess'[c] = excess[c] /\ missing'[c] = missing[c],
         VisitTrue(b)'
  PROVE  VisitsTrue'
BY VisitStays DEF VisitsTrue

LEMMA LeaveTrue ==
  ASSUME Inv, NEW b \in Bots, UNCHANGED <<cash, held, cost>>,
         visit' = [visit EXCEPT ![b] = Idle],
         \A c \in Bots \ {b} : excess'[c] = excess[c] /\ missing'[c] = missing[c]
  PROVE  VisitsTrue'
<1>1. visit'[b] = Idle /\ \A c \in Bots \ {b} : visit'[c] = visit[c]
  BY DEF Inv, TypeOK
<1>2. VisitTrue(b)'
  BY <1>1, IdleTyped DEF VisitTrue, At
<1> QED
  BY <1>1, <1>2, OtherVisits

LEMMA LeaveErrors ==
  ASSUME Inv, NEW b \in Bots, Leave(b)
  PROVE  /\ visit' = [visit EXCEPT ![b] = Idle]
         /\ \A c \in Bots \ {b} : excess'[c] = excess[c] /\ missing'[c] = missing[c]
BY DEF Inv, TypeOK, Leave

\* The costs that were read exceed those of the coins by no more than was found.
LEMMA RefreshTrue ==
  ASSUME Inv, NEW b \in Bots, NEW a \in Assets, Refresh(b, a)
  PROVE  VisitsTrue'
<1> DEFINE costs == [x \in Assets |-> Logged(x).cost]
           over == [x \in Assets |-> Clamped(Logged(x).cost - cost[x])]
           v == [step |-> "refreshed", asset |-> a, basis |-> costs]
<1>1. /\ visit' = [visit EXCEPT ![b] = v] /\ UNCHANGED <<cash, held, cost>>
      /\ excess' = [excess EXCEPT ![b] = Sum(over)]
      /\ missing' = [missing EXCEPT ![b] = Clamped(cost[a] - Logged(a).cost)]
  BY DEF Refresh, account
<1>2. cost \in [Assets -> Nat] /\ \A x \in Assets : Logged(x).cost \in Nat
  BY LoggedTyped DEF Inv, TypeOK, Positions
<1>3. Sum(costs) <= Sum(cost) + Sum(over)
  <2>1. costs \in [Assets -> Nat] /\ over \in [Assets -> Nat]
    BY <1>2 DEF Clamped
  <2>2. \A x \in Assets : costs[x] <= cost[x] + over[x]
    BY <1>2 DEF Clamped
  <2> HIDE DEF costs, over
  <2> QED
    BY <1>2, <2>1, <2>2, SumBelow
<1>4. cost[a] <= costs[a] + Clamped(cost[a] - Logged(a).cost)
  BY <1>2 DEF Clamped
<1> HIDE DEF costs, over
<1>5. v.step = "refreshed" /\ v.asset = a /\ v.basis = costs
  OBVIOUS
<1> HIDE DEF v
<1>6. /\ visit'[b] = v /\ excess'[b] = Sum(over)
      /\ missing'[b] = Clamped(cost[a] - Logged(a).cost)
      /\ \A c \in Bots \ {b} :
           visit'[c] = visit[c] /\ excess'[c] = excess[c] /\ missing'[c] = missing[c]
  BY <1>1 DEF Inv, TypeOK
<1>7. VisitTrue(b)'
  BY <1>1, <1>3, <1>4, <1>5, <1>6 DEF VisitTrue, Reads, At
<1> QED
  BY <1>1, <1>6, <1>7, OtherVisits

LEMMA DecideTrue ==
  ASSUME Inv, NEW b \in Bots, Decide(b)
  PROVE  VisitsTrue'
<1>1. visit[b] \in Visits /\ At(b, "refreshed") /\ UNCHANGED <<cash, held, cost>>
  BY DEF Inv, TypeOK, Decide, account
<1>2. visit[b].asset \in Assets /\ visit[b].basis \in [Assets -> Nat]
  BY <1>1, VisitKinds DEF At
<1>3. PICK a \in Assets : a = visit[b].asset
  BY <1>2
<1>4. PICK bonus \in BOOLEAN :
        IF Approved(b, a, bonus) <= MinBuy
        THEN Leave(b)
        ELSE /\ visit' = [visit EXCEPT ![b] =
                  [step |-> "decided", asset |-> a, value |-> Approved(b, a, bonus),
                   bonus |-> bonus]]
             /\ UNCHANGED errors
  BY <1>3 DEF Decide
<1>5. PICK value : value = Approved(b, a, bonus)
  OBVIOUS
<1>6. /\ Counted(b) \in [Assets -> Nat] /\ value \in Nat
      /\ value > 0 => (Counted(b)[a] + value) * Whole
                        <= Share(a, bonus) * (cash + Sum(Counted(b)))
  BY <1>2, <1>5, ApprovedFits DEF Inv, TypeOK
<1>7. CASE Leave(b)
  BY <1>1, <1>7, LeaveErrors, LeaveTrue
<1>8. CASE ~(value <= MinBuy)
  <2> DEFINE v == [step |-> "decided", asset |-> a, value |-> value, bonus |-> bonus]
  <2>1. visit' = [visit EXCEPT ![b] = v] /\ excess' = excess /\ missing' = missing
    BY <1>4, <1>5, <1>8 DEF errors
  <2>2. visit'[b] = v /\ \A c \in Bots \ {b} : visit'[c] = visit[c]
    BY <2>1 DEF Inv, TypeOK
  <2>3. VisitTrue(b)'
    <3>1. cost[a] <= visit[b].basis[a] + missing[b] /\ Sum(visit[b].basis) <= Sum(cost) + excess[b]
      BY <1>1, <1>3 DEF Inv, VisitsTrue, VisitTrue, Reads
    <3>2. cost \in [Assets -> Nat] /\ held \in [Assets -> Nat] /\ cash \in Nat
          /\ excess[b] \in Nat /\ missing[b] \in Nat
          /\ \A x \in Assets : held[x] = 0 => cost[x] = 0
      BY DEF Inv, TypeOK
    <3>3. cost[a] <= Counted(b)[a] + missing[b]
      <4>1. CASE held[a] = 0
        BY <1>6, <3>2, <4>1
      <4>2. CASE held[a] > 0
        BY <3>1, <4>2 DEF Counted
      <4> QED
        BY <3>2, <4>1, <4>2
    <3>4. Sum(Counted(b)) \in Nat /\ Sum(cost) \in Nat /\ Sum(Counted(b)) <= Sum(cost) + excess[b]
      <4>1. \A x \in Assets : Counted(b)[x] <= visit[b].basis[x]
        BY <1>2 DEF Counted
      <4>2. Sum(Counted(b)) <= Sum(visit[b].basis) /\ Sum(visit[b].basis) \in Nat
        BY <1>2, <1>6, <4>1, SumTyped, SumMonotone
      <4>3. Sum(Counted(b)) \in Nat /\ Sum(cost) \in Nat
        BY <1>6, <3>2, SumTyped
      <4> QED
        BY <3>1, <3>2, <4>2, <4>3
    <3>5. (cost[a] + value - missing[b]) * Whole <= Share(a, bonus) * (cash + Sum(cost) + excess[b])
      <4> DEFINE m == cash + Sum(Counted(b))
                 n == cash + Sum(cost) + excess[b]
                 share == Share(a, bonus)
                 counted == Counted(b)[a] + value
                 taken == cost[a] + value - missing[b]
      <4>1. m \in Nat /\ n \in Nat /\ m <= n /\ share \in Nat /\ Whole \in Nat
        BY <3>2, <3>4, ShareTyped, WholeTyped
      <4>2. counted \in Nat /\ taken \in Int /\ taken <= counted
        BY <1>6, <3>2, <3>3
      <4>3. counted * Whole <= share * m
        <5>1. value > 0
          BY <1>6, <1>8, BoundsTyped
        <5> QED
          BY <1>6, <5>1
      <4> HIDE DEF m, n, share, counted, taken
      <4>4. share * m <= share * n /\ share * m \in Nat /\ share * n \in Nat
        BY <4>1
      <4>5. taken * Whole <= counted * Whole /\ taken * Whole \in Int /\ counted * Whole \in Nat
        BY <4>1, <4>2
      <4>6. taken * Whole <= share * n
        BY <4>3, <4>4, <4>5
      <4> QED
        BY <4>6 DEF n, share, taken
    <3>6. /\ visit'[b].asset = a /\ visit'[b].value = value /\ visit'[b].bonus = bonus
          /\ visit'[b].step = "decided"
      BY <2>2
    <3>7. Fits(b)'
      BY <1>1, <2>1, <3>5, <3>6 DEF Fits
    <3> QED
      BY <3>6, <3>7 DEF VisitTrue, At
  <2> HIDE DEF v
  <2> QED
    BY <1>1, <2>1, <2>2, <2>3, OtherVisits
<1> QED
  BY <1>4, <1>5, <1>7, <1>8

LEMMA BuysTrue ==
  ASSUME Inv, NEW b \in Bots, visit[b].asset \in Assets, visit[b].value \in Nat,
         NEW n \in Nat \ {0}, NEW r \in Nat \ {0}, Buys(b, n, r)
  PROVE  VisitsTrue'
<1>1. PICK a \in Assets, value \in Nat : a = visit[b].asset /\ value = visit[b].value
  OBVIOUS
<1>2. PICK v : v = [step |-> "bought", asset |-> a, side |-> "buy", amount |-> r,
                    value |-> value]
  OBVIOUS
<1>3. /\ Owner[a] = b /\ cash' = cash - value /\ cost' = [cost EXCEPT ![a] = @ + value]
      /\ visit' = [visit EXCEPT ![b] = v] /\ excess' = [excess EXCEPT ![b] = 0]
      /\ missing' = [missing EXCEPT ![b] = 0] /\ cash >= value
  BY <1>1, <1>2 DEF Buys, Inv, OwnVisits, Assigned, At
<1>4. cash \in Nat /\ cost \in [Assets -> Nat]
  BY DEF Inv, TypeOK
<1>5. Sum(cost') = Sum(cost) + value /\ Sum(cost) \in Nat
  BY <1>3, <1>4, SumAdds, SumTyped
<1>6. cash' + Sum(cost') = cash + Sum(cost) /\ Sum(cost) <= Sum(cost')
  BY <1>3, <1>4, <1>5
<1>7. /\ visit'[b] = v
      /\ \A c \in Bots \ {b} :
           visit'[c] = visit[c] /\ excess'[c] = excess[c] /\ missing'[c] = missing[c]
  BY <1>3 DEF Inv, TypeOK
<1>8. ASSUME NEW c \in Bots, c # b
      PROVE  VisitTrue(c)'
  <2>1. VisitTrue(c) /\ visit'[c] = visit[c] /\ excess'[c] = excess[c] /\ missing'[c] = missing[c]
    BY <1>7, <1>8 DEF Inv, VisitsTrue
  <2>2. ASSUME ~At(c, "idle") PROVE cost'[visit[c].asset] = cost[visit[c].asset]
    <3>1. visit[c].asset \in Assets /\ Owner[visit[c].asset] = c
      BY <2>2 DEF Inv, OwnVisits, Assigned
    <3> QED
      BY <1>3, <1>4, <1>8, <3>1
  <2>3. excess[c] \in Nat /\ Sum(cost') \in Nat
    BY <1>1, <1>5 DEF Inv, TypeOK
  <2>4. CASE At(c, "refreshed")
    <3>1. visit[c].basis \in [Assets -> Nat] /\ ~At(c, "idle")
      BY <2>4, VisitKinds DEF Inv, TypeOK, At
    <3>2. Sum(visit[c].basis) \in Nat
      BY <3>1, SumTyped
    <3>3. Reads(c)'
      BY <1>5, <1>6, <2>1, <2>2, <2>3, <2>4, <3>1, <3>2 DEF VisitTrue, Reads
    <3> QED
      BY <2>1, <2>4, <3>3 DEF VisitTrue, At
  <2>5. CASE At(c, "decided")
    <3>1. Fits(c) /\ ~At(c, "idle")
      BY <2>1, <2>5 DEF VisitTrue, At
    <3>2. Fits(c)'
      BY <1>6, <2>1, <2>2, <3>1 DEF Fits
    <3> QED
      BY <2>1, <2>5, <3>2 DEF VisitTrue, At
  <2> QED
    BY <2>1, <2>4, <2>5 DEF VisitTrue, At
<1>9. VisitTrue(b)'
  BY <1>2, <1>7 DEF VisitTrue, At
<1> QED
  BY <1>8, <1>9 DEF VisitsTrue

\* What a sale takes off the cost of the coins is added to the excess of the others.
LEMMA SellsTrue ==
  ASSUME Inv, NEW b \in Bots, NEW a \in Assets, NEW n \in 1..held[a], NEW w \in Nat,
         Sells(b, a, n, w)
  PROVE  VisitsTrue'
<1>1. PICK left : left = Remaining(cost[a], held[a], n)
  OBVIOUS
<1>2. PICK v : v = [step |-> "sold", asset |-> a, side |-> "sell", amount |-> n, value |-> w]
  OBVIOUS
<1>3. /\ Owner[a] = b /\ cash' = cash + w /\ cost' = [cost EXCEPT ![a] = left]
      /\ visit' = [visit EXCEPT ![b] = v] /\ missing' = missing
      /\ excess' = [c \in Bots |-> IF c # b /\ Busy(c) THEN excess[c] + (cost[a] - left)
                                   ELSE excess[c]]
  BY <1>1, <1>2 DEF Sells, Assigned
<1>4. cash \in Nat /\ cost \in [Assets -> Nat] /\ held[a] \in Nat \ {0} /\ cost[a] \in Nat
  BY DEF Inv, TypeOK
<1>5. left \in 0..cost[a]
  BY <1>1, <1>4, RemainingTyped
<1>6. PICK lost \in Nat : lost = cost[a] - left
  BY <1>4, <1>5
<1>7. Sum(cost) = Sum(cost') + lost /\ Sum(cost') \in Nat /\ Sum(cost) \in Nat
  <2>1. cost' \in [Assets -> Nat] /\ cost'[a] + lost = cost[a]
    BY <1>3, <1>4, <1>5, <1>6
  <2>2. cost = [cost' EXCEPT ![a] = @ + lost]
    <3>1. \A x \in Assets : cost[x] = [cost' EXCEPT ![a] = @ + lost][x]
      BY <1>3, <1>4, <2>1
    <3> QED
      BY <1>4, <2>1, <3>1
  <2> QED
    BY <1>4, <2>1, <2>2, SumAdds, SumTyped
<1>8. visit'[b] = v /\ \A c \in Bots \ {b} : visit'[c] = visit[c]
  BY <1>3 DEF Inv, TypeOK
<1>9. ASSUME NEW c \in Bots, c # b, Busy(c)
      PROVE  VisitTrue(c)'
  <2>1. VisitTrue(c) /\ visit'[c] = visit[c] /\ excess'[c] = excess[c] + lost
        /\ missing'[c] = missing[c]
    BY <1>3, <1>6, <1>8, <1>9 DEF Inv, VisitsTrue
  <2>2. cost'[visit[c].asset] = cost[visit[c].asset]
    <3>1. visit[c].asset \in Assets /\ Owner[visit[c].asset] = c
      BY <1>9 DEF Inv, OwnVisits, Assigned, Busy, At
    <3> QED
      BY <1>3, <1>4, <1>9, <3>1
  <2>3. excess[c] \in Nat /\ missing[c] \in Nat /\ Sum(cost') + excess'[c] = Sum(cost) + excess[c]
    BY <1>7, <2>1 DEF Inv, TypeOK
  <2>4. CASE At(c, "refreshed")
    <3>1. Reads(c)'
      BY <2>1, <2>2, <2>3, <2>4 DEF VisitTrue, Reads
    <3> QED
      BY <2>1, <2>4, <3>1 DEF VisitTrue, At
  <2>5. CASE At(c, "decided")
    <3> DEFINE m == cash + Sum(cost) + excess[c]
               n1 == cash' + Sum(cost') + excess'[c]
               share == Share(visit[c].asset, visit[c].bonus)
               taken == (cost[visit[c].asset] + visit[c].value - missing[c]) * Whole
    <3>1. visit[c].asset \in Assets /\ visit[c].bonus \in BOOLEAN /\ visit[c].value \in Nat
      BY <2>5, VisitKinds DEF Inv, TypeOK, At
    <3>2. share \in Nat /\ Whole \in Nat /\ cost[visit[c].asset] \in Nat
      BY <1>4, <3>1, ShareTyped, WholeTyped
    <3>3. m \in Nat /\ n1 \in Nat /\ m <= n1 /\ taken \in Int
      BY <1>3, <1>4, <1>7, <2>1, <2>3, <3>1, <3>2
    <3>4. taken <= share * m
      BY <2>1, <2>5 DEF VisitTrue, Fits
    <3>5. Fits(c)' <=> taken <= share * n1
      BY <2>1, <2>2 DEF Fits
    <3> HIDE DEF m, n1, share, taken
    <3>6. share * m <= share * n1 /\ share * m \in Nat /\ share * n1 \in Nat
      BY <3>2, <3>3
    <3>7. Fits(c)'
      BY <3>3, <3>4, <3>5, <3>6
    <3> QED
      BY <2>1, <2>5, <3>7 DEF VisitTrue, At
  <2> QED
    BY <1>9, <2>4, <2>5 DEF Busy, At
<1>10. \A c \in Bots : c = b \/ ~Busy(c) => VisitTrue(c)'
  BY <1>2, <1>8 DEF VisitTrue, At, Busy
<1> QED
  BY <1>9, <1>10 DEF VisitsTrue

-----------------------------------------------------------------------------
(* The theorems                                                            *)

LEMMA InitInv == Init => Inv
<1> SUFFICES ASSUME Init PROVE Inv
  OBVIOUS
<1>1. TypeOK
  BY InitType
<1>2. \A b \in Bots : visit[b].step = "idle"
  BY IdleTyped DEF Init
<1>3. OwnVisits /\ FillsTrue /\ VisitsTrue
  BY <1>2 DEF OwnVisits, FillsTrue, VisitsTrue, VisitTrue, At
<1>4. ASSUME NEW a \in Assets PROVE Settled(a) = Nothing /\ Truth(a) = Nothing
  <2>1. ~Filling(a)
    BY <1>2, BoundsTyped DEF Filling
  <2>2. history \in Seq(Entries) /\ Len(history) = 0
    BY DEF Init
  <2>3. Logged(a) = Nothing
    BY <2>2, LoggedNow, LoggedIsPlayed, PlayedRule
  <2> QED
    BY <2>1, <2>3 DEF Settled, Truth, Nothing, Init
<1>5. NeverOver /\ NeverUnder
  BY <1>4, AtMostOrders DEF NeverOver, NeverUnder
<1> QED
  BY <1>1, <1>3, <1>5 DEF Inv

LEMMA NextInv == Inv /\ [Next]_vars => Inv'
<1> SUFFICES ASSUME Inv, [Next]_vars PROVE Inv'
  OBVIOUS
<1>1. TypeOK'
  BY NextType DEF Inv
<1>2. ASSUME NEW b \in Bots, NEW a \in Assets, Refresh(b, a) PROVE Inv'
  <2> DEFINE v == [step |-> "refreshed", asset |-> a, basis |-> [x \in Assets |-> Logged(x).cost]]
  <2>1. a \in Assigned(b) /\ visit[b].step = "idle" /\ visit' = [visit EXCEPT ![b] = v]
        /\ UNCHANGED <<held, cost, history, understated, overstated>>
    BY <1>2 DEF Refresh, At, account, observers
  <2>2. v.step = "refreshed" /\ v.asset = a
    OBVIOUS
  <2> HIDE DEF v
  <2>3. visit'[b] = v /\ \A c \in Bots \ {b} : visit'[c] = visit[c]
    BY <2>1 DEF Inv, TypeOK
  <2>4. NeverOver' /\ NeverUnder' /\ FillsTrue'
    BY <2>1, <2>2, <2>3, QuietStep DEF FillSteps
  <2>5. OwnVisits'
    BY <2>1, <2>2, <2>3 DEF Inv, OwnVisits, Assigned, At
  <2> QED
    BY <1>1, <1>2, <2>4, <2>5, RefreshTrue DEF Inv
<1>3. ASSUME NEW b \in Bots, NEW a \in Assets, Sell(b, a) PROVE Inv'
  <2>1. PICK n \in 1..held[a], w \in Nat : Sells(b, a, n, w)
    BY <1>3, SellIs DEF Inv
  <2> QED
    BY <1>1, <2>1, SellsKnown, SellsTrue DEF Inv
<1>4. ASSUME NEW b \in Bots, Leave(b), Rests, visit[b].step \notin FillSteps PROVE Inv'
  <2>1. visit' = [visit EXCEPT ![b] = Idle]
        /\ UNCHANGED <<cash, held, cost, history, understated, overstated>>
    BY <1>4 DEF Leave, Rests
  <2>2. visit'[b] = Idle /\ \A c \in Bots \ {b} : visit'[c] = visit[c]
    BY <2>1 DEF Inv, TypeOK
  <2>3. NeverOver' /\ NeverUnder' /\ FillsTrue'
    BY <1>4, <2>1, <2>2, IdleTyped, QuietStep DEF FillSteps
  <2> QED
    BY <1>1, <1>4, <2>1, <2>3, IdleOwns, LeaveErrors, LeaveTrue DEF Inv
<1>5. ASSUME NEW b \in Bots, Decide(b) PROVE Inv'
  <2>1. visit[b].step = "refreshed" /\ UNCHANGED <<held, cost, history, understated, overstated>>
    BY <1>5 DEF Decide, At, account, observers
  <2>2. PICK a : a = visit[b].asset
    OBVIOUS
  <2>3. PICK bonus \in BOOLEAN :
          IF Approved(b, a, bonus) <= MinBuy
          THEN Leave(b)
          ELSE visit' = [visit EXCEPT ![b] =
                    [step |-> "decided", asset |-> a, value |-> Approved(b, a, bonus),
                     bonus |-> bonus]]
    BY <1>5, <2>2 DEF Decide
  <2>4. PICK v : visit' = [visit EXCEPT ![b] = v] /\ v.step \in {"idle", "decided"}
                 /\ (v.step = "decided" => v.asset = a)
    BY <2>3, IdleTyped DEF Leave
  <2>5. visit'[b] = v /\ \A c \in Bots \ {b} : visit'[c] = visit[c]
    BY <2>4 DEF Inv, TypeOK
  <2>6. NeverOver' /\ NeverUnder' /\ FillsTrue'
    BY <2>1, <2>4, <2>5, QuietStep DEF FillSteps
  <2>7. OwnVisits'
    BY <2>1, <2>2, <2>4, <2>5 DEF Inv, OwnVisits, Assigned, At
  <2> QED
    BY <1>1, <1>5, <2>6, <2>7, DecideTrue DEF Inv
<1>6. ASSUME NEW b \in Bots, Pass(b) PROVE Inv'
  BY <1>4, <1>6 DEF Pass, At, FillSteps, Rests, account, observers, bounds
<1>7. ASSUME NEW b \in Bots, Buy(b) PROVE Inv'
  <2>1. /\ visit[b].step = "decided" /\ visit[b].asset \in Assets /\ visit[b].value \in Nat
        /\ (\E n, r \in Nat \ {0} : Buys(b, n, r)) \/ (Leave(b) /\ Rests)
    BY <1>7, BuyIs DEF Inv, At
  <2>2. ASSUME NEW n \in Nat \ {0}, NEW r \in Nat \ {0}, Buys(b, n, r) PROVE Inv'
    BY <1>1, <2>1, <2>2, BuysKnown, BuysTrue DEF Inv
  <2> QED
    BY <1>4, <2>1, <2>2 DEF FillSteps
<1>8. ASSUME NEW b \in Bots, Record(b) PROVE Inv'
  <2>1. visit' = [visit EXCEPT ![b] = Idle] /\ UNCHANGED <<cash, held, cost, excess, missing>>
    BY <1>8 DEF Record, account, errors
  <2> QED
    BY <1>1, <1>8, <2>1, RecordKnown, IdleOwns, LeaveTrue DEF Inv
<1>9. ASSUME NEW b \in Bots, Crash(b) PROVE Inv'
  <2>1. Leave(b) /\ UNCHANGED <<cash, held, cost>>
    BY <1>9 DEF Crash, account
  <2> QED
    BY <1>1, <1>9, <2>1, CrashKnown, IdleOwns, LeaveErrors, LeaveTrue DEF Inv
<1>10. CASE UNCHANGED <<cash, held, cost, history, understated, overstated, visit, excess, missing>>
  <2>1. NeverOver' /\ NeverUnder' /\ FillsTrue'
    BY <1>10, QuietStep
  <2>2. OwnVisits' /\ VisitsTrue'
    BY <1>10, VisitStays DEF Inv, OwnVisits, Assigned, At, VisitsTrue
  <2> QED
    BY <1>1, <2>1, <2>2 DEF Inv
<1>11. CASE Prune
  <2>1. UNCHANGED <<cash, held, cost, visit, excess, missing>>
    BY <1>11 DEF Prune, account, errors
  <2>2. FillsTrue' /\ OwnVisits' /\ VisitsTrue'
    BY <2>1, VisitStays DEF Inv, FillsTrue, OwnVisits, Assigned, At, VisitsTrue
  <2> QED
    BY <1>1, <1>11, <2>2, PruneKnown DEF Inv
<1>12. CASE NextDay \/ UNCHANGED vars
  BY <1>10, <1>12 DEF NextDay, vars, account, observers, errors, bounds
<1> QED
  BY <1>2, <1>3, <1>5, <1>6, <1>7, <1>8, <1>9, <1>11, <1>12 DEF Next

LEMMA InvAlways == Spec => []Inv
BY InitInv, NextInv, PTL DEF Spec

\* Once the fills of an asset are recorded, the replay of the trade history files knows
\* no less than the coins held and their cost unless the files were given too little
\* since the last sale of all of them, and no more unless they were given too much: for
\* every interleaving of the processes, whatever the daily deletion removed and however
\* long the history.
THEOREM HistoryAlwaysTrue == Spec => []HistoryTrue
<1>1. Inv => HistoryTrue
  <2> SUFFICES ASSUME Inv, NEW a \in Assets, Recorded(a)
               PROVE  /\ a \notin understated =>
                           Logged(a).amount >= held[a] /\ Logged(a).cost >= cost[a]
                      /\ a \notin overstated =>
                           Logged(a).amount <= held[a] /\ Logged(a).cost <= cost[a]
    BY DEF HistoryTrue
  <2>1. ~Filling(a)
    BY BoundsTyped DEF Recorded, Filling
  <2>2. Settled(a) = Logged(a) /\ Logged(a) \in Positions /\ Truth(a) \in Positions
    BY <2>1, LoggedTyped, SettledTyped DEF Settled, Inv
  <2>3. /\ a \notin understated => AtMost(Truth(a), Logged(a))
        /\ a \notin overstated => AtMost(Logged(a), Truth(a))
    BY <2>2 DEF Inv, NeverUnder, NeverOver
  <2> QED
    BY <2>2, <2>3 DEF AtMost, Truth, Positions
<1> QED
  BY <1>1, InvAlways, PTL

\* Whatever the other processes do between the reading of the files, of the balances
\* and the order, a buy leaves the asset within its share of the account, but for the
\* cost that the files had too much or another process sold meanwhile and the cost that
\* the files did not have: nothing else can be lost or counted twice.
THEOREM BudgetIsKept == Spec => BudgetKept
<1>1. ASSUME Inv, [Next]_vars, NEW b \in Bots, Buy(b), cash' < cash
      PROVE  (cost'[visit[b].asset] - missing[b]) * Whole
               <= Share(visit[b].asset, visit[b].bonus) * (cash + Sum(cost) + excess[b])
  <2>1. /\ At(b, "decided") /\ visit[b].asset \in Assets /\ visit[b].value \in Nat
        /\ (\E n, r \in Nat \ {0} : Buys(b, n, r)) \/ (Leave(b) /\ Rests)
    BY <1>1, BuyIs DEF Inv
  <2>2. ~Rests
    BY <1>1 DEF Rests, Inv, TypeOK
  <2>3. Fits(b)
    BY <1>1, <2>1 DEF Inv, VisitsTrue, VisitTrue
  <2>4. cost'[visit[b].asset] = cost[visit[b].asset] + visit[b].value
    BY <1>1, <2>1, <2>2 DEF Buys, Inv, TypeOK
  <2> DEFINE taken == cost[visit[b].asset] + visit[b].value - missing[b]
             most == Share(visit[b].asset, visit[b].bonus) * (cash + Sum(cost) + excess[b])
  <2>5. taken * Whole <= most
    BY <2>3 DEF Fits
  <2>6. cost'[visit[b].asset] - missing[b] = taken
    <3>1. cost \in [Assets -> Nat] /\ missing \in [Bots -> Nat]
      BY <1>1 DEF Inv, TypeOK
    <3>2. cost[visit[b].asset] \in Nat /\ missing[b] \in Nat /\ visit[b].value \in Nat
      BY <2>1, <3>1
    <3> QED
      BY <2>4, <3>2
  <2> HIDE DEF taken, most
  <2>7. (cost'[visit[b].asset] - missing[b]) * Whole <= most
    BY <2>5, <2>6
  <2> QED
    BY <2>7 DEF most
<1>2. Inv /\ [Next]_vars =>
        [\A b \in Bots :
           Buy(b) /\ cash' < cash
             => LET a == visit[b].asset
                IN  (cost'[a] - missing[b]) * Whole
                      <= Share(a, visit[b].bonus) * (cash + Sum(cost) + excess[b])]_vars
  BY <1>1
<1> QED
  BY <1>2, InvAlways, PTL DEF Spec, BudgetKept
=============================================================================
