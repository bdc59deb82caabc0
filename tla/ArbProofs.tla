------------------------------ MODULE ArbProofs ------------------------------
(***************************************************************************)
(* The arbitrage strategy, from the registry to the coordinator, for every *)
(* listing, set of books, fee, cap and bound.  Payouts: the worlds lp.rs   *)
(* enumerates are the resolutions of the venue, and a whole partition and  *)
(* a pair of a relation pay what classes 2 and 3 say they pay.  Universe   *)
(* and Engine: what the synchronisation fetches is what a sequential walk  *)
(* would, every opportunity pays at least its net whatever happens, its    *)
(* limits leave a gain, and the march stops at the best size.  And the     *)
(* coordinator that takes the opportunities.                               *)
(*                                                                         *)
(* The inductive invariant of Universe relates the walk to the books: the  *)
(* segments of a leg are the levels of its ladder up to the cursor and add *)
(* up to the units, and the last share was worth taking.  That of the      *)
(* coordinator adds to the checked invariants where, exactly, the one      *)
(* basket in flight is: `Pipeline' says that its stages exclude each       *)
(* other, that each stage carries the basket the reservation is held for,  *)
(* and that a basket can vanish from the stages only by the death of the   *)
(* execution task.  Without it handle_report, which releases the check the *)
(* REPORT carries, could release another basket than was reserved.         *)
(***************************************************************************)
EXTENDS Universe, Coordinator, FiniteSums, TLAPS

-----------------------------------------------------------------------------
(* The worlds of a component and what tokens pay in them.                  *)

\* What the registry builds: partitions of markets of the component, none of
\* them called "none of these".
WellFormed(c) ==
  \A p \in c.partitions :
    /\ p.markets \subseteq c.markets /\ IsFiniteSet(p.markets)
    /\ NoWinner \notin p.markets /\ p.exhaustive \in BOOLEAN

Winners(p, w) == {m \in p.markets : w[m]}

\* Choosing a winner, or nobody, is the same as at most one member being
\* true, and exactly one when the partition is exhaustive (partition_choices).
LEMMA ChoiceIsCount ==
  ASSUME NEW c, WellFormed(c), NEW p \in c.partitions, NEW w \in [c.markets -> BOOLEAN]
  PROVE  (\E x \in PartitionChoices(p) : \A m \in p.markets : w[m] = (m = x))
           <=> Cardinality(Winners(p, w)) \in IF p.exhaustive THEN {1} ELSE {0, 1}
<1>1. /\ p.markets \subseteq c.markets /\ IsFiniteSet(p.markets)
      /\ NoWinner \notin p.markets /\ p.exhaustive \in BOOLEAN
  BY DEF WellFormed
<1>2. \A m \in p.markets : w[m] \in BOOLEAN
  BY <1>1
<1>3. IsFiniteSet(Winners(p, w))
  BY <1>1, FS_Subset, Winners(p, w) \in SUBSET p.markets DEF Winners
<1>4. ASSUME NEW x \in PartitionChoices(p), \A m \in p.markets : w[m] = (m = x)
      PROVE  Cardinality(Winners(p, w)) \in IF p.exhaustive THEN {1} ELSE {0, 1}
  <2>1. CASE x \in p.markets
    <3>1. Winners(p, w) = {x}
      BY <1>4, <2>1 DEF Winners
    <3>2. Cardinality(Winners(p, w)) = 1
      BY <3>1, FS_Singleton
    <3> QED BY <3>2
  <2>2. CASE x \notin p.markets
    <3>1. ~p.exhaustive
      BY <2>2, <1>4 DEF PartitionChoices
    <3>2. Winners(p, w) = {}
      BY <1>4, <2>2 DEF Winners
    <3> QED BY <3>1, <3>2, FS_EmptySet
  <2> QED BY <2>1, <2>2
<1>5. ASSUME Cardinality(Winners(p, w)) \in IF p.exhaustive THEN {1} ELSE {0, 1}
      PROVE  \E x \in PartitionChoices(p) : \A m \in p.markets : w[m] = (m = x)
  <2>1. CASE Cardinality(Winners(p, w)) = 1
    <3>1. PICK x : Winners(p, w) = {x}
      BY <2>1, <1>3, FS_Singleton
    <3>2. x \in PartitionChoices(p)
      BY <3>1 DEF Winners, PartitionChoices
    <3>3. \A m \in p.markets : w[m] = (m = x)
      BY <3>1, <1>2 DEF Winners
    <3> QED BY <3>2, <3>3
  <2>2. CASE Cardinality(Winners(p, w)) # 1
    <3>1. ~p.exhaustive /\ Cardinality(Winners(p, w)) = 0
      BY <2>2, <1>5
    <3>2. Winners(p, w) = {}
      BY <3>1, <1>3, FS_EmptySet
    <3>3. NoWinner \in PartitionChoices(p)
      BY <3>1 DEF PartitionChoices
    <3>4. \A m \in p.markets : w[m] = (m = NoWinner)
      BY <3>2, <1>1, <1>2 DEF Winners
    <3> QED BY <3>3, <3>4
  <2> QED BY <2>1, <2>2
<1> QED BY <1>4, <1>5

\* enumerate_worlds yields the possible resolutions, no more and no fewer: a
\* missing one would let exact_worst_net promise what the venue may not pay,
\* an impossible one would hide an opportunity.
THEOREM EnumerationIsExact ==
  ASSUME NEW c, WellFormed(c)
  PROVE  EnumerateWorlds(c) = Resolutions(c)
<1>1. ASSUME NEW w \in [c.markets -> BOOLEAN], NEW p \in c.partitions
      PROVE  (\E x \in PartitionChoices(p) : \A m \in p.markets : w[m] = (m = x))
               <=> Cardinality({m \in p.markets : w[m]}) \in IF p.exhaustive THEN {1} ELSE {0, 1}
  BY ChoiceIsCount DEF Winners
<1> QED BY <1>1 DEF EnumerateWorlds, Resolutions

\* One YES of a verified partition pays, and every NO but one: the payouts
\* class2::detect gives its two baskets.
THEOREM PartitionPays ==
  ASSUME NEW c, WellFormed(c), NEW p \in c.partitions, p.exhaustive, NEW w \in Resolutions(c)
  PROVE  /\ Cardinality({m \in p.markets : TokenPays(w, YesOf(m))}) = 1
         /\ Cardinality({m \in p.markets : TokenPays(w, NoOf(m))}) = Cardinality(p.markets) - 1
<1>1. p.markets \subseteq c.markets /\ IsFiniteSet(p.markets)
  BY DEF WellFormed
<1>2. w \in [c.markets -> BOOLEAN] /\ Cardinality(Winners(p, w)) = 1
  BY DEF Resolutions, Winners
<1>3. {m \in p.markets : TokenPays(w, YesOf(m))} = Winners(p, w)
  BY <1>1, <1>2 DEF TokenPays, YesOf, Winners
<1>4. {m \in p.markets : TokenPays(w, NoOf(m))} = p.markets \ Winners(p, w)
  BY <1>1, <1>2 DEF TokenPays, NoOf, Winners
<1>5. Cardinality(p.markets \ Winners(p, w)) = Cardinality(p.markets) - 1
  <2>1. PICK x : Winners(p, w) = {x}
    <3>1. IsFiniteSet(Winners(p, w))
      BY <1>1, FS_Subset, Winners(p, w) \in SUBSET p.markets DEF Winners
    <3> QED BY <3>1, <1>2, FS_Singleton
  <2>2. x \in p.markets
    BY <2>1 DEF Winners
  <2> QED BY <2>1, <2>2, <1>1, FS_RemoveElement
<1> QED BY <1>2, <1>3, <1>4, <1>5

\* In every world a relation allows, at least one leg of each of its baskets
\* pays: the payout class3::detect gives them.
THEOREM PairPays ==
  ASSUME NEW r, r.kind \in {"Implies", "MutuallyExclusive", "Equivalent"},
         NEW w, w[r.a] \in BOOLEAN, w[r.b] \in BOOLEAN, Holds(w, r),
         NEW pair \in Pairs(r)
  PROVE  \E t \in pair : TokenPays(w, t)
<1>1. CASE r.kind = "Implies"
  <2>1. pair = {NoOf(r.a), YesOf(r.b)} /\ (w[r.a] => w[r.b])
    BY <1>1 DEF Pairs, Holds
  <2> QED BY <2>1 DEF TokenPays, NoOf, YesOf
<1>2. CASE r.kind = "MutuallyExclusive"
  <2>1. pair = {NoOf(r.a), NoOf(r.b)} /\ ~(w[r.a] /\ w[r.b])
    BY <1>2 DEF Pairs, Holds
  <2> QED BY <2>1 DEF TokenPays, NoOf
<1>3. CASE r.kind = "Equivalent"
  <2>1. w[r.a] = w[r.b]
    BY <1>3 DEF Holds
  <2>2. CASE pair = {NoOf(r.a), YesOf(r.b)}
    BY <2>1, <2>2 DEF TokenPays, NoOf, YesOf
  <2>3. CASE pair = {NoOf(r.b), YesOf(r.a)}
    BY <2>1, <2>3 DEF TokenPays, NoOf, YesOf
  <2>4. pair = {NoOf(r.a), YesOf(r.b)} \/ pair = {NoOf(r.b), YesOf(r.a)}
    BY <1>3 DEF Pairs
  <2> QED BY <2>2, <2>3, <2>4
<1> QED BY <1>1, <1>2, <1>3

-----------------------------------------------------------------------------
(* Rounding: a cost is rounded up, proceeds are rounded down.              *)

LEMMA RoundsUp ==
  ASSUME NEW a \in Int, NEW b \in Nat \ {0}
  PROVE  RoundedUp(a, b) \in Int /\ a <= b * RoundedUp(a, b)
<1> DEFINE q == (a + b - 1) \div b
<1>1. q \in Int /\ a + b - 1 < b * q + b
  OBVIOUS
<1>2. RoundedUp(a, b) = q
  BY DEF RoundedUp
<1> HIDE DEF q
<1> DEFINE x == b * q
<1>3. x \in Int /\ a + b - 1 < x + b
  BY <1>1
<1> HIDE DEF x
<1>4. a <= x
  BY <1>3
<1>5. QED
  BY <1>1, <1>2, <1>4 DEF x

LEMMA RoundsDown ==
  ASSUME NEW a \in Int, NEW b \in Nat \ {0}
  PROVE  a \div b \in Int /\ b * (a \div b) <= a
OBVIOUS

(* Of a multiple nothing is lost.                                          *)
LEMMA RoundsNot ==
  ASSUME NEW k \in Int, NEW b \in Nat \ {0}
  PROVE  (k * b) \div b = k /\ RoundedUp(k * b, b) = k
<1> DEFINE x == k * b
<1>1. x \in Int /\ k * b = x
  OBVIOUS
<1>2. x \div b = k
  <2> DEFINE q == x \div b
  <2>1. q \in Int /\ b * q <= x /\ x < b * q + b
    BY <1>1
  <2> HIDE DEF q
  <2>2. b * q = q * b /\ (q + 1) * b = q * b + b /\ (k + 1) * b = k * b + b
    BY <2>1
  <2>3. ~(q < k)
    <3>1. SUFFICES ASSUME q + 1 <= k PROVE FALSE
      BY <2>1
    <3>2. (q + 1) * b <= k * b
      BY <2>1, <3>1
    <3>3. QED
      BY <2>1, <2>2, <3>2
  <2>4. ~(k < q)
    <3>1. SUFFICES ASSUME k + 1 <= q PROVE FALSE
      BY <2>1
    <3>2. (k + 1) * b <= q * b
      BY <2>1, <3>1
    <3> DEFINE y == q * b
    <3>3. y \in Int /\ x + b <= y /\ y <= x
      BY <1>1, <2>1, <2>2, <3>2
    <3> HIDE DEF y, x
    <3>4. QED
      BY <1>1, <3>3
  <2>5. QED
    BY <2>1, <2>3, <2>4 DEF q
<1>3. (x + b - 1) \div b = k
  <2> DEFINE q == (x + b - 1) \div b
  <2>1. q \in Int /\ b * q <= x + b - 1 /\ x + b - 1 < b * q + b
    BY <1>1
  <2> HIDE DEF q
  <2>2. b * q = q * b /\ (q + 1) * b = q * b + b /\ (k + 1) * b = k * b + b
    BY <2>1
  <2> DEFINE y == q * b
  <2>3. y \in Int /\ y <= x + b - 1 /\ x + b - 1 < y + b
    BY <1>1, <2>1, <2>2
  <2>4. ~(q < k)
    <3>1. SUFFICES ASSUME q + 1 <= k PROVE FALSE
      BY <2>1
    <3>2. y + b <= x
      BY <2>1, <2>2, <3>1
    <3> HIDE DEF y, x
    <3>3. QED
      BY <1>1, <2>3, <3>2
  <2>5. ~(k < q)
    <3>1. SUFFICES ASSUME k + 1 <= q PROVE FALSE
      BY <2>1
    <3>2. x + b <= y
      BY <2>1, <2>2, <3>1
    <3> HIDE DEF y, x
    <3>3. QED
      BY <1>1, <2>3, <3>2
  <2>6. QED
    BY <2>1, <2>4, <2>5 DEF q
<1>4. QED
  BY <1>2, <1>3 DEF RoundedUp

LEMMA SumOnIs ==
  ASSUME NEW f, NEW S
  PROVE  SumFunctionOnSet(f, S) = Total(f, S)
BY Zenon DEF SumFunctionOnSet, FoldFunctionOnSet, Total, MapThenSumSet

-----------------------------------------------------------------------------
(* What trades cost and bring, with and without rounding.                  *)

Trade(tr) == tr.px \in Nat /\ tr.qty \in Nat /\ tr.action \in {"Buy", "Sell"}
TradeSet(ts) == IsFiniteSet(ts) /\ \A tr \in ts : Trade(tr)

\* what a trade brings: less than nothing when it buys
FlowOf(tr) == IF tr.action = "Buy" THEN -OutlayOf(tr) ELSE InflowOf(tr)

LEMMA LesserType == ASSUME NEW a \in Int, NEW b \in Int PROVE Lesser(a, b) \in Int /\ Lesser(a, b) <= a
BY DEF Lesser

(* The unrounded cash of a trade is at least the rounded one.              *)
LEMMA TradeRounds ==
  ASSUME NEW tr, Trade(tr), setup.fee \in Int
  PROVE  /\ OutlayOf(tr) \in Int /\ InflowOf(tr) \in Int /\ FlowOf(tr) \in Int
         /\ ScaledLegCost(tr.action, tr.px) \in Int
         /\ BpsDen * Dollar * FlowOf(tr) <= -ScaledLegCost(tr.action, tr.px) * tr.qty
<1> DEFINE p == tr.px
           q == tr.qty
           F == FeeBase(p)
           bd == BpsDen * Dollar
           cost == RoundedUp(p * q, Dollar)
           got == (p * q) \div Dollar
           fee == RoundedUp(F * q, bd)
<1>1. p \in Nat /\ q \in Nat /\ tr.action \in {"Buy", "Sell"}
  BY DEF Trade
<1>2. BpsDen \in Nat \ {0} /\ Dollar \in Nat \ {0}
  BY EngineAssumption
<1>3. bd \in Nat \ {0}
  BY <1>2
<1>4. F \in Int
  <2>1. Lesser(p, Dollar - p) \in Int
    <3>1. p \in Int /\ Dollar - p \in Int
      BY <1>1, <1>2
    <3> HIDE DEF p
    <3>2. QED
      BY <3>1, LesserType
  <2>2. QED
    BY <2>1 DEF FeeBase
<1> DEFINE pq == p * q
           Fq == F * q
<1>5. pq \in Int /\ Fq \in Int
  <2> HIDE DEF F
  <2>1. QED
    BY <1>1, <1>4
<1>6. cost \in Int /\ pq <= Dollar * cost /\ got \in Int /\ Dollar * got <= pq
  <2> HIDE DEF pq
  <2>1. RoundedUp(pq, Dollar) \in Int /\ pq <= Dollar * RoundedUp(pq, Dollar)
    BY <1>2, <1>5, RoundsUp
  <2>2. pq \div Dollar \in Int /\ Dollar * (pq \div Dollar) <= pq
    BY <1>2, <1>5, RoundsDown
  <2>3. QED
    BY <2>1, <2>2 DEF pq
<1>7. fee \in Int /\ Fq <= bd * fee
  <2> HIDE DEF Fq, bd
  <2>1. RoundedUp(Fq, bd) \in Int /\ Fq <= bd * RoundedUp(Fq, bd)
    BY <1>3, <1>5, RoundsUp
  <2>2. QED
    BY <2>1 DEF Fq
<1>8. OutlayOf(tr) = cost + fee /\ InflowOf(tr) = got - fee
  BY DEF OutlayOf, InflowOf, BuyCost, SellProceeds, Fee
<1>9. BpsDen * pq <= BpsDen * (Dollar * cost) /\ BpsDen * (Dollar * got) <= BpsDen * pq
  <2> HIDE DEF pq, cost, got
  <2> DEFINE c == Dollar * cost
             g == Dollar * got
  <2>1. c \in Int /\ g \in Int /\ pq <= c /\ g <= pq
    BY <1>2, <1>6
  <2> HIDE DEF c, g
  <2>2. BpsDen * pq <= BpsDen * c /\ BpsDen * g <= BpsDen * pq
    BY <1>2, <1>5, <2>1
  <2>3. QED
    BY <2>2 DEF c, g
<1>10. /\ BpsDen * (Dollar * cost) = bd * cost /\ BpsDen * (Dollar * got) = bd * got
       /\ bd * (cost + fee) = bd * cost + bd * fee
       /\ bd * (got - fee) = bd * got - bd * fee
       /\ bd * (-(cost + fee)) = -(bd * (cost + fee))
  <2> HIDE DEF cost, got, fee
  <2>1. QED
    BY <1>2, <1>6, <1>7
<1> DEFINE Bp == BpsDen * p
<1>11. Bp \in Int /\ Bp * q = BpsDen * pq /\ (Bp + F) * q = Bp * q + Fq /\ (Bp - F) * q = Bp * q - Fq
  <2> HIDE DEF F
  <2>1. QED
    BY <1>1, <1>2, <1>4
<1>12. CASE tr.action = "Buy"
  <2>1. ScaledLegCost(tr.action, tr.px) = Bp + F /\ FlowOf(tr) = -(cost + fee)
    BY <1>8, <1>12 DEF ScaledLegCost, FlowOf
  <2>2. -ScaledLegCost(tr.action, tr.px) * q = -(BpsDen * pq + Fq)
    <3> HIDE DEF F, pq, Fq, Bp
    <3>1. -(Bp + F) * q = -((Bp + F) * q)
      BY <1>1, <1>4, <1>11
    <3>2. QED
      BY <1>11, <2>1, <3>1
  <2>3. bd * FlowOf(tr) = -(bd * cost + bd * fee)
    <3> HIDE DEF bd, cost, fee
    <3>1. QED
      BY <1>10, <2>1
  <2>4. bd * FlowOf(tr) <= -ScaledLegCost(tr.action, tr.px) * q
    <3> DEFINE x == BpsDen * pq
               u == bd * cost
               v == bd * fee
    <3>1. x \in Int /\ u \in Int /\ v \in Int /\ x <= u /\ Fq <= v
      <4> HIDE DEF pq, cost, fee, Fq
      <4>1. QED
        BY <1>2, <1>3, <1>5, <1>6, <1>7, <1>9, <1>10
    <3> HIDE DEF x, u, v, Fq
    <3>2. -(u + v) <= -(x + Fq)
      BY <1>5, <3>1
    <3>3. QED
      BY <2>2, <2>3, <3>2 DEF x, u, v
  <2>5. QED
    <3> HIDE DEF F, cost, fee, got
    <3>1. QED
      BY <1>4, <1>6, <1>7, <1>8, <1>11, <2>1, <2>4
<1>13. CASE tr.action = "Sell"
  <2>1. ScaledLegCost(tr.action, tr.px) = -(Bp - F) /\ FlowOf(tr) = got - fee
    BY <1>8, <1>13 DEF ScaledLegCost, FlowOf
  <2>2. -ScaledLegCost(tr.action, tr.px) * q = BpsDen * pq - Fq
    <3> HIDE DEF F, pq, Fq, Bp
    <3>1. (-(Bp - F)) * q = -((Bp - F) * q) /\ (Bp - F) * q \in Int
      BY <1>1, <1>4, <1>11
    <3>2. QED
      BY <1>11, <2>1, <3>1
  <2>3. bd * FlowOf(tr) = bd * got - bd * fee
    <3> HIDE DEF bd, got, fee
    <3>1. QED
      BY <1>10, <2>1
  <2>4. bd * FlowOf(tr) <= -ScaledLegCost(tr.action, tr.px) * q
    <3> DEFINE x == BpsDen * pq
               u == bd * got
               v == bd * fee
    <3>1. x \in Int /\ u \in Int /\ v \in Int /\ u <= x /\ Fq <= v
      <4> HIDE DEF pq, got, fee, Fq
      <4>1. QED
        BY <1>2, <1>3, <1>5, <1>6, <1>7, <1>9, <1>10
    <3> HIDE DEF x, u, v, Fq
    <3>2. u - v <= x - Fq
      BY <1>5, <3>1
    <3>3. QED
      BY <2>2, <2>3, <3>2 DEF x, u, v
  <2>5. QED
    <3> HIDE DEF F, cost, fee, got
    <3>1. QED
      BY <1>4, <1>6, <1>7, <1>8, <1>11, <2>1, <2>4
<1>14. QED
  BY <1>1, <1>12, <1>13

(* And so is that of several.                                              *)
LEMMA CashRounds ==
  ASSUME NEW ts, TradeSet(ts), setup.fee \in Int
  PROVE  /\ Inflow(ts) \in Int /\ Outlay(ts) \in Int /\ ScaledCash(ts) \in Int
         /\ BpsDen * Dollar * (Inflow(ts) - Outlay(ts)) <= ScaledCash(ts)
<1> DEFINE bought == {tr \in ts : tr.action = "Buy"}
           sold == {tr \in ts : tr.action = "Sell"}
           out == [tr \in bought |-> OutlayOf(tr)]
           in == [tr \in sold |-> InflowOf(tr)]
           flow == [tr \in ts |-> FlowOf(tr)]
           cash == [tr \in ts |-> -ScaledLegCost(tr.action, tr.px) * tr.qty]
           bd == BpsDen * Dollar
           scaled == [tr \in ts |-> bd * flow[tr]]
<1>1. IsFiniteSet(ts) /\ IsFiniteSet(bought) /\ IsFiniteSet(sold)
  BY FS_Subset DEF TradeSet
<1>2. bd \in Nat
  BY EngineAssumption
<1>3. ASSUME NEW tr \in ts
      PROVE  /\ tr.action \in {"Buy", "Sell"} /\ OutlayOf(tr) \in Int /\ InflowOf(tr) \in Int
             /\ FlowOf(tr) \in Int /\ -ScaledLegCost(tr.action, tr.px) * tr.qty \in Int
             /\ bd * FlowOf(tr) <= -ScaledLegCost(tr.action, tr.px) * tr.qty
  <2>1. Trade(tr) /\ tr.action \in {"Buy", "Sell"} /\ tr.qty \in Int
    BY DEF TradeSet, Trade
  <2>2. QED
    BY <2>1, TradeRounds
<1>4. /\ \A tr \in ts : flow[tr] \in Int /\ cash[tr] \in Int
      /\ \A tr \in ts : scaled[tr] = bd * flow[tr] /\ scaled[tr] \in Int /\ scaled[tr] <= cash[tr]
      /\ \A tr \in bought : out[tr] \in Int /\ flow[tr] = -out[tr]
      /\ \A tr \in sold : in[tr] \in Int /\ flow[tr] = in[tr]
  <2>1. \A tr \in ts : flow[tr] = FlowOf(tr) /\ cash[tr] = -ScaledLegCost(tr.action, tr.px) * tr.qty
    OBVIOUS
  <2>2. \A tr \in ts : scaled[tr] = bd * FlowOf(tr)
    OBVIOUS
  <2> HIDE DEF bd
  <2>3. \A tr \in ts : flow[tr] \in Int /\ cash[tr] \in Int
    BY <1>3, <2>1
  <2>4. \A tr \in ts : scaled[tr] \in Int
    BY <1>2, <1>3, <2>2
  <2>5. \A tr \in ts : scaled[tr] = bd * flow[tr] /\ scaled[tr] <= cash[tr]
    BY <1>3, <2>1, <2>2
  <2>6. \A tr \in bought : tr \in ts /\ out[tr] = OutlayOf(tr) /\ FlowOf(tr) = -OutlayOf(tr)
    BY DEF FlowOf
  <2>7. \A tr \in sold : tr \in ts /\ in[tr] = InflowOf(tr) /\ FlowOf(tr) = InflowOf(tr)
    BY DEF FlowOf
  <2> HIDE DEF flow, cash, scaled, out, in, bought, sold
  <2>8. \A tr \in bought : out[tr] \in Int /\ flow[tr] = -out[tr]
    BY <1>3, <2>1, <2>6
  <2>9. \A tr \in sold : in[tr] \in Int /\ flow[tr] = in[tr]
    BY <1>3, <2>1, <2>7
  <2>10. QED
    BY <2>3, <2>4, <2>5, <2>8, <2>9
<1>5. bought \in SUBSET ts /\ sold \in SUBSET ts /\ bought \cap sold = {} /\ bought \cup sold = ts
  BY <1>3
<1>6. Inflow(ts) = Total(in, sold) /\ Outlay(ts) = Total(out, bought) /\ ScaledCash(ts) = Total(cash, ts)
  BY SumOnIs DEF Inflow, Outlay, ScaledCash
<1> HIDE DEF bought, sold, out, in, flow, cash, scaled, bd
<1>7. Total(flow, ts) = Total(flow, bought) + Total(flow, sold)
  BY <1>1, <1>4, <1>5, TotalParts
<1>8. Total(flow, bought) = -Total(out, bought) /\ Total(flow, sold) = Total(in, sold)
  <2>1. \A tr \in bought : flow[tr] \in Int /\ out[tr] \in Int /\ flow[tr] = -out[tr]
    BY <1>4, <1>5
  <2>2. QED
    BY <1>1, <1>4, <2>1, TotalMinus, TotalAgree
<1>9. Total(scaled, ts) = bd * Total(flow, ts)
  BY <1>1, <1>2, <1>4, TotalTimes
<1>10. Total(scaled, ts) <= Total(cash, ts)
  BY <1>1, <1>4, TotalLess
<1>11. /\ Total(in, sold) \in Int /\ Total(out, bought) \in Int /\ Total(cash, ts) \in Int
       /\ Total(flow, ts) \in Int
  BY <1>1, <1>4, TotalType
<1>12. Inflow(ts) - Outlay(ts) = Total(flow, ts)
  BY <1>6, <1>7, <1>8, <1>11
<1>13. QED
  BY <1>6, <1>9, <1>10, <1>11, <1>12 DEF bd

-----------------------------------------------------------------------------
(* What the venue can resolve the events to is among the worlds.           *)

Listed == listing \in {s.listing : s \in Scenarios}

\* the listings of a market that is open and a named outcome; of a NegRisk one
Outright(m) ==
  m \in Open /\ \A p \in PlacesOf(listing) : ConditionAt(p) = m => MemberAt(p).question = "named"
Flagged(m) == \A p \in PlacesOf(listing) : ConditionAt(p) = m => MemberAt(p).negRisk

Counted(times) == IsFiniteSet(DOMAIN times) /\ \A m \in DOMAIN times : times[m] \in Nat \ {0}

\* a verified set, of members that each have their own tokens
PartitionSound(p) ==
  /\ Cardinality(p.markets) >= 2 /\ p.outcomes = [m \in p.markets |-> 1]
  /\ p.exhaustive => \A m \in p.markets : Outright(m)
  /\ \E m \in p.markets : Flagged(m)
PartitionBuilt(c, p) ==
  /\ p.markets \subseteq c.markets /\ p.exhaustive \in BOOLEAN /\ Counted(p.outcomes)
  /\ ListedOnce => PartitionSound(p)
RelationBuilt(c, r) ==
  /\ r.kind \in {"Implies", "MutuallyExclusive", "Equivalent"}
  /\ r.a \in c.markets /\ r.b \in c.markets /\ r.a # r.b

\* what a detector relies on of its component
ComponentBuilt(c) ==
  /\ c.markets \subseteq Conditions /\ IsFiniteSet(c.markets)
  /\ DOMAIN c.listed = c.markets /\ Counted(c.listed)
  /\ \A p \in c.partitions : PartitionBuilt(c, p)
  /\ \A r \in c.relations : RelationBuilt(c, r)

LEMMA ComponentKept ==
  ASSUME listing' = listing, NEW c, ComponentBuilt(c)
  PROVE  ComponentBuilt(c)'
<1>1. \A m : (Outright(m) => Outright(m)') /\ (Flagged(m) => Flagged(m)')
  BY DEF Outright, Flagged, ConditionAt, MemberAt
<1>2. ListedOnce' => ListedOnce
  BY DEF ListedOnce, ConditionAt, MemberAt
<1>3. \A p : PartitionBuilt(c, p) => PartitionBuilt(c, p)'
  BY <1>1, <1>2 DEF PartitionBuilt, PartitionSound
<1>4. QED
  BY <1>3 DEF ComponentBuilt, RelationBuilt

LEMMA OnceKept ==
  ASSUME listing' = listing
  PROVE  ListedOnce' <=> ListedOnce
BY DEF ListedOnce, ConditionAt, MemberAt

LEMMA ListedIn ==
  ASSUME Listed
  PROVE  listing \in Seq(Seq(ListedEvent)) /\ Consistent(listing)
BY UniverseAssumption DEF Listed

(* A member of an event is at a place of the listing.                      *)
LEMMA PlacesList ==
  ASSUME NEW e \in ListedEvents
  PROVE  \A k \in DOMAIN e.members :
           \E p \in PlacesOf(listing) : MemberAt(p) = e.members[k]
<1>1. PICK i \in DOMAIN listing : e \in Range(listing[i])
  BY DEF ListedEvents
<1>2. PICK j \in DOMAIN listing[i] : e = listing[i][j]
  BY <1>1 DEF Range
<1>3. ASSUME NEW k \in DOMAIN e.members
      PROVE  \E p \in PlacesOf(listing) : MemberAt(p) = e.members[k]
  <2>1. <<i, j, k>> \in PlacesOf(listing)
    <3>1. k \in DOMAIN listing[i][j].members
      BY <1>2, <1>3
    <3>2. <<i, j, k>> \in PlacesOn(listing, i)
      BY <3>1 DEF PlacesOn
    <3>3. QED
      BY <3>2 DEF PlacesOf
  <2>2. MemberAt(<<i, j, k>>) = e.members[k]
    BY <1>2 DEF MemberAt, ListedAt
  <2>3. QED
    BY <2>1, <2>2
<1>4. QED
  BY <1>3

LEMMA EventTyped ==
  ASSUME Listed, NEW e \in ListedEvents
  PROVE  e.members \in Seq(Member)
<1>1. listing \in Seq(Seq(ListedEvent))
  BY ListedIn
<1>2. PICK i \in DOMAIN listing : e \in Range(listing[i])
  BY DEF ListedEvents
<1>3. listing[i] \in Seq(ListedEvent)
  BY <1>1, <1>2
<1>4. e \in ListedEvent
  BY <1>2, <1>3 DEF Range
<1>5. QED
  BY <1>4 DEF ListedEvent

(* An event with two conditions has two members.                           *)
LEMMA TwoMembers ==
  ASSUME NEW ms \in Seq(Member), Cardinality(ConditionsOf(ms)) >= 2
  PROVE  Len(ms) >= 2
<1>1. Len(ms) \in Nat /\ DOMAIN ms = 1 .. Len(ms)
  OBVIOUS
<1>2. CASE Len(ms) = 0
  <2>1. ConditionsOf(ms) = {}
    BY <1>1, <1>2 DEF ConditionsOf
  <2>2. Cardinality(ConditionsOf(ms)) = 0
    BY <2>1, FS_EmptySet
  <2>3. QED
    BY <2>2
<1>3. CASE Len(ms) = 1
  <2>1. ConditionsOf(ms) = {ms[1].condition}
    BY <1>1, <1>3 DEF ConditionsOf
  <2>2. Cardinality(ConditionsOf(ms)) = 1
    BY <2>1, FS_Singleton
  <2>3. QED
    BY <2>2
<1>4. QED
  BY <1>1, <1>2, <1>3

LEMMA ComponentFormed ==
  ASSUME NEW c, ComponentBuilt(c)
  PROVE  WellFormed(c)
<1>1. ASSUME NEW p \in c.partitions
      PROVE  /\ p.markets \subseteq c.markets /\ IsFiniteSet(p.markets)
             /\ NoWinner \notin p.markets /\ p.exhaustive \in BOOLEAN
  <2>1. p.markets \subseteq c.markets /\ p.exhaustive \in BOOLEAN
    BY DEF ComponentBuilt, PartitionBuilt
  <2>2. c.markets \subseteq Conditions /\ IsFiniteSet(c.markets)
    BY DEF ComponentBuilt
  <2>3. QED
    BY <2>1, <2>2, FS_Subset, UniverseAssumption
<1>2. QED
  BY <1>1 DEF WellFormed

\* Whatever the listed events resolve to is a world that the solver and the
\* payouts of the basket classes account for, when no partition of the
\* component lost a member of its event (derive_partition, enumerate_worlds).
LEMMA VerdictsAreWorlds ==
  ASSUME Listed, ListedOnce, ComponentBuilt(comp), TakenWhole
  PROVE  Verdicts \subseteq EnumerateWorlds(comp)
<1>1. SUFFICES ASSUME NEW w \in Verdicts PROVE w \in Resolutions(comp)
  BY ComponentFormed, EnumerationIsExact
<1>2. w \in [comp.markets -> BOOLEAN] /\ \A r \in comp.relations : Holds(w, r)
  BY DEF Verdicts
<1>3. ASSUME NEW p \in comp.partitions
      PROVE  Cardinality({m \in p.markets : w[m]}) \in IF p.exhaustive THEN {1} ELSE {0, 1}
  <2>1. PICK e \in ListedEvents : p.markets = ConditionsOf(e.members)
    BY DEF TakenWhole
  <2>2. /\ p.markets \subseteq comp.markets /\ Cardinality(p.markets) >= 2 /\ p.exhaustive \in BOOLEAN
        /\ p.exhaustive => \A m \in p.markets : Outright(m)
        /\ \E m \in p.markets : Flagged(m)
        /\ IsFiniteSet(comp.markets)
    BY DEF ComponentBuilt, PartitionBuilt, PartitionSound
  <2>3. e.members \in Seq(Member) /\ \A m \in p.markets : \E k \in DOMAIN e.members : m = e.members[k].condition
    BY <2>1, EventTyped DEF ConditionsOf
  <2>4. IsNegRisk(e)
    <3>1. PICK m \in p.markets : Flagged(m)
      BY <2>2
    <3>2. PICK k \in DOMAIN e.members : m = e.members[k].condition
      BY <2>3
    <3>3. PICK q \in PlacesOf(listing) : MemberAt(q) = e.members[k]
      BY PlacesList
    <3>4. e.members[k].negRisk
      BY <3>1, <3>2, <3>3 DEF Flagged, ConditionAt
    <3>5. QED
      BY <3>4 DEF IsNegRisk, Range
  <2> DEFINE ms == ConditionsOf(e.members)
             won == Cardinality({m \in ms \cap comp.markets : w[m]})
  <2>5. won <= 1 /\ ((OneWins(e) /\ ms \subseteq comp.markets) => won = 1)
    BY <2>4 DEF Verdicts
  <2>6. {m \in ms \cap comp.markets : w[m]} = {m \in p.markets : w[m]}
    BY <2>1, <2>2
  <2>7. won \in Nat
    <3>1. {m \in p.markets : w[m]} \in SUBSET comp.markets
      BY <2>2
    <3>2. IsFiniteSet({m \in p.markets : w[m]})
      BY <2>2, <3>1, FS_Subset
    <3>3. QED
      BY <2>6, <3>2, FS_CardinalityType
  <2>8. CASE ~p.exhaustive
    <3>1. won \in {0, 1}
      BY <2>5, <2>7
    <3>2. QED
      BY <2>6, <2>8, <3>1
  <2>9. CASE p.exhaustive
    <3>1. ASSUME NEW k \in DOMAIN e.members
          PROVE  e.members[k].condition \in Open /\ e.members[k].question = "named"
      <4>1. e.members[k].condition \in p.markets
        BY <2>1 DEF ConditionsOf
      <4>2. Outright(e.members[k].condition)
        BY <2>2, <2>9, <4>1
      <4>3. PICK q \in PlacesOf(listing) : MemberAt(q) = e.members[k]
        BY PlacesList
      <4>4. QED
        BY <4>2, <4>3 DEF Outright, ConditionAt
    <3>2. Len(e.members) >= 2
      BY <2>1, <2>2, <2>3, TwoMembers
    <3>3. OneWins(e)
      BY <2>4, <3>1, <3>2 DEF OneWins, Range
    <3>4. won = 1
      BY <2>1, <2>2, <2>5, <3>3
    <3>5. QED
      BY <2>6, <2>9, <3>4
  <2>10. QED
    BY <2>2, <2>8, <2>9
<1>4. QED
  BY <1>2, <1>3 DEF Resolutions

-----------------------------------------------------------------------------
(* The baskets of classes 1 to 3, and what they pay.                       *)

SetupBuilt ==
  /\ ComponentBuilt(comp) /\ setup.fee \in Nat /\ DOMAIN setup.books = TokensOf(comp.markets)
  /\ \A t \in TokensOf(comp.markets) : IsBook(setup.books[t])

Paying(b, w) == {t \in DOMAIN b.legs : TokenPays(w, t)}

\* all is bought, and of every world so many legs pay as the payout says
PaysForAll(b) ==
  /\ b.class # "C1Short" /\ b.collateral = 0
  /\ \A t \in DOMAIN b.legs : b.legs[t] = "Buy"
  /\ \E k \in Nat :
       b.payout = k * Dollar /\ \A w \in EnumerateWorlds(comp) : k <= Cardinality(Paying(b, w))

\* a set is split and both tokens of it are sold
SplitsASet(b) ==
  /\ b.class = "C1Short" /\ b.payout = 0 /\ b.collateral = Dollar
  /\ \E m \in comp.markets : b.legs = Selling(SetOf(m))

\* the tokens that have a book, and the further lanes of them
Quoted ==
  TokensOf(comp.markets) \cup (comp.markets \X {"yes", "no"} \X Nat)

BasketBuilt(b) ==
  /\ IsFiniteSet(DOMAIN b.legs) /\ DOMAIN b.legs # {} /\ DOMAIN b.legs \subseteq Quoted
  /\ \A t \in DOMAIN b.legs : b.legs[t] \in {"Buy", "Sell"}
  /\ b.payout \in Int /\ b.collateral \in Nat /\ b.gas \in Nat
  /\ b.class # "C4Lp"
  /\ ListedOnce => /\ DOMAIN b.legs \subseteq TokensOf(comp.markets)
                   /\ PaysForAll(b) \/ SplitsASet(b)

LEMMA TokensQuoted ==
  /\ TokensOf(comp.markets) \subseteq Quoted
  /\ \A t \in TokensOf(comp.markets) : TokenOf(t) = t
  /\ \A t \in Quoted : TokenOf(t) \in TokensOf(comp.markets)
<1>1. \A t \in TokensOf(comp.markets) : TokenOf(t) = t
  BY DEF TokensOf, TokenOf, YesOf, NoOf
<1>2. ASSUME NEW m \in comp.markets, NEW side \in {"yes", "no"}, NEW i
      PROVE  TokenOf(<<m, side, i>>) \in TokensOf(comp.markets)
  <2>1. TokenOf(<<m, side, i>>) = <<m, side>>
    BY DEF TokenOf
  <2>2. QED
    BY <2>1 DEF TokensOf, YesOf, NoOf
<1>3. QED
  BY <1>1, <1>2 DEF Quoted

LEMMA NotEmpty ==
  ASSUME NEW S, IsFiniteSet(S), S # {}
  PROVE  1 <= Cardinality(S)
<1>1. Cardinality(S) \in Nat /\ Cardinality(S) # 0
  BY FS_CardinalityType, FS_EmptySet
<1>2. QED
  BY <1>1

LEMMA PairFinite ==
  ASSUME NEW x, NEW y
  PROVE  IsFiniteSet({x, y})
<1>1. IsFiniteSet({x}) /\ {x, y} = {x} \cup {y}
  BY FS_Singleton
<1>2. IsFiniteSet({x} \cup {y})
  BY <1>1, FS_AddElement
<1>3. QED
  BY <1>1, <1>2, Zenon

(* As many markets as there are NO tokens of them.                         *)
LEMMA NoTokens ==
  ASSUME NEW S, IsFiniteSet(S)
  PROVE  IsFiniteSet({NoOf(m) : m \in S}) /\ Cardinality({NoOf(m) : m \in S}) = Cardinality(S)
<1> DEFINE T == {NoOf(m) : m \in S}
           f == [m \in S |-> NoOf(m)]
<1>1. f \in Surjection(S, T)
  BY DEF Surjection
<1>2. f \in Injection(S, T)
  BY DEF Injection, IsInjective, NoOf
<1> HIDE DEF f
<1>3. QED
  BY <1>1, <1>2, FS_Surjection

LEMMA SidesDiffer ==
  \A m, n : YesOf(m) # NoOf(n) /\ (YesOf(m) = YesOf(n) => m = n) /\ (NoOf(m) = NoOf(n) => m = n)
BY DEF YesOf, NoOf

LEMMA GasTyped == Gas.split \in Nat /\ Gas.merge \in Nat /\ Gas.redeem \in Nat /\ Gas.convert \in Nat
BY UniverseAssumption

LEMMA Class1Built ==
  ASSUME SetupBuilt, NEW b \in Class1
  PROVE  BasketBuilt(b)
<1>1. PICK m \in comp.markets :
        \/ b = [class |-> "C1Long", legs |-> Buying(SetOf(m)), payout |-> Dollar, collateral |-> 0,
                gas |-> IF Redeem = "Merge" THEN Gas.merge ELSE Gas.redeem, floor |-> FloorC12]
        \/ b = [class |-> "C1Short", legs |-> Selling(SetOf(m)), payout |-> 0, collateral |-> Dollar,
                gas |-> Gas.split, floor |-> FloorC12]
  BY DEF Class1
<1>2. /\ DOMAIN b.legs = SetOf(m) /\ SetOf(m) = {YesOf(m), NoOf(m)}
      /\ b.legs = Buying(SetOf(m)) \/ b.legs = Selling(SetOf(m))
  BY <1>1 DEF Buying, Selling, SetOf
<1>3. IsFiniteSet(SetOf(m)) /\ SetOf(m) # {} /\ SetOf(m) \subseteq TokensOf(comp.markets)
  <2>1. IsFiniteSet({YesOf(m), NoOf(m)})
    BY PairFinite
  <2>2. QED
    BY <2>1 DEF SetOf, TokensOf
<1>4. \A t \in DOMAIN b.legs : b.legs[t] \in {"Buy", "Sell"}
  BY <1>2 DEF Buying, Selling
<1>5. b.payout \in Int /\ b.collateral \in Nat /\ b.gas \in Nat /\ b.class # "C4Lp"
  BY <1>1, EngineAssumption, GasTyped
<1>6. CASE b.class = "C1Short"
  <2>1. b.payout = 0 /\ b.collateral = Dollar /\ b.legs = Selling(SetOf(m))
    BY <1>1, <1>6
  <2>2. QED
    BY <1>2, <1>3, <1>4, <1>5, <1>6, <2>1, TokensQuoted DEF BasketBuilt, SplitsASet
<1>7. CASE b.class # "C1Short"
  <2>1. b.payout = Dollar /\ b.collateral = 0 /\ b.legs = Buying(SetOf(m))
    BY <1>1, <1>7
  <2>2. \A t \in DOMAIN b.legs : b.legs[t] = "Buy"
    BY <2>1 DEF Buying
  <2>3. ASSUME NEW w \in EnumerateWorlds(comp)
        PROVE  1 <= Cardinality(Paying(b, w))
    <3>1. w \in [comp.markets -> BOOLEAN]
      BY DEF EnumerateWorlds
    <3>2. \E t \in SetOf(m) : TokenPays(w, t)
      <4>1. TokenPays(w, YesOf(m)) \/ TokenPays(w, NoOf(m))
        BY <3>1 DEF TokenPays, YesOf, NoOf
      <4>2. QED
        BY <4>1 DEF SetOf
    <3>3. Paying(b, w) # {} /\ Paying(b, w) \in SUBSET SetOf(m)
      BY <1>2, <3>2 DEF Paying
    <3>4. QED
      BY <1>3, <3>3, FS_Subset, NotEmpty
  <2>4. b.payout = 1 * Dollar
    BY <2>1, EngineAssumption
  <2>5. PaysForAll(b)
    BY <1>7, <2>1, <2>2, <2>3, <2>4 DEF PaysForAll
  <2>6. QED
    BY <1>2, <1>3, <1>4, <1>5, <2>5, TokensQuoted DEF BasketBuilt
<1>8. QED
  BY <1>6, <1>7

(* The lanes of outcomes that are each listed once.                        *)
LEMMA OnceLanes ==
  ASSUME NEW S, IsFiniteSet(S), NEW times, times = [m \in S |-> 1]
  PROVE  /\ LengthOf(times) = Cardinality(S)
         /\ Lanes(times, "yes") = {YesOf(m) : m \in S} /\ Lanes(times, "no") = {NoOf(m) : m \in S}
<1>1. DOMAIN times = S /\ \A m \in S : times[m] = 1
  OBVIOUS
<1>2. LengthOf(times) = Cardinality(S)
  <2>1. Total(times, S) = 1 * Cardinality(S)
    BY <1>1, TotalSame
  <2>2. Cardinality(S) \in Nat
    BY FS_CardinalityType
  <2>3. QED
    BY <1>1, <2>1, <2>2, SumOnIs DEF LengthOf
<1>3. \A m \in S : 2 .. times[m] = {}
  BY <1>1
<1>4. ASSUME NEW side
      PROVE  Lanes(times, side) = {<<m, side>> : m \in S}
  <2>1. \A m \in S : {<<m, side, i>> : i \in 2 .. times[m]} = {}
    BY <1>3
  <2>2. UNION {{<<m, side, i>> : i \in 2 .. times[m]} : m \in S} = {}
    BY <2>1
  <2>3. QED
    BY <1>1, <2>2 DEF Lanes
<1>5. QED
  BY <1>2, <1>4 DEF YesOf, NoOf

LEMMA LanesFinite ==
  ASSUME NEW times, Counted(times), NEW side
  PROVE  IsFiniteSet(Lanes(times, side))
<1> DEFINE first == [m \in DOMAIN times |-> <<m, side>>]
           more == [m \in DOMAIN times |-> {<<m, side, i>> : i \in 2 .. times[m]}]
<1>1. IsFiniteSet({first[m] : m \in DOMAIN times}) /\ IsFiniteSet({more[m] : m \in DOMAIN times})
  BY ValuesFinite DEF Counted
<1>2. ASSUME NEW m \in DOMAIN times PROVE IsFiniteSet(more[m])
  <2> DEFINE lane == [i \in 2 .. times[m] |-> <<m, side, i>>]
  <2>1. IsFiniteSet(2 .. times[m])
    BY FS_Interval DEF Counted
  <2>2. IsFiniteSet({lane[i] : i \in 2 .. times[m]})
    <3> HIDE DEF lane
    <3>1. QED
      BY <2>1, ValuesFinite
  <2>3. QED
    BY <2>2
<1>3. IsFiniteSet(UNION {more[m] : m \in DOMAIN times})
  <2> HIDE DEF more
  <2>1. QED
    BY <1>1, <1>2, FS_UNION
<1>4. Lanes(times, side) = {first[m] : m \in DOMAIN times} \cup UNION {more[m] : m \in DOMAIN times}
  <2>1. {first[m] : m \in DOMAIN times} = {<<m, side>> : m \in DOMAIN times}
    OBVIOUS
  <2>2. {more[m] : m \in DOMAIN times} = {{<<m, side, i>> : i \in 2 .. times[m]} : m \in DOMAIN times}
    OBVIOUS
  <2> HIDE DEF first, more
  <2>3. QED
    BY <2>1, <2>2, Zenon DEF Lanes
<1>5. QED
  <2> DEFINE A == {first[m] : m \in DOMAIN times}
             B == UNION {more[m] : m \in DOMAIN times}
  <2>1. IsFiniteSet(A) /\ IsFiniteSet(B) /\ Lanes(times, side) = A \cup B
    BY <1>1, <1>3, <1>4
  <2> HIDE DEF A, B
  <2>2. QED
    BY <2>1, FS_Union

(* The lanes that are on a side of markets of the component are quoted.    *)
LEMMA LanesQuoted ==
  ASSUME NEW times, Counted(times), NEW side \in {"yes", "no"},
         \A t \in Lanes(times, side) : TokenOf(t) \in TokensOf(comp.markets)
  PROVE  Lanes(times, side) \subseteq Quoted
<1>1. ASSUME NEW m \in DOMAIN times PROVE m \in comp.markets /\ <<m, side>> \in TokensOf(comp.markets)
  <2>1. <<m, side>> \in Lanes(times, side) /\ TokenOf(<<m, side>>) = <<m, side>>
    BY DEF Lanes, TokenOf
  <2>2. <<m, side>> \in TokensOf(comp.markets)
    BY <2>1
  <2>3. QED
    BY <2>2 DEF TokensOf, YesOf, NoOf
<1>2. ASSUME NEW m \in DOMAIN times, NEW i \in 2 .. times[m] PROVE <<m, side, i>> \in Quoted
  <2>1. i \in Nat
    BY DEF Counted
  <2>2. QED
    BY <1>1, <2>1 DEF Quoted
<1>3. QED
  BY <1>1, <1>2 DEF Lanes, Quoted

LEMMA Class2Built ==
  ASSUME SetupBuilt, NEW b \in Class2
  PROVE  BasketBuilt(b)
<1>1. PICK p \in {p \in Tradable : \A t \in LanesOf(p) : Readable(t)} :
        \/ b = [class |-> "C2Long", legs |-> Buying(Lanes(p.outcomes, "yes")), payout |-> Dollar,
                collateral |-> 0, gas |-> Gas.redeem, floor |-> FloorC12]
        \/ b = [class |-> "C2Short", legs |-> Buying(Lanes(p.outcomes, "no")),
                payout |-> (LengthOf(p.outcomes) - 1) * Dollar,
                collateral |-> 0, gas |-> Gas.convert, floor |-> FloorC12]
  BY DEF Class2
<1>2. p \in comp.partitions /\ p.exhaustive /\ LengthOf(p.outcomes) >= 2
  BY DEF Tradable
<1>3. PartitionBuilt(comp, p) /\ Counted(p.outcomes)
  BY <1>2 DEF SetupBuilt, ComponentBuilt, PartitionBuilt
<1>4. LengthOf(p.outcomes) \in Int
  <2>1. Total(p.outcomes, DOMAIN p.outcomes) \in Int
    BY <1>3, TotalType DEF Counted
  <2>2. QED
    BY <2>1, SumOnIs DEF LengthOf
<1> DEFINE side == IF b.class = "C2Long" THEN "yes" ELSE "no"
           toks == Lanes(p.outcomes, side)
<1>5. DOMAIN b.legs = toks /\ \A t \in toks : b.legs[t] = "Buy"
  BY <1>1 DEF Buying
<1>6. IsFiniteSet(toks) /\ toks \subseteq Quoted
  <2>1. \A t \in toks : TokenOf(t) \in TokensOf(comp.markets)
    BY DEF LanesOf, Readable, SetupBuilt
  <2> HIDE DEF toks
  <2>2. side \in {"yes", "no"}
    OBVIOUS
  <2> HIDE DEF side
  <2>3. QED
    BY <1>3, <2>1, <2>2, LanesFinite, LanesQuoted DEF toks
<1>7. toks # {}
  <2>1. DOMAIN p.outcomes # {}
    <3>1. SUFFICES ASSUME DOMAIN p.outcomes = {} PROVE FALSE
      OBVIOUS
    <3>2. Total(p.outcomes, {}) = 0
      BY TotalEmpty
    <3>3. LengthOf(p.outcomes) = 0
      BY <3>1, <3>2, SumOnIs DEF LengthOf
    <3>4. QED
      BY <1>2, <3>3
  <2>2. PICK m \in DOMAIN p.outcomes : TRUE
    BY <2>1
  <2>3. <<m, side>> \in toks
    BY DEF Lanes
  <2>4. QED
    BY <2>3
<1>8. b.payout \in Int /\ b.collateral = 0 /\ b.gas \in Nat /\ b.class \in {"C2Long", "C2Short"}
  BY <1>1, <1>4, EngineAssumption, GasTyped
<1>9. ASSUME ListedOnce
      PROVE  toks \subseteq TokensOf(comp.markets) /\ PaysForAll(b)
  <2>1. /\ WellFormed(comp) /\ p.markets \subseteq comp.markets /\ IsFiniteSet(p.markets)
        /\ p.outcomes = [m \in p.markets |-> 1]
    BY <1>2, <1>3, <1>9, ComponentFormed DEF SetupBuilt, WellFormed, PartitionBuilt, PartitionSound
  <2>2. /\ LengthOf(p.outcomes) = Cardinality(p.markets)
        /\ Lanes(p.outcomes, "yes") = {YesOf(m) : m \in p.markets}
        /\ Lanes(p.outcomes, "no") = {NoOf(m) : m \in p.markets}
    BY <2>1, OnceLanes
  <2>3. toks \subseteq TokensOf(comp.markets)
    BY <2>1, <2>2 DEF TokensOf
  <2>4. \A w \in EnumerateWorlds(comp) : w \in Resolutions(comp)
    BY <2>1, EnumerationIsExact
  <2>5. CASE b.class = "C2Long"
    <3>1. b.payout = 1 * Dollar
      BY <1>1, <2>5, EngineAssumption
    <3>2. ASSUME NEW w \in EnumerateWorlds(comp)
          PROVE  1 <= Cardinality(Paying(b, w))
      <4>0. WellFormed(comp) /\ p \in comp.partitions /\ p.exhaustive /\ w \in Resolutions(comp)
        BY <1>2, <2>1, <2>4
      <4>1. Cardinality({m \in p.markets : TokenPays(w, YesOf(m))}) = 1
        BY <4>0, PartitionPays
      <4>2. {m \in p.markets : TokenPays(w, YesOf(m))} # {}
        BY <4>1, FS_EmptySet
      <4>3. Paying(b, w) # {} /\ Paying(b, w) \in SUBSET toks
        BY <1>5, <2>2, <2>5, <4>2 DEF Paying
      <4>4. QED
        BY <1>6, <4>3, FS_Subset, NotEmpty
    <3>3. PaysForAll(b)
      BY <1>5, <1>8, <2>5, <3>1, <3>2 DEF PaysForAll
    <3>4. QED
      BY <2>3, <3>3
  <2>6. CASE b.class = "C2Short"
    <3> DEFINE k == Cardinality(p.markets) - 1
    <3>1. b.payout = k * Dollar /\ k \in Nat
      BY <1>1, <1>2, <1>4, <2>2, <2>6
    <3>2. ASSUME NEW w \in EnumerateWorlds(comp)
          PROVE  k <= Cardinality(Paying(b, w))
      <4> DEFINE S == {m \in p.markets : TokenPays(w, NoOf(m))}
      <4>0. WellFormed(comp) /\ p \in comp.partitions /\ p.exhaustive /\ w \in Resolutions(comp)
        BY <1>2, <2>1, <2>4
      <4>1. Cardinality(S) = k
        BY <4>0, PartitionPays
      <4>2. IsFiniteSet(S)
        BY <2>1, FS_Subset
      <4>3. Cardinality({NoOf(m) : m \in S}) = k
        BY <4>1, <4>2, NoTokens
      <4>4. {NoOf(m) : m \in S} = Paying(b, w)
        BY <1>5, <2>2, <2>6 DEF Paying
      <4>5. Cardinality(Paying(b, w)) = k
        BY <4>3, <4>4, Zenon
      <4>6. QED
        BY <3>1, <4>5
    <3> HIDE DEF k
    <3>3. PaysForAll(b)
      BY <1>5, <1>8, <2>6, <3>1, <3>2 DEF PaysForAll
    <3>4. QED
      BY <2>3, <3>3
  <2>7. QED
    BY <1>8, <2>5, <2>6
<1>10. QED
  BY <1>5, <1>6, <1>7, <1>8, <1>9 DEF BasketBuilt

LEMMA Class3Built ==
  ASSUME SetupBuilt, NEW b \in Class3
  PROVE  BasketBuilt(b)
<1>0. PICK r \in comp.relations : b \in {[class |-> "C3", legs |-> Buying(pair), payout |-> Dollar,
        collateral |-> 0, gas |-> Gas.redeem, floor |-> FloorC3] : pair \in Pairs(r)}
  BY DEF Class3
<1>1. PICK pair \in Pairs(r) :
        b = [class |-> "C3", legs |-> Buying(pair), payout |-> Dollar, collateral |-> 0,
             gas |-> Gas.redeem, floor |-> FloorC3]
  BY <1>0
<1>2. /\ r.kind \in {"Implies", "MutuallyExclusive", "Equivalent"}
      /\ r.a \in comp.markets /\ r.b \in comp.markets
  BY DEF SetupBuilt, ComponentBuilt, RelationBuilt
<1>3. \E x, y \in TokensOf(comp.markets) : pair = {x, y}
  <2>1. {YesOf(r.a), NoOf(r.a), YesOf(r.b), NoOf(r.b)} \subseteq TokensOf(comp.markets)
    BY <1>2 DEF TokensOf
  <2>2. \/ pair = {NoOf(r.a), YesOf(r.b)} \/ pair = {NoOf(r.a), NoOf(r.b)}
        \/ pair = {NoOf(r.b), YesOf(r.a)}
    BY <1>2 DEF Pairs
  <2>3. QED
    BY <2>1, <2>2
<1>4. IsFiniteSet(pair) /\ pair # {} /\ pair \subseteq TokensOf(comp.markets)
  <2>1. PICK x, y \in TokensOf(comp.markets) : pair = {x, y}
    BY <1>3
  <2>2. IsFiniteSet({x, y})
    BY PairFinite
  <2>3. QED
    BY <2>1, <2>2
<1>5. DOMAIN b.legs = pair /\ \A t \in pair : b.legs[t] = "Buy"
  BY <1>1 DEF Buying
<1>6. b.payout = 1 * Dollar /\ b.payout \in Int /\ b.collateral = 0 /\ b.gas \in Nat /\ b.class = "C3"
  BY <1>1, EngineAssumption, GasTyped
<1>7. ASSUME NEW w \in EnumerateWorlds(comp)
      PROVE  1 <= Cardinality(Paying(b, w))
  <2>1. w[r.a] \in BOOLEAN /\ w[r.b] \in BOOLEAN /\ Holds(w, r)
    BY <1>2 DEF EnumerateWorlds
  <2>2. \E t \in pair : TokenPays(w, t)
    BY <1>2, <2>1, PairPays
  <2>3. Paying(b, w) # {} /\ Paying(b, w) \in SUBSET pair
    BY <1>5, <2>2 DEF Paying
  <2>4. QED
    BY <1>4, <2>3, FS_Subset, NotEmpty
<1>8. PaysForAll(b)
  BY <1>5, <1>6, <1>7 DEF PaysForAll
<1>9. QED
  BY <1>4, <1>5, <1>6, <1>8, TokensQuoted DEF BasketBuilt

LEMMA BasketsBuilt ==
  ASSUME SetupBuilt, NEW b \in Baskets
  PROVE  BasketBuilt(b)
<1>1. b \in Class1 \/ b \in Class2 \/ b \in Class3
  BY DEF Baskets
<1>2. QED
  BY <1>1, Class1Built, Class2Built, Class3Built

-----------------------------------------------------------------------------
(* The walk: every leg has as much as every other, at prices of its own    *)
(* ladder, one segment for each of them.                                   *)

Segment == [px : Nat, qty : Nat]

\* the trades of a leg
Tape(t, a, s) == {[token |-> t, action |-> a, px |-> s[i].px, qty |-> s[i].qty] : i \in DOMAIN s}

Apart(s) == \A i, j \in DOMAIN s : i # j => s[i].px # s[j].px

LegWalked(t) ==
  /\ cur[t].lvl \in Nat \ {0} /\ cur[t].rem \in Nat
  /\ segs[t] \in Seq(Segment)
  /\ Len(segs[t]) \in {cur[t].lvl - 1, cur[t].lvl}
  /\ Len(segs[t]) <= Len(LadderOf(t, basket.legs[t]))
  /\ \A i \in DOMAIN segs[t] : segs[t][i].px = LadderOf(t, basket.legs[t])[i].px
  /\ SharesOf(Tape(t, basket.legs[t], segs[t])) = units

Limits == [t \in Legs |-> ScaledLegCost(basket.legs[t], LimitPx(segs[t]))]

Walked ==
  /\ BasketBuilt(basket)
  /\ units \in Nat /\ used \in Int
  /\ \A t \in Legs : LegWalked(t)
  /\ units # 0 => BpsDen * (basket.payout - basket.collateral) > SumFunctionOnSet(Limits, Legs)

LEMMA SegmentIs ==
  ASSUME NEW x \in Segment, NEW v
  PROVE  x.px \in Nat /\ x.qty \in Nat /\ [x EXCEPT !.qty = v] = [px |-> x.px, qty |-> v]
<1>1. PICK p \in Nat, q \in Nat : x = [px |-> p, qty |-> q]
  BY DEF Segment
<1>2. QED
  BY <1>1

LEMMA TapeFinite ==
  ASSUME NEW t, NEW a \in {"Buy", "Sell"}, NEW s \in Seq(Segment)
  PROVE  TradeSet(Tape(t, a, s))
<1> DEFINE f == [i \in DOMAIN s |-> [token |-> t, action |-> a, px |-> s[i].px, qty |-> s[i].qty]]
<1>1. Tape(t, a, s) = {f[i] : i \in DOMAIN s}
  BY DEF Tape
<1>2. IsFiniteSet(DOMAIN s)
  <2>1. DOMAIN s = 1 .. Len(s) /\ Len(s) \in Nat
    OBVIOUS
  <2>2. QED
    BY <2>1, FS_Interval
<1>3. ASSUME NEW i \in DOMAIN s PROVE Trade(f[i])
  <2>1. s[i] \in Segment
    OBVIOUS
  <2>2. s[i].px \in Nat /\ s[i].qty \in Nat
    BY <2>1, SegmentIs
  <2>3. QED
    BY <2>2 DEF Trade
<1> HIDE DEF f
<1>4. IsFiniteSet({f[i] : i \in DOMAIN s})
  BY <1>2, ValuesFinite
<1>5. QED
  BY <1>1, <1>3, <1>4 DEF TradeSet

LEMMA SharesAre ==
  ASSUME NEW ts
  PROVE  SharesOf(ts) = Total([tr \in ts |-> tr.qty], ts)
BY SumOnIs DEF SharesOf

(* A trade more, or one for another.                                       *)
LEMMA SharesTake ==
  ASSUME NEW ts, TradeSet(ts), NEW tr \in ts
  PROVE  /\ SharesOf(ts) = tr.qty + SharesOf(ts \ {tr})
         /\ SharesOf(ts) \in Int /\ SharesOf(ts \ {tr}) \in Int /\ tr.qty \in Nat
<1> DEFINE f == [x \in ts |-> x.qty]
           rest == ts \ {tr}
           g == [x \in rest |-> x.qty]
<1>1. IsFiniteSet(ts) /\ IsFiniteSet(rest) /\ \A x \in ts : x.qty \in Nat
  BY FS_Subset DEF TradeSet, Trade
<1>2. (\A x \in ts : f[x] \in Int) /\ (\A x \in rest : g[x] \in Int /\ f[x] = g[x]) /\ f[tr] = tr.qty
  BY <1>1
<1>3. SharesOf(ts) = Total(f, ts) /\ SharesOf(rest) = Total(g, rest)
  BY SharesAre
<1> HIDE DEF f, g
<1>4. Total(f, ts) = f[tr] + Total(f, ts \ {tr})
  BY <1>1, <1>2, TotalTake
<1>5. Total(f, rest) = Total(g, rest)
  BY <1>1, <1>2, TotalAgree
<1>6. Total(g, rest) \in Int /\ Total(f, ts) \in Int
  BY <1>1, <1>2, TotalType
<1>7. QED
  BY <1>1, <1>2, <1>3, <1>4, <1>5, <1>6

LEMMA SharesNone == SharesOf({}) = 0
BY SharesAre, TotalEmpty

\* e is s and q shares more at the price p
Grown(t, a, s, p, q, e) ==
  /\ e \in Seq(Segment) /\ e[Len(e)].px = p
  /\ Len(e) = IF s # <<>> /\ s[Len(s)].px = p THEN Len(s) ELSE Len(s) + 1
  /\ \A i \in DOMAIN s : e[i].px = s[i].px
  /\ SharesOf(Tape(t, a, e)) = SharesOf(Tape(t, a, s)) + q

(* What a chunk adds to a leg: it opens a segment, or the last grows.      *)
LEMMA SegmentGrows ==
  ASSUME NEW t, NEW a \in {"Buy", "Sell"}, NEW s \in Seq(Segment), Apart(s),
         NEW p \in Nat, NEW q \in Nat, \A i \in 1 .. Len(s) - 1 : s[i].px # p
  PROVE  Grown(t, a, s, p, q, Extended(s, p, q))
<1> DEFINE e == Extended(s, p, q)
           n == Len(s)
           T == Tape(t, a, s)
           U == Tape(t, a, e)
           tr(x) == [token |-> t, action |-> a, px |-> x.px, qty |-> x.qty]
<1>1. n \in Nat /\ DOMAIN s = 1 .. n /\ \A i \in 1 .. n : s[i] \in Segment /\ s[i].px \in Nat /\ s[i].qty \in Nat
  <2>1. n \in Nat /\ DOMAIN s = 1 .. n /\ \A i \in 1 .. n : s[i] \in Segment
    OBVIOUS
  <2>2. QED
    BY <2>1, SegmentIs
<1>2. CASE s # <<>> /\ s[n].px = p
  <2>1. n \in 1 .. n
    BY <1>1, <1>2
  <2>2. e = [s EXCEPT ![n].qty = @ + q]
    BY <1>2 DEF Extended
  <2>3. e = [s EXCEPT ![n] = [px |-> p, qty |-> s[n].qty + q]]
    <3>1. [s[n] EXCEPT !.qty = @ + q] = [px |-> p, qty |-> s[n].qty + q]
      <4>1. s[n] \in Segment
        BY <1>1, <2>1
      <4>2. [s[n] EXCEPT !.qty = s[n].qty + q] = [px |-> s[n].px, qty |-> s[n].qty + q]
        BY <4>1, SegmentIs
      <4>3. QED
        BY <1>2, <4>2
    <3>2. QED
      BY <2>2, <3>1
  <2>4. s[n].qty + q \in Nat
    BY <1>1, <2>1
  <2>5. [px |-> p, qty |-> s[n].qty + q] \in Segment
    BY <2>4 DEF Segment
  <2>6. e \in Seq(Segment) /\ Len(e) = n /\ DOMAIN e = 1 .. n
    <3> DEFINE v == [px |-> p, qty |-> s[n].qty + q]
    <3>1. v \in Segment /\ e = [s EXCEPT ![n] = v]
      BY <2>3, <2>5
    <3> HIDE DEF v, e
    <3>2. QED
      BY <1>1, <2>1, <3>1
  <2>7. /\ e[n] = [px |-> p, qty |-> s[n].qty + q]
        /\ \A i \in 1 .. n - 1 : e[i] = s[i]
        /\ \A i \in 1 .. n : e[i].px = s[i].px
    <3> DEFINE v == [px |-> p, qty |-> s[n].qty + q]
    <3>1. e = [s EXCEPT ![n] = v] /\ v.px = p
      BY <2>3
    <3> HIDE DEF v, e
    <3>2. e[n] = v /\ \A i \in 1 .. n - 1 : e[i] = s[i]
      BY <1>1, <2>1, <3>1
    <3>3. \A i \in 1 .. n : i = n \/ i \in 1 .. n - 1
      <4>1. n \in Nat
        BY <1>1
      <4> HIDE DEF n
      <4>2. QED
        BY <4>1
    <3>4. \A i \in 1 .. n : e[i].px = s[i].px
      BY <1>2, <3>1, <3>2, <3>3
    <3>5. QED
      BY <3>2, <3>4 DEF v
  <2> HIDE DEF e
  <2>8. U = (T \ {tr(s[n])}) \cup {tr(e[n])} /\ tr(s[n]) \in T /\ tr(e[n]) \in U
    <3>1. T = {tr(s[i]) : i \in 1 .. n} /\ U = {tr(e[i]) : i \in 1 .. n}
      BY <1>1, <2>6 DEF Tape
    <3>2. \A i \in 1 .. n - 1 : tr(s[i]) # tr(s[n]) /\ tr(e[i]) = tr(s[i])
      <4>1. ASSUME NEW i \in 1 .. n - 1 PROVE s[i].px # s[n].px
        BY <1>2
      <4>2. QED
        BY <4>1, <2>7
    <3>3. 1 .. n = (1 .. n - 1) \cup {n}
      BY <1>1, <2>1
    <3> HIDE DEF tr, T, U
    <3>4. T = {tr(s[i]) : i \in 1 .. n - 1} \cup {tr(s[n])}
      BY <3>1, <3>3
    <3>5. U = {tr(s[i]) : i \in 1 .. n - 1} \cup {tr(e[n])}
      BY <3>1, <3>2, <3>3
    <3>6. tr(s[n]) \notin {tr(s[i]) : i \in 1 .. n - 1}
      BY <3>2
    <3>7. QED
      BY <3>4, <3>5, <3>6
  <2>9. U \ {tr(e[n])} = T \ {tr(s[n])}
    <3>1. tr(e[n]) \notin T \ {tr(s[n])}
      <4>1. SUFFICES ASSUME NEW i \in 1 .. n, tr(s[i]) = tr(e[n]), tr(s[i]) # tr(s[n]) PROVE FALSE
        BY <1>1 DEF Tape
      <4>2. s[i].px = p
        BY <4>1, <2>7
      <4>3. i = n
        BY <1>1, <4>1, <4>2
      <4>4. QED
        BY <4>1, <4>3
    <3> HIDE DEF tr, T, U
    <3>2. QED
      BY <2>8, <3>1
  <2>10. TradeSet(T) /\ TradeSet(U)
    BY <2>6, TapeFinite
  <2>11. SharesOf(U) = SharesOf(T) + q
    <3>1. tr(e[n]).qty = tr(s[n]).qty + q /\ tr(s[n]).qty \in Nat
      BY <1>1, <2>1, <2>7
    <3> DEFINE x == tr(s[n])
               y == tr(e[n])
    <3>2. x \in T /\ y \in U /\ U \ {y} = T \ {x} /\ y.qty = x.qty + q
      BY <2>8, <2>9, <3>1
    <3> HIDE DEF x, y, T, U
    <3>3. /\ SharesOf(T) = x.qty + SharesOf(T \ {x}) /\ SharesOf(T \ {x}) \in Int /\ x.qty \in Nat
          /\ SharesOf(U) = y.qty + SharesOf(U \ {y})
      BY <2>10, <3>2, SharesTake
    <3>4. SharesOf(U \ {y}) = SharesOf(T \ {x})
      BY <3>2
    <3>5. QED
      BY <3>2, <3>3, <3>4
  <2>12. e[Len(e)].px = p
    BY <2>6, <2>7
  <2>13. QED
    BY <1>1, <1>2, <2>6, <2>7, <2>11, <2>12 DEF e, Grown
<1>3. CASE ~(s # <<>> /\ s[n].px = p)
  <2> DEFINE new == [px |-> p, qty |-> q]
  <2>1. e = Append(s, new)
    BY <1>3 DEF Extended
  <2>2. new \in Segment
    BY DEF Segment
  <2>3. /\ e \in Seq(Segment) /\ Len(e) = n + 1 /\ DOMAIN e = 1 .. n + 1
        /\ e[n + 1] = new /\ \A i \in 1 .. n : e[i] = s[i]
    BY <1>1, <2>1, <2>2
  <2>4. \A i \in 1 .. n : s[i].px # p
    BY <1>1, <1>3
  <2> HIDE DEF e
  <2>5. U = T \cup {tr(new)} /\ tr(new) \notin T
    <3>1. T = {tr(s[i]) : i \in 1 .. n} /\ U = {tr(e[i]) : i \in 1 .. n + 1}
      BY <1>1, <2>3 DEF Tape
    <3>2. tr(new) \notin T
      BY <2>4, <3>1
    <3>3. 1 .. n + 1 = (1 .. n) \cup {n + 1}
      BY <1>1
    <3> HIDE DEF tr, T, U
    <3>4. U = {tr(s[i]) : i \in 1 .. n} \cup {tr(new)}
      BY <2>3, <3>1, <3>3
    <3>5. QED
      BY <3>1, <3>2, <3>4
  <2>6. TradeSet(U)
    BY <2>3, TapeFinite
  <2>7. SharesOf(U) = SharesOf(T) + q
    <3> DEFINE y == tr(new)
    <3>1. y.qty = q /\ y \in U /\ U \ {y} = T
      BY <2>5
    <3> HIDE DEF y, T, U
    <3>2. SharesOf(U) = y.qty + SharesOf(U \ {y}) /\ SharesOf(U \ {y}) \in Int
      BY <2>6, <3>1, SharesTake
    <3>3. SharesOf(U \ {y}) = SharesOf(T)
      BY <3>1
    <3>4. QED
      BY <3>1, <3>2, <3>3
  <2>8. e[Len(e)].px = p
    BY <2>3
  <2>9. QED
    BY <1>1, <1>3, <2>3, <2>7, <2>8 DEF e, Grown
<1>4. QED
  BY <1>2, <1>3

-----------------------------------------------------------------------------
(* The steps of the walk.                                                  *)

LEMMA LaddersAre ==
  ASSUME SetupBuilt, NEW t \in Quoted, NEW a
  PROVE  /\ LadderOf(t, a) \in Seq([px : Nat, qty : Nat \ {0}]) /\ Apart(LadderOf(t, a))
         /\ Len(LadderOf(t, a)) \in Nat
         /\ \A i \in 1 .. Len(LadderOf(t, a)) : LadderOf(t, a)[i].px \in Nat /\ LadderOf(t, a)[i].qty \in Nat
<1>1. IsBook(setup.books[TokenOf(t)])
  BY TokensQuoted DEF SetupBuilt
<1>2. LadderOf(t, a) \in {setup.books[TokenOf(t)].asks, setup.books[TokenOf(t)].bids}
  BY DEF LadderOf
<1> DEFINE l == LadderOf(t, a)
<1>3. l \in Seq([px : Nat, qty : Nat \ {0}])
  BY <1>1, <1>2 DEF IsBook
<1>5. \/ \A i, j \in DOMAIN l : i < j => l[i].px < l[j].px
      \/ \A i, j \in DOMAIN l : i < j => l[i].px > l[j].px
  BY <1>1 DEF IsBook, LadderOf
<1> HIDE DEF l
<1>4. Len(l) \in Nat /\ \A i \in 1 .. Len(l) : l[i].px \in Nat /\ l[i].qty \in Nat
  <2> DEFINE Lvl == [px : Nat, qty : Nat \ {0}]
  <2>1. l \in Seq(Lvl)
    BY <1>3
  <2>2. \A x \in Lvl : x.px \in Nat /\ x.qty \in Nat
    OBVIOUS
  <2> HIDE DEF Lvl
  <2>3. QED
    BY <2>1, <2>2
<1>6. Apart(l)
  <2>1. DOMAIN l = 1 .. Len(l)
    BY <1>3
  <2>2. ASSUME NEW i \in DOMAIN l, NEW j \in DOMAIN l, i # j PROVE l[i].px # l[j].px
    <3>1. l[i].px \in Nat /\ l[j].px \in Nat /\ (i < j \/ j < i)
      BY <1>4, <2>1, <2>2
    <3>2. QED
      BY <1>5, <3>1
  <2>3. QED
    BY <2>2 DEF Apart
<1>7. QED
  BY <1>3, <1>4, <1>6 DEF l

LEMMA LegCostTyped ==
  ASSUME SetupBuilt, NEW a, NEW p \in Nat
  PROVE  ScaledLegCost(a, p) \in Int
<1>1. Dollar - p \in Int /\ p \in Int /\ BpsDen \in Int
  BY EngineAssumption
<1>2. Lesser(p, Dollar - p) \in Int
  BY <1>1, LesserType
<1>3. FeeBase(p) \in Int
  BY <1>2 DEF FeeBase, SetupBuilt
<1>4. BpsDen * p \in Int
  BY <1>1
<1>5. QED
  BY <1>3, <1>4 DEF ScaledLegCost

LEMMA LegsAre ==
  ASSUME Walked
  PROVE  /\ IsFiniteSet(Legs) /\ Legs # {} /\ Legs \subseteq Quoted
         /\ ListedOnce => Legs \subseteq TokensOf(comp.markets)
         /\ \A t \in Legs : basket.legs[t] \in {"Buy", "Sell"}
         /\ basket.payout \in Int /\ basket.collateral \in Nat /\ basket.gas \in Nat
BY DEF Walked, BasketBuilt, Legs

(* The chunk is there on every leg.                                        *)
LEMMA ChunkFits ==
  ASSUME SetupBuilt, Walked, Profitable
  PROVE  /\ Chunk \in Nat \ {0} /\ \A t \in Legs : Chunk <= cur[t].rem
         /\ \A t \in Legs : /\ cur[t].lvl \in 1 .. Len(LadderOf(t, basket.legs[t]))
                            /\ PxAt(t) \in Nat /\ LegCost[t] \in Int
         /\ BasisPerShare \in Int
<1>1. /\ IsFiniteSet(Legs) /\ Legs # {} /\ Legs \subseteq Quoted
      /\ basket.collateral \in Nat
  BY LegsAre
<1>2. ASSUME NEW t \in Legs
      PROVE  /\ cur[t].lvl \in 1 .. Len(LadderOf(t, basket.legs[t]))
             /\ PxAt(t) \in Nat /\ LegCost[t] \in Int /\ cur[t].rem \in Nat
  <2> DEFINE l == LadderOf(t, basket.legs[t])
  <2>1. Len(l) \in Nat /\ \A i \in 1 .. Len(l) : l[i].px \in Nat
    BY <1>1, LaddersAre
  <2>2. cur[t].lvl \in Nat \ {0} /\ cur[t].rem \in Nat
    BY DEF Walked, LegWalked
  <2>3. ~(cur[t].lvl > Len(l))
    BY DEF Profitable, Exhausted
  <2>4. PxAt(t) = l[cur[t].lvl].px
    BY DEF PxAt
  <2>5. LegCost[t] = ScaledLegCost(basket.legs[t], PxAt(t))
    BY DEF LegCost
  <2> HIDE DEF l
  <2>6. cur[t].lvl \in 1 .. Len(l)
    BY <2>1, <2>2, <2>3
  <2>7. PxAt(t) \in Nat
    BY <2>1, <2>4, <2>6
  <2>8. QED
    BY <2>2, <2>5, <2>6, <2>7, LegCostTyped DEF l
<1>3. BasisPerShare \in Int
  <2>1. Buys \in SUBSET Legs /\ IsFiniteSet(Buys)
    BY <1>1, FS_Subset DEF Buys
  <2>2. Total(LegCost, Buys) \in Int
    BY <1>2, <2>1, TotalType
  <2>3. BpsDen * basket.collateral \in Int
    BY <1>1, EngineAssumption
  <2>4. QED
    BY <2>2, <2>3, SumOnIs DEF BasisPerShare
<1> DEFINE rems == {cur[t].rem : t \in Legs}
           depth == Min(rems)
<1>4. depth \in Nat /\ \A t \in Legs : depth <= cur[t].rem
  <2>1. rems \subseteq Nat /\ rems # {}
    BY <1>1, <1>2
  <2> HIDE DEF rems
  <2>2. \E m \in rems : \A k \in rems : m <= k
    BY <2>1, LeastExists
  <2>3. depth \in rems /\ \A k \in rems : depth <= k
    BY <2>2 DEF Min
  <2>4. QED
    BY <2>1, <2>3 DEF rems
<1>5. Chunk = IF BasisPerShare > 0 THEN Lesser(depth, CapLeft) ELSE depth
  BY DEF Chunk
<1> HIDE DEF depth
<1>6. Chunk \in Int /\ Chunk <= depth
  <2>1. CASE BasisPerShare > 0
    <3> DEFINE left == (MaxBasis - used) * BpsDen * Dollar
    <3>1. left \in Int
      BY EngineAssumption DEF Walked
    <3>2. CapLeft \in Int
      <4>1. CapLeft = left \div BasisPerShare
        BY DEF CapLeft
      <4> HIDE DEF left
      <4>2. BasisPerShare \in Nat \ {0}
        BY <1>3, <2>1
      <4>3. QED
        BY <3>1, <4>1, <4>2, RoundsDown
    <3>3. QED
      BY <1>4, <1>5, <2>1, <3>2 DEF Lesser
  <2>2. CASE ~(BasisPerShare > 0)
    BY <1>4, <1>5, <2>2
  <2>3. QED
    BY <2>1, <2>2
<1>7. Chunk > 0
  BY DEF Profitable
<1> HIDE DEF Chunk
<1>8. Chunk \in Nat \ {0}
  BY <1>6, <1>7
<1>9. \A t \in Legs : Chunk <= cur[t].rem
  BY <1>2, <1>4, <1>6
<1>10. QED
  BY <1>2, <1>3, <1>8, <1>9

(* A leg after the chunk.                                                  *)
LEMMA LegTakes ==
  ASSUME SetupBuilt, Walked, Take, NEW t \in Legs
  PROVE  LegWalked(t)' /\ LimitPx(segs'[t]) = PxAt(t) /\ Len(segs'[t]) = cur[t].lvl
<1> DEFINE l == LadderOf(t, basket.legs[t])
           a == basket.legs[t]
           s == segs[t]
           lvl == cur[t].lvl
           p == PxAt(t)
           e == Extended(s, p, Chunk)
<1>1. /\ segs'[t] = e /\ units' = units + Chunk /\ basket' = basket /\ setup' = setup
      /\ cur'[t] = IF cur[t].rem = Chunk THEN AtLevel(t, lvl + 1) ELSE [cur[t] EXCEPT !.rem = @ - Chunk]
  BY DEF Take, Legs
<1>2. /\ t \in Quoted /\ a \in {"Buy", "Sell"}
  BY LegsAre
<1>3. Profitable
  BY DEF Take
<1>4. Chunk \in Nat \ {0} /\ Chunk <= cur[t].rem /\ lvl \in 1 .. Len(l) /\ p \in Nat
  BY <1>3, ChunkFits
<1>5. Len(l) \in Nat /\ Apart(l) /\ DOMAIN l = 1 .. Len(l) /\ \A i \in 1 .. Len(l) : l[i].qty \in Nat
  <2>1. l \in Seq([px : Nat, qty : Nat \ {0}])
    BY <1>2, LaddersAre
  <2> HIDE DEF l
  <2>2. DOMAIN l = 1 .. Len(l)
    BY <2>1
  <2>3. QED
    BY <1>2, <2>2, LaddersAre DEF l
<1>6. /\ lvl \in Nat \ {0} /\ cur[t].rem \in Nat /\ s \in Seq(Segment)
      /\ Len(s) \in {lvl - 1, lvl} /\ Len(s) <= Len(l)
      /\ \A i \in DOMAIN s : s[i].px = l[i].px
      /\ SharesOf(Tape(t, a, s)) = units
  BY DEF Walked, LegWalked
<1>7. p = l[lvl].px
  BY DEF PxAt
<1>8. DOMAIN s = 1 .. Len(s) /\ Len(s) \in Nat
  <2> HIDE DEF s
  <2>1. QED
    BY <1>6
<1> HIDE DEF l, s, lvl, p
<1>9. Apart(s)
  <2> DEFINE n == Len(s)
             k == Len(l)
  <2>1. n \in Nat /\ k \in Nat /\ n <= k /\ DOMAIN s = 1 .. n /\ DOMAIN l = 1 .. k
    BY <1>5, <1>6, <1>8
  <2> HIDE DEF n, k
  <2>2. \A i \in DOMAIN s : i \in DOMAIN l
    BY <2>1
  <2>3. QED
    BY <1>5, <1>6, <2>2 DEF Apart
<1>10. ASSUME NEW i \in 1 .. Len(s) - 1 PROVE s[i].px # p
  <2>1. i \in DOMAIN s /\ i # lvl
    BY <1>6, <1>8
  <2>2. i \in DOMAIN l /\ lvl \in DOMAIN l
    BY <1>4, <1>5, <1>6, <1>8
  <2>3. l[i].px # l[lvl].px
    BY <1>5, <2>1, <2>2 DEF Apart
  <2>4. QED
    BY <1>6, <1>7, <2>1, <2>3
<1>11. (s # <<>> /\ s[Len(s)].px = p) <=> Len(s) = lvl
  <2>1. CASE Len(s) = lvl
    <3>1. s # <<>> /\ Len(s) \in DOMAIN s
      BY <1>4, <1>8, <2>1
    <3>2. QED
      BY <1>6, <1>7, <2>1, <3>1
  <2>2. CASE Len(s) = lvl - 1
    <3>1. ASSUME s # <<>>, s[Len(s)].px = p PROVE FALSE
      <4>1. Len(s) \in 1 .. Len(l) /\ Len(s) \in DOMAIN s /\ Len(s) # lvl
        BY <1>4, <1>5, <1>6, <1>8, <2>2, <3>1
      <4>2. QED
        BY <1>4, <1>5, <1>6, <1>7, <3>1, <4>1 DEF Apart
    <3>2. QED
      BY <1>6, <2>2, <3>1
  <2>3. QED
    BY <1>6, <2>1, <2>2
<1>12. /\ e \in Seq(Segment) /\ e[Len(e)].px = p
       /\ Len(e) = IF s # <<>> /\ s[Len(s)].px = p THEN Len(s) ELSE Len(s) + 1
       /\ \A i \in DOMAIN s : e[i].px = s[i].px
       /\ SharesOf(Tape(t, a, e)) = SharesOf(Tape(t, a, s)) + Chunk
  <2>1. a \in {"Buy", "Sell"} /\ s \in Seq(Segment) /\ Apart(s) /\ p \in Nat /\ Chunk \in Nat
    BY <1>2, <1>4, <1>6, <1>9
  <2> HIDE DEF a
  <2>2. Grown(t, a, s, p, Chunk, Extended(s, p, Chunk))
    BY <1>10, <2>1, SegmentGrows
  <2>3. QED
    BY <2>2 DEF Grown
<1> HIDE DEF e
<1>13. Len(e) = lvl
  BY <1>6, <1>11, <1>12
<1>14. \A i \in DOMAIN e : e[i].px = l[i].px
  <2>1. DOMAIN e = 1 .. lvl
    BY <1>12, <1>13
  <2>2. ASSUME NEW i \in 1 .. lvl PROVE e[i].px = l[i].px
    <3>1. i = lvl \/ i \in DOMAIN s
      <4> DEFINE n == Len(s)
      <4>1. n \in {lvl - 1, lvl} /\ lvl \in Nat /\ DOMAIN s = 1 .. n
        BY <1>6, <1>8
      <4> HIDE DEF n
      <4>2. QED
        BY <2>2, <4>1
    <3>2. CASE i = lvl
      BY <1>7, <1>12, <1>13, <3>2
    <3>3. CASE i \in DOMAIN s
      BY <1>6, <1>12, <3>3
    <3>4. QED
      BY <3>1, <3>2, <3>3
  <2>3. QED
    BY <2>1, <2>2
<1>15. cur'[t].lvl \in {lvl, lvl + 1} /\ cur'[t].rem \in Nat
  <2>1. CASE cur[t].rem = Chunk
    <3>1. cur'[t] = [lvl |-> lvl + 1, rem |-> IF lvl + 1 > Len(l) THEN 0 ELSE l[lvl + 1].qty]
      BY <1>1, <2>1 DEF AtLevel, l
    <3>2. lvl + 1 > Len(l) \/ lvl + 1 \in 1 .. Len(l)
      BY <1>4, <1>5
    <3>3. QED
      BY <1>5, <3>1, <3>2
  <2>2. CASE cur[t].rem # Chunk
    <3>1. cur'[t] = [cur[t] EXCEPT !.rem = @ - Chunk]
      BY <1>1, <2>2
    <3>2. cur'[t].lvl = lvl
      BY <3>1 DEF lvl
    <3>3. cur'[t].rem = cur[t].rem - Chunk
      BY <3>1
    <3>4. QED
      BY <1>4, <1>6, <3>2, <3>3
  <2>3. QED
    BY <2>1, <2>2
<1>16. LadderOf(t, basket.legs[t])' = l /\ basket'.legs[t] = a
  BY <1>1 DEF LadderOf, l
<1>17. SharesOf(Tape(t, a, e)) = units'
  BY <1>1, <1>6, <1>12
<1>18. LegWalked(t)'
  <2>1. cur'[t].lvl \in Nat \ {0} /\ Len(e) \in {cur'[t].lvl - 1, cur'[t].lvl} /\ Len(e) <= Len(l)
    BY <1>4, <1>6, <1>13, <1>15
  <2>2. QED
    BY <1>1, <1>12, <1>14, <1>15, <1>16, <1>17, <2>1 DEF LegWalked
<1>19. QED
  BY <1>1, <1>12, <1>13, <1>18 DEF LimitPx, p, lvl

-----------------------------------------------------------------------------
(* What a priced walk pays.                                                *)

\* PaysIn, of an opportunity
PaysNet(o, worlds) ==
  /\ \A t \in TokensOf(comp.markets) : Position(o.trades, o.splits, t) >= 0
  /\ \A w \in worlds :
       ScaledCash(o.trades)
         + BpsDen * Dollar * (Payoff(o.trades, o.splits, w) - Collateral(o.splits) - o.gas)
         >= BpsDen * Dollar * o.net

LEMMA TokensFinite ==
  ASSUME NEW S, IsFiniteSet(S)
  PROVE  IsFiniteSet(TokensOf(S))
<1> DEFINE yes == [m \in S |-> YesOf(m)]
           no == [m \in S |-> NoOf(m)]
<1>1. IsFiniteSet({yes[m] : m \in S}) /\ IsFiniteSet({no[m] : m \in S})
  BY ValuesFinite
<1>2. TokensOf(S) = {yes[m] : m \in S} \cup {no[m] : m \in S}
  BY DEF TokensOf
<1>3. QED
  BY <1>1, <1>2, FS_Union

LEMMA TradesTyped ==
  ASSUME SetupBuilt, Walked
  PROVE  TradeSet(Trades)
<1> DEFINE f == [t \in Legs |-> Tape(t, basket.legs[t], segs[t])]
<1>1. IsFiniteSet(Legs) /\ \A t \in Legs : TradeSet(f[t])
  <2>1. ASSUME NEW t \in Legs PROVE TradeSet(Tape(t, basket.legs[t], segs[t]))
    <3>1. segs[t] \in Seq(Segment) /\ basket.legs[t] \in {"Buy", "Sell"}
      BY LegsAre DEF Walked, LegWalked
    <3>2. QED
      BY <3>1, TapeFinite
  <2>2. QED
    BY <2>1, LegsAre
<1>2. Trades = UNION {f[t] : t \in Legs}
  BY Zenon DEF Trades, Tape
<1> HIDE DEF f
<1>3. IsFiniteSet({f[t] : t \in Legs})
  BY <1>1, ValuesFinite
<1>4. \A T \in {f[t] : t \in Legs} : IsFiniteSet(T)
  BY <1>1 DEF TradeSet
<1>5. IsFiniteSet(Trades)
  BY <1>2, <1>3, <1>4, FS_UNION
<1>6. \A tr \in Trades : Trade(tr)
  BY <1>1, <1>2 DEF TradeSet
<1>7. QED
  BY <1>5, <1>6 DEF TradeSet

(* Of a token the walk traded the units, on the side of its leg.           *)
LEMMA TradedOf ==
  ASSUME SetupBuilt, Walked, ListedOnce, NEW t
  PROVE  /\ Bought(Trades, t) = IF t \in Legs /\ basket.legs[t] = "Buy" THEN units ELSE 0
         /\ Sold(Trades, t) = IF t \in Legs /\ basket.legs[t] = "Sell" THEN units ELSE 0
<1> DEFINE on(a) == {tr \in Trades : TokenOf(tr.token) = t /\ tr.action = a}
<1>0. \A x \in Legs : TokenOf(x) = x
  BY LegsAre, TokensQuoted
<1>1. Bought(Trades, t) = SharesOf(on("Buy")) /\ Sold(Trades, t) = SharesOf(on("Sell"))
  BY DEF Bought, Sold
<1>2. \A tr : tr \in Trades <=> \E x \in Legs : tr \in Tape(x, basket.legs[x], segs[x])
  BY Zenon DEF Trades, Tape
<1>3. \A x, a, s : \A tr \in Tape(x, a, s) : tr.token = x /\ tr.action = a
  BY DEF Tape
<1>4. ASSUME NEW a, ~(t \in Legs /\ basket.legs[t] = a)
      PROVE  on(a) = {}
  BY <1>0, <1>2, <1>3, <1>4
<1>5. ASSUME t \in Legs
      PROVE  on(basket.legs[t]) = Tape(t, basket.legs[t], segs[t])
  BY <1>0, <1>2, <1>3, <1>5
<1>6. t \in Legs => SharesOf(Tape(t, basket.legs[t], segs[t])) = units
  BY DEF Walked, LegWalked
<1>7. ASSUME NEW a
      PROVE  SharesOf(on(a)) = IF t \in Legs /\ basket.legs[t] = a THEN units ELSE 0
  <2>1. CASE t \in Legs /\ basket.legs[t] = a
    <3>1. on(a) = Tape(t, basket.legs[t], segs[t])
      BY <1>5, <2>1
    <3>2. QED
      BY <1>6, <2>1, <3>1
  <2>2. CASE ~(t \in Legs /\ basket.legs[t] = a)
    <3>1. on(a) = {}
      BY <1>4, <2>2
    <3>2. QED
      BY <2>2, <3>1, SharesNone
  <2>3. QED
    BY <2>1, <2>2
<1> HIDE DEF on
<1>8. QED
  BY <1>1, <1>7

(* The rounded net of a basket that holds n units' worth when it pays.     *)
LEMMA NetCovered ==
  ASSUME NEW cash \in Int, NEW flow \in Int, NEW gained \in Int, NEW promised \in Int, NEW gas \in Int,
         BpsDen * Dollar * flow <= cash, promised <= gained
  PROVE  cash + BpsDen * Dollar * (gained - gas) >= BpsDen * Dollar * (flow + promised - gas)
<1> DEFINE bd == BpsDen * Dollar
<1>1. bd \in Nat
  BY EngineAssumption
<1>2. bd * flow <= cash
  OBVIOUS
<1> HIDE DEF bd
<1>3. bd * promised <= bd * gained
  BY <1>1
<1>4. /\ bd * (gained - gas) = bd * gained - bd * gas
      /\ bd * (flow + promised - gas) = bd * flow + bd * promised - bd * gas
  BY <1>1
<1> DEFINE f == bd * flow
           p == bd * promised
           g == bd * gained
           c == bd * gas
<1>5. f \in Int /\ p \in Int /\ g \in Int /\ c \in Int /\ f <= cash /\ p <= g
  BY <1>1, <1>2, <1>3
<1> HIDE DEF f, p, g, c
<1>6. cash + (g - c) >= f + p - c
  BY <1>5
<1>7. cash + bd * (gained - gas) >= bd * (flow + promised - gas)
  BY <1>4, <1>6 DEF f, p, g, c
<1>8. QED
  BY <1>7 DEF bd

LEMMA NoSplits == \A t : SplitOf(<<>>, t) = 0
BY DEF SplitOf

(* A set that is bought.                                                   *)
LEMMA BoughtPays ==
  ASSUME SetupBuilt, Walked, ListedOnce, units > 0, PaysForAll(basket),
         NEW o, o.trades = Trades, o.splits = SplitsOfWalk, o.gas = basket.gas, o.net = NetOfWalk
  PROVE  PaysNet(o, EnumerateWorlds(comp))
<1>1. /\ IsFiniteSet(Legs) /\ Legs \subseteq TokensOf(comp.markets) /\ basket.gas \in Int
      /\ \A t \in Legs : basket.legs[t] = "Buy"
  BY LegsAre DEF PaysForAll, Legs, Walked, BasketBuilt
<1>2. units \in Nat
  BY DEF Walked
<1>3. o.splits = <<>> /\ basket.collateral = 0
  BY DEF SplitsOfWalk, PaysForAll
<1>4. \A t : Position(o.trades, o.splits, t) = IF t \in Legs THEN units ELSE 0
  <2>1. ASSUME NEW t PROVE Position(o.trades, o.splits, t) = IF t \in Legs THEN units ELSE 0
    <3>1. Bought(Trades, t) = (IF t \in Legs THEN units ELSE 0) /\ Sold(Trades, t) = 0
      BY <1>1, TradedOf
    <3>2. SplitOf(o.splits, t) = 0
      BY <1>3, NoSplits
    <3>3. QED
      BY <1>2, <3>1, <3>2 DEF Position
  <2>2. QED
    BY <2>1
<1>5. Collateral(o.splits) = 0
  <2>1. DOMAIN o.splits = {}
    BY <1>3
  <2>2. Total(o.splits, {}) = 0
    BY TotalEmpty
  <2>3. QED
    BY <2>1, <2>2, SumOnIs DEF Collateral
<1>6. PICK k \in Nat : /\ basket.payout = k * Dollar
                       /\ \A w \in EnumerateWorlds(comp) : k <= Cardinality(Paying(basket, w))
  BY DEF PaysForAll
<1>7. /\ Inflow(Trades) \in Int /\ Outlay(Trades) \in Int /\ ScaledCash(Trades) \in Int
      /\ BpsDen * Dollar * (Inflow(Trades) - Outlay(Trades)) <= ScaledCash(Trades)
  BY TradesTyped, CashRounds DEF SetupBuilt
<1>8. NetOfWalk = (Inflow(Trades) - Outlay(Trades)) + k * units - basket.gas
  <2>1. basket.payout * units = (k * units) * Dollar /\ k * units \in Int /\ Dollar \in Nat \ {0}
    BY <1>2, <1>6, EngineAssumption
  <2>2. (basket.payout * units) \div Dollar = k * units
    <3> DEFINE ku == k * units
    <3>1. ku \in Int /\ Dollar \in Nat \ {0} /\ basket.payout * units = ku * Dollar
      BY <2>1
    <3> HIDE DEF ku
    <3>2. (ku * Dollar) \div Dollar = ku
      BY <3>1, RoundsNot
    <3>3. QED
      BY <3>1, <3>2 DEF ku
  <2>3. RoundedUp(basket.collateral * units, Dollar) = 0
    <3>1. RoundedUp(0 * Dollar, Dollar) = 0
      BY EngineAssumption, RoundsNot
    <3>2. basket.collateral * units = 0 * Dollar
      BY <1>2, <1>3, EngineAssumption
    <3>3. QED
      BY <3>1, <3>2
  <2>4. QED
    BY <1>1, <1>7, <2>1, <2>2, <2>3 DEF NetOfWalk
<1>9. ASSUME NEW w \in EnumerateWorlds(comp)
      PROVE  ScaledCash(o.trades)
               + BpsDen * Dollar * (Payoff(o.trades, o.splits, w) - Collateral(o.splits) - o.gas)
               >= BpsDen * Dollar * o.net
  <2> DEFINE paid == {t \in TokensOf(comp.markets) : TokenPays(w, t)}
             pos == [t \in paid |-> Position(o.trades, o.splits, t)]
             n == Cardinality(Paying(basket, w))
  <2>1. IsFiniteSet(paid)
    <3>1. IsFiniteSet(TokensOf(comp.markets))
      BY TokensFinite DEF SetupBuilt, ComponentBuilt
    <3>2. QED
      BY <3>1, FS_Subset
  <2>2. Payoff(o.trades, o.splits, w) = Total(pos, paid)
    BY SumOnIs DEF Payoff
  <2>3. Paying(basket, w) \in SUBSET paid /\ \A t \in paid : t \in Paying(basket, w) <=> t \in Legs
    BY <1>1 DEF Paying, Legs
  <2>4. \A t \in paid : pos[t] = IF t \in Legs THEN units ELSE 0
    BY <1>4
  <2>5. IsFiniteSet(Paying(basket, w)) /\ n \in Nat
    BY <2>1, <2>3, FS_Subset, FS_CardinalityType
  <2> HIDE DEF paid, pos
  <2>6. Total(pos, paid) = Total(pos, Paying(basket, w))
    <3>1. (\A t \in paid : pos[t] \in Int) /\ \A t \in paid \ Paying(basket, w) : pos[t] = 0
      BY <1>2, <2>3, <2>4
    <3>2. QED
      BY <2>1, <2>3, <3>1, TotalSupport
  <2>7. Total(pos, Paying(basket, w)) = units * n
    <3>1. \A t \in Paying(basket, w) : pos[t] = units
      BY <2>3, <2>4
    <3>2. units \in Int
      BY <1>2
    <3>3. QED
      BY <2>5, <3>1, <3>2, TotalSame
  <2>8. Payoff(o.trades, o.splits, w) = units * n
    BY <2>2, <2>6, <2>7
  <2>9. k <= n
    BY <1>6
  <2> HIDE DEF n
  <2>10. k * units <= units * n /\ units * n \in Int /\ k * units \in Int
    BY <1>2, <1>6, <2>5, <2>9
  <2> DEFINE ku == k * units
             un == units * n
             flow == Inflow(Trades) - Outlay(Trades)
  <2>11. flow \in Int /\ ku \in Int /\ un \in Int /\ ku <= un /\ BpsDen * Dollar * flow <= ScaledCash(Trades)
    BY <1>7, <2>10
  <2>12. o.net = flow + ku - basket.gas /\ Payoff(o.trades, o.splits, w) = un
    BY <1>8, <2>8
  <2> HIDE DEF ku, un, flow
  <2>13. ScaledCash(Trades) + BpsDen * Dollar * (un - basket.gas) >= BpsDen * Dollar * (flow + ku - basket.gas)
    BY <1>1, <1>7, <2>11, NetCovered
  <2>14. Payoff(o.trades, o.splits, w) - Collateral(o.splits) - o.gas = un - basket.gas
    BY <1>1, <1>5, <2>11, <2>12
  <2>15. QED
    BY <2>12, <2>13, <2>14
<1>10. \A t \in TokensOf(comp.markets) : Position(o.trades, o.splits, t) >= 0
  BY <1>2, <1>4
<1>11. QED
  BY <1>9, <1>10 DEF PaysNet

(* A set that is split and sold.                                           *)
LEMMA SplitPays ==
  ASSUME SetupBuilt, Walked, ListedOnce, units > 0, SplitsASet(basket),
         NEW o, o.trades = Trades, o.splits = SplitsOfWalk, o.gas = basket.gas, o.net = NetOfWalk
  PROVE  PaysNet(o, EnumerateWorlds(comp))
<1>1. PICK m \in comp.markets : basket.legs = Selling(SetOf(m))
  BY DEF SplitsASet
<1>2. /\ Legs = {YesOf(m), NoOf(m)} /\ \A t \in Legs : basket.legs[t] = "Sell"
      /\ basket.gas \in Int /\ units \in Nat
      /\ basket.payout = 0 /\ basket.collateral = Dollar /\ basket.class = "C1Short"
  <2>1. DOMAIN basket.legs = SetOf(m) /\ \A t \in SetOf(m) : basket.legs[t] = "Sell"
    BY <1>1 DEF Selling
  <2>2. Legs = {YesOf(m), NoOf(m)} /\ \A t \in Legs : basket.legs[t] = "Sell"
    BY <2>1 DEF Legs, SetOf
  <2>3. basket.gas \in Int /\ units \in Nat
    BY LegsAre DEF Walked
  <2>4. basket.payout = 0 /\ basket.collateral = Dollar /\ basket.class = "C1Short"
    BY DEF SplitsASet
  <2>5. QED
    BY <2>2, <2>3, <2>4
<1>3. {t[1] : t \in Legs} = {m}
  BY <1>2 DEF YesOf, NoOf
<1>4. o.splits = [x \in {m} |-> units]
  BY <1>2, <1>3 DEF SplitsOfWalk
<1>5. \A t \in TokensOf(comp.markets) : (t[1] = m) <=> t \in Legs
  BY <1>2 DEF TokensOf, YesOf, NoOf
<1>6. ASSUME NEW t \in TokensOf(comp.markets) PROVE Position(o.trades, o.splits, t) = 0
  <2>1. Sold(Trades, t) = (IF t \in Legs THEN units ELSE 0) /\ Bought(Trades, t) = 0
    BY <1>2, TradedOf
  <2>2. SplitOf(o.splits, t) = IF t \in Legs THEN units ELSE 0
    BY <1>4, <1>5 DEF SplitOf
  <2>3. QED
    BY <1>2, <2>1, <2>2 DEF Position
<1>7. Collateral(o.splits) = units
  <2>1. DOMAIN o.splits = {m} /\ o.splits[m] = units
    BY <1>4
  <2>2. Total(o.splits, {m}) = o.splits[m]
    <3>1. IsFiniteSet({m}) /\ m \in {m}
      BY FS_Singleton
    <3>2. (\A x \in {m} : o.splits[x] \in Int) /\ \A x \in {m} \ {m} : o.splits[x] = 0
      BY <1>2, <2>1
    <3>3. QED
      BY <3>1, <3>2, TotalOne
  <2>3. QED
    BY <2>1, <2>2, SumOnIs DEF Collateral
<1>8. /\ Inflow(Trades) \in Int /\ Outlay(Trades) \in Int /\ ScaledCash(Trades) \in Int
      /\ BpsDen * Dollar * (Inflow(Trades) - Outlay(Trades)) <= ScaledCash(Trades)
  BY TradesTyped, CashRounds DEF SetupBuilt
<1>9. NetOfWalk = (Inflow(Trades) - Outlay(Trades)) + (-units) - basket.gas
  <2>1. units \in Int /\ Dollar \in Nat \ {0} /\ 0 \in Int
    BY <1>2, EngineAssumption
  <2>2. (0 * Dollar) \div Dollar = 0 /\ RoundedUp(units * Dollar, Dollar) = units
    BY <2>1, RoundsNot
  <2>3. basket.payout * units = 0 * Dollar /\ basket.collateral * units = units * Dollar
    BY <1>2, <2>1
  <2>4. (basket.payout * units) \div Dollar = 0 /\ RoundedUp(basket.collateral * units, Dollar) = units
    BY <2>2, <2>3
  <2>5. QED
    BY <1>2, <1>8, <2>4 DEF NetOfWalk
<1>10. ASSUME NEW w \in EnumerateWorlds(comp)
       PROVE  ScaledCash(o.trades)
                + BpsDen * Dollar * (Payoff(o.trades, o.splits, w) - Collateral(o.splits) - o.gas)
                >= BpsDen * Dollar * o.net
  <2> DEFINE paid == {t \in TokensOf(comp.markets) : TokenPays(w, t)}
             pos == [t \in paid |-> Position(o.trades, o.splits, t)]
             flow == Inflow(Trades) - Outlay(Trades)
  <2>1. IsFiniteSet(paid)
    <3>1. IsFiniteSet(TokensOf(comp.markets))
      BY TokensFinite DEF SetupBuilt, ComponentBuilt
    <3>2. QED
      BY <3>1, FS_Subset
  <2>2. Payoff(o.trades, o.splits, w) = Total(pos, paid)
    BY SumOnIs DEF Payoff
  <2>3. \A t \in paid : pos[t] = 0
    BY <1>6
  <2> HIDE DEF paid, pos
  <2>4. Payoff(o.trades, o.splits, w) = 0
    BY <2>1, <2>2, <2>3, TotalZero
  <2>5. flow \in Int /\ BpsDen * Dollar * flow <= ScaledCash(Trades) /\ o.net = flow + (-units) - basket.gas
    BY <1>8, <1>9
  <2> HIDE DEF flow
  <2>6. -units \in Int /\ -units <= -units
    BY <1>2
  <2>7. ScaledCash(Trades) + BpsDen * Dollar * (-units - basket.gas)
          >= BpsDen * Dollar * (flow + (-units) - basket.gas)
    BY <1>2, <1>8, <2>5, <2>6, NetCovered
  <2>8. Payoff(o.trades, o.splits, w) - Collateral(o.splits) - o.gas = -units - basket.gas
    BY <1>2, <1>7, <2>4
  <2>9. QED
    BY <2>5, <2>7, <2>8
<1>11. \A t \in TokensOf(comp.markets) : Position(o.trades, o.splits, t) >= 0
  BY <1>6
<1>12. QED
  BY <1>10, <1>11 DEF PaysNet

LEMMA WalkPays ==
  ASSUME SetupBuilt, Walked, ListedOnce, units > 0,
         NEW o, o.trades = Trades, o.splits = SplitsOfWalk, o.gas = basket.gas, o.net = NetOfWalk
  PROVE  PaysNet(o, EnumerateWorlds(comp))
<1>1. PaysForAll(basket) \/ SplitsASet(basket)
  BY DEF Walked, BasketBuilt
<1>2. CASE PaysForAll(basket)
  BY <1>2, BoughtPays
<1>3. CASE SplitsASet(basket)
  BY <1>3, SplitPays
<1>4. QED
  BY <1>1, <1>2, <1>3

-----------------------------------------------------------------------------
(* What the answer of the solver pays.                                     *)

SplitsTyped(splits) == IsFiniteSet(DOMAIN splits) /\ \A m \in DOMAIN splits : splits[m] \in Nat

LEMMA PositionTyped ==
  ASSUME NEW ts, TradeSet(ts), NEW splits, SplitsTyped(splits), NEW t
  PROVE  Bought(ts, t) \in Int /\ Sold(ts, t) \in Int /\ SplitOf(splits, t) \in Int
         /\ Position(ts, splits, t) \in Int
<1>1. ASSUME NEW S \in SUBSET ts PROVE SharesOf(S) \in Int
  <2> DEFINE f == [tr \in S |-> tr.qty]
  <2>1. IsFiniteSet(S) /\ \A tr \in S : f[tr] \in Int
    BY FS_Subset DEF TradeSet, Trade
  <2>2. SharesOf(S) = Total(f, S)
    BY SharesAre
  <2> HIDE DEF f
  <2>3. QED
    BY <2>1, <2>2, TotalType
<1>2. Bought(ts, t) \in Int /\ Sold(ts, t) \in Int
  BY <1>1 DEF Bought, Sold
<1>3. SplitOf(splits, t) \in Int
  BY DEF SplitOf, SplitsTyped
<1>4. QED
  BY <1>2, <1>3 DEF Position

LEMMA ClampedTyped ==
  ASSUME NEW ts, TradeSet(ts), NEW splits, SplitsTyped(splits)
  PROVE  TradeSet(Clamped(ts, splits))
<1> DEFINE held(t) == Bought(ts, t) + SplitOf(splits, t)
           better(tr) == {s \in ts : SoldBefore(s, tr)}
           left(tr) == held(TokenOf(tr.token)) - Lesser(held(TokenOf(tr.token)), SharesOf(better(tr)))
           f == [tr \in ts |-> [tr EXCEPT !.qty = IF tr.action = "Buy" THEN @ ELSE Lesser(@, left(tr))]]
           C == {tr \in {f[tr] : tr \in ts} : tr.qty > 0}
<1>1. Clamped(ts, splits) = C
  BY DEF Clamped
<1>2. IsFiniteSet(C)
  <2> HIDE DEF f
  <2>1. IsFiniteSet({f[tr] : tr \in ts})
    BY ValuesFinite DEF TradeSet
  <2>2. QED
    BY <2>1, FS_Subset
<1>3. ASSUME NEW c \in C PROVE Trade(c)
  <2>1. PICK tr \in ts : c = f[tr]
    OBVIOUS
  <2>2. c.qty > 0
    OBVIOUS
  <2>3. Trade(tr)
    BY DEF TradeSet
  <2>4. SharesOf(better(tr)) \in Int /\ held(TokenOf(tr.token)) \in Int
    <3> DEFINE S == better(tr)
               g == [x \in S |-> x.qty]
    <3>1. IsFiniteSet(S) /\ \A x \in S : g[x] \in Int
      <4>1. S \in SUBSET ts
        OBVIOUS
      <4> HIDE DEF S
      <4>2. IsFiniteSet(S) /\ \A x \in S : x.qty \in Int
        BY <4>1, FS_Subset DEF TradeSet, Trade
      <4>3. QED
        BY <4>2
    <3>2. SharesOf(S) = Total(g, S)
      BY SharesAre
    <3>3. Bought(ts, TokenOf(tr.token)) \in Int /\ SplitOf(splits, TokenOf(tr.token)) \in Int
      BY PositionTyped
    <3> HIDE DEF g, S
    <3>4. SharesOf(S) \in Int
      BY <3>1, <3>2, TotalType
    <3>5. QED
      BY <3>3, <3>4 DEF S
  <2> DEFINE v == IF tr.action = "Buy" THEN tr.qty ELSE Lesser(tr.qty, left(tr))
  <2>5. v \in Int
    <3> HIDE DEF held, better
    <3>1. left(tr) \in Int
      BY <2>4, LesserType
    <3> HIDE DEF left
    <3>2. tr.qty \in Int
      BY <2>3 DEF Trade
    <3>3. QED
      BY <3>1, <3>2, LesserType
  <2>6. c = [tr EXCEPT !.qty = v]
    BY <2>1
  <2> HIDE DEF v, f, C
  <2>7. c.px = tr.px /\ c.action = tr.action /\ c.qty \in {v, tr.qty}
    BY <2>6
  <2>8. QED
    BY <2>2, <2>3, <2>5, <2>7 DEF Trade
<1> HIDE DEF C
<1>4. QED
  BY <1>1, <1>2, <1>3 DEF TradeSet

(* The worst net is the net of no world's more.                            *)
LEMMA SolvedPays ==
  ASSUME SetupBuilt, NEW o, TradeSet(o.trades), SplitsTyped(o.splits), o.gas \in Int,
         o.net = WorstNet(o.trades, o.splits, o.gas, EnumerateWorlds(comp)),
         \A t \in TokensOf(comp.markets) : Position(o.trades, o.splits, t) >= 0
  PROVE  PaysNet(o, EnumerateWorlds(comp))
<1> DEFINE worlds == EnumerateWorlds(comp)
           flow == Inflow(o.trades) - Outlay(o.trades)
           sure == flow - Collateral(o.splits)
           net(w) == Inflow(o.trades) - Outlay(o.trades) - Collateral(o.splits)
                       + Payoff(o.trades, o.splits, w) - o.gas
           nets == {net(w) : w \in worlds}
<1>1. /\ Inflow(o.trades) \in Int /\ Outlay(o.trades) \in Int /\ ScaledCash(o.trades) \in Int
      /\ BpsDen * Dollar * flow <= ScaledCash(o.trades)
  BY CashRounds DEF SetupBuilt
<1>2. Collateral(o.splits) \in Int
  <2>1. Total(o.splits, DOMAIN o.splits) \in Int
    BY TotalType DEF SplitsTyped
  <2>2. QED
    BY <2>1, SumOnIs DEF Collateral
<1>3. IsFiniteSet(TokensOf(comp.markets)) /\ IsFiniteSet(comp.markets)
  BY TokensFinite DEF SetupBuilt, ComponentBuilt
<1>4. ASSUME NEW w PROVE Payoff(o.trades, o.splits, w) \in Int
  <2> DEFINE paid == {t \in TokensOf(comp.markets) : TokenPays(w, t)}
             pos == [t \in paid |-> Position(o.trades, o.splits, t)]
  <2>1. IsFiniteSet(paid)
    BY <1>3, FS_Subset
  <2>2. \A t \in paid : pos[t] \in Int
    BY PositionTyped
  <2>3. Payoff(o.trades, o.splits, w) = Total(pos, paid)
    BY SumOnIs DEF Payoff
  <2> HIDE DEF paid, pos
  <2>4. QED
    BY <2>1, <2>2, <2>3, TotalType
<1>5. ASSUME NEW w \in worlds PROVE o.net \in Int /\ o.net <= net(w)
  <2>1. IsFiniteSet(worlds)
    <3>1. IsFiniteSet([comp.markets -> BOOLEAN])
      BY <1>3, FunctionsFinite
    <3>2. worlds \in SUBSET [comp.markets -> BOOLEAN]
      BY DEF EnumerateWorlds
    <3>3. QED
      BY <3>1, <3>2, FS_Subset
  <2> DEFINE h == [x \in worlds |-> net(x)]
  <2>2. IsFiniteSet({h[x] : x \in worlds}) /\ {h[x] : x \in worlds} = nets
    <3> HIDE DEF worlds
    <3>1. {h[x] : x \in worlds} = nets
      OBVIOUS
    <3> HIDE DEF h
    <3>2. QED
      BY <2>1, <3>1, ValuesFinite
  <2>3. nets \subseteq Int /\ net(w) \in nets
    <3>1. \A x : net(x) \in Int
      BY <1>1, <1>2, <1>4
    <3> HIDE DEF net
    <3>2. QED
      BY <3>1
  <2>4. o.net = Min(nets)
    BY DEF WorstNet
  <2> HIDE DEF nets, net
  <2>5. \E m \in nets : \A k \in nets : m <= k
    BY <2>2, <2>3, LowestExists
  <2>6. Min(nets) \in nets /\ \A k \in nets : Min(nets) <= k
    BY <2>5 DEF Min
  <2>7. QED
    BY <2>3, <2>4, <2>6
<1>6. ASSUME NEW w \in worlds
      PROVE  ScaledCash(o.trades)
               + BpsDen * Dollar * (Payoff(o.trades, o.splits, w) - Collateral(o.splits) - o.gas)
               >= BpsDen * Dollar * o.net
  <2> DEFINE promised == o.net - flow + o.gas
             gained == Payoff(o.trades, o.splits, w) - Collateral(o.splits)
  <2>1. promised \in Int /\ gained \in Int /\ flow \in Int /\ promised <= gained
    BY <1>1, <1>2, <1>4, <1>5
  <2>2. o.net = flow + promised - o.gas
    BY <1>1, <1>5
  <2> HIDE DEF promised, flow
  <2>3. ScaledCash(o.trades) + BpsDen * Dollar * (gained - o.gas)
          >= BpsDen * Dollar * (flow + promised - o.gas)
    <3> HIDE DEF gained
    <3>1. QED
      BY <1>1, <2>1, NetCovered
  <2>4. QED
    BY <2>2, <2>3
<1>7. QED
  BY <1>6 DEF PaysNet

-----------------------------------------------------------------------------
(* The steps of a detection.                                               *)

LEMMA BasketKept ==
  ASSUME setup' = setup, listing' = listing, NEW b, basket' = b, BasketBuilt(b)
  PROVE  BasketBuilt(basket)'
<1>1. comp' = comp
  BY DEF comp
<1>2. EnumerateWorlds(comp)' = EnumerateWorlds(comp)
  BY <1>1 DEF EnumerateWorlds
<1>3. PaysForAll(b) => PaysForAll(basket)'
  BY <1>1, <1>2 DEF PaysForAll, Paying
<1>4. SplitsASet(b) => SplitsASet(basket)'
  BY <1>1 DEF SplitsASet
<1>5. ListedOnce' => ListedOnce
  BY OnceKept
<1>6. Quoted' = Quoted
  BY <1>1 DEF Quoted
<1>7. QED
  BY <1>1, <1>3, <1>4, <1>5, <1>6 DEF BasketBuilt

LEMMA SetupKept ==
  ASSUME SetupBuilt, setup' = setup, listing' = listing
  PROVE  SetupBuilt'
<1>1. comp' = comp
  BY DEF comp
<1>2. ComponentBuilt(comp)'
  BY <1>1, ComponentKept DEF SetupBuilt
<1>3. QED
  BY <1>1, <1>2 DEF SetupBuilt

LEMMA DetectWalks ==
  ASSUME SetupBuilt, listing' = listing, Detect
  PROVE  Walked'
<1>1. PICK b \in Baskets :
        /\ basket' = b
        /\ cur' = [t \in DOMAIN b.legs |->
                     LET l == LadderOf(t, b.legs[t])
                     IN  [lvl |-> 1, rem |-> IF l = <<>> THEN 0 ELSE l[1].qty]]
        /\ segs' = [t \in DOMAIN b.legs |-> <<>>]
        /\ units' = 0 /\ used' = 0
  BY DEF Detect
<1>2. setup' = setup
  BY DEF Detect
<1>3. BasketBuilt(b)
  BY BasketsBuilt
<1>4. BasketBuilt(basket)'
  BY <1>1, <1>2, <1>3, BasketKept
<1>5. ASSUME NEW t \in DOMAIN b.legs PROVE LegWalked(t)'
  <2> DEFINE l == LadderOf(t, b.legs[t])
  <2>1. t \in Quoted
    BY <1>3 DEF BasketBuilt
  <2>2. Len(l) \in Nat /\ (l # <<>> => l[1].qty \in Nat)
    <3>1. Len(l) \in Nat /\ l \in Seq([px : Nat, qty : Nat \ {0}]) /\ \A i \in 1 .. Len(l) : l[i].qty \in Nat
      BY <2>1, LaddersAre
    <3> HIDE DEF l
    <3>2. l # <<>> => 1 \in 1 .. Len(l)
      BY <3>1
    <3>3. QED
      BY <3>1, <3>2
  <2>3. cur'[t] = [lvl |-> 1, rem |-> IF l = <<>> THEN 0 ELSE l[1].qty] /\ segs'[t] = <<>> /\ units' = 0
    BY <1>1
  <2>4. LadderOf(t, basket.legs[t])' = l
    BY <1>1, <1>2 DEF LadderOf
  <2>5. SharesOf(Tape(t, basket.legs[t], segs[t]))' = 0
    <3>1. Tape(t, basket'.legs[t], <<>>) = {}
      BY DEF Tape
    <3>2. QED
      BY <2>3, <3>1, SharesNone
  <2> HIDE DEF l
  <2>6. cur'[t].lvl = 1 /\ cur'[t].rem \in Nat
    BY <2>2, <2>3
  <2>7. <<>> \in Seq(Segment) /\ Len(<<>>) = 0 /\ DOMAIN <<>> = {}
    OBVIOUS
  <2>8. Len(segs'[t]) \in {cur'[t].lvl - 1, cur'[t].lvl} /\ Len(segs'[t]) <= Len(l)
    BY <2>2, <2>3, <2>6, <2>7
  <2>9. QED
    BY <2>3, <2>4, <2>5, <2>6, <2>7, <2>8 DEF LegWalked
<1>6. Legs' = DOMAIN b.legs
  BY <1>1 DEF Legs
<1>7. units' \in Nat /\ used' \in Int /\ ~(units' # 0)
  BY <1>1
<1>8. \A t \in Legs' : LegWalked(t)'
  BY <1>5, <1>6
<1>9. QED
  BY <1>4, <1>7, <1>8 DEF Walked

LEMMA TakeWalks ==
  ASSUME SetupBuilt, Walked, listing' = listing, Take
  PROVE  Walked'
<1>1. /\ setup' = setup /\ basket' = basket /\ Profitable /\ units' = units + Chunk
      /\ used' = used + RoundedUp(BasisPerShare * Chunk, BpsDen * Dollar)
  BY DEF Take
<1>2. Chunk \in Nat \ {0} /\ BasisPerShare \in Int /\ \A t \in Legs : LegCost[t] \in Int
  BY <1>1, ChunkFits
<1>3. units \in Nat /\ used \in Int /\ BasketBuilt(basket)
  BY DEF Walked
<1>4. BasketBuilt(basket)'
  BY <1>1, <1>3, BasketKept
<1>5. Legs' = Legs
  BY <1>1 DEF Legs
<1>6. \A t \in Legs : LegWalked(t)' /\ LimitPx(segs'[t]) = PxAt(t)
  BY LegTakes
<1>7. units' \in Nat
  BY <1>1, <1>2, <1>3
<1>8. used' \in Int
  <2> DEFINE x == BasisPerShare * Chunk
             d == BpsDen * Dollar
  <2>1. x \in Int /\ d \in Nat \ {0}
    BY <1>2, EngineAssumption
  <2> HIDE DEF x, d
  <2>2. RoundedUp(x, d) \in Int
    BY <2>1, RoundsUp
  <2>3. QED
    BY <1>1, <1>3, <2>2 DEF x, d
<1>9. BpsDen * (basket'.payout - basket'.collateral) > SumFunctionOnSet(Limits', Legs')
  <2>1. Limits' = LegCost
    <3>1. Limits' = [t \in Legs |-> ScaledLegCost(basket.legs[t], LimitPx(segs'[t]))]
      BY <1>1, <1>5 DEF Limits, ScaledLegCost, FeeBase, LimitPx
    <3>2. LegCost = [t \in Legs |-> ScaledLegCost(basket.legs[t], PxAt(t))]
      BY DEF LegCost
    <3>3. QED
      BY <1>6, <3>1, <3>2
  <2>2. Marginal = BpsDen * (basket.payout - basket.collateral) - SumFunctionOnSet(LegCost, Legs)
    BY DEF Marginal
  <2>3. Marginal > 0
    BY <1>1 DEF Profitable
  <2>4. SumFunctionOnSet(LegCost, Legs) \in Int
    <3>1. IsFiniteSet(Legs)
      BY LegsAre
    <3>2. QED
      BY <1>2, <3>1, TotalType, SumOnIs
  <2>5. BpsDen * (basket.payout - basket.collateral) \in Int
    BY LegsAre, EngineAssumption
  <2> DEFINE x == BpsDen * (basket.payout - basket.collateral)
             y == SumFunctionOnSet(LegCost, Legs)
  <2>6. x \in Int /\ y \in Int /\ x - y > 0
    BY <2>2, <2>3, <2>4, <2>5
  <2> HIDE DEF x, y
  <2>7. x > y
    BY <2>6
  <2>8. QED
    BY <1>1, <1>5, <2>1, <2>7 DEF x, y
<1>10. QED
  BY <1>4, <1>5, <1>6, <1>7, <1>8, <1>9 DEF Walked

LEMMA WalkKept ==
  ASSUME Walked, setup' = setup, listing' = listing, UNCHANGED <<basket, walking>>
  PROVE  Walked'
<1>1. basket' = basket /\ cur' = cur /\ segs' = segs /\ units' = units /\ used' = used
  BY DEF walking
<1>2. BasketBuilt(basket)'
  BY <1>1, BasketKept DEF Walked
<1>3. Legs' = Legs
  BY <1>1 DEF Legs
<1>4. \A t \in Legs : LegWalked(t)'
  BY <1>1 DEF Walked, LegWalked, LadderOf
<1>5. Limits' = Limits
  BY <1>1, <1>3 DEF Limits, ScaledLegCost, FeeBase, LimitPx
<1>6. QED
  BY <1>1, <1>2, <1>3, <1>4, <1>5 DEF Walked

(* Opportunity and setup stay: so does what the opportunity pays.          *)
LEMMA PayingKept ==
  ASSUME setup' = setup, NEW o, opp' = o, PaysNet(o, EnumerateWorlds(comp))
  PROVE  PaysIn(EnumerateWorlds(comp))'
<1>1. comp' = comp
  BY DEF comp
<1>2. EnumerateWorlds(comp)' = EnumerateWorlds(comp)
  BY <1>1 DEF EnumerateWorlds
<1>3. ScaledCash(opp.trades)' = ScaledCash(o.trades)
  BY DEF ScaledCash, ScaledLegCost, FeeBase
<1>4. \A w : Payoff(opp.trades, opp.splits, w)' = Payoff(o.trades, o.splits, w)
  BY <1>1 DEF Payoff
<1>5. QED
  BY <1>1, <1>2, <1>3, <1>4 DEF PaysIn, PaysNet

DetectorInv ==
  /\ setup = NoSetup => basket = NoBasket /\ opp = NothingFound
  /\ setup # NoSetup => SetupBuilt
  /\ basket # NoBasket => Walked
  /\ opp # NothingFound /\ ListedOnce => PaysIn(EnumerateWorlds(comp))
  /\ LimitsStillPay

LEMMA NothingDropped ==
  ASSUME Dropped, UNCHANGED setup, setup # NoSetup, SetupBuilt'
  PROVE  DetectorInv'
<1>1. basket' = NoBasket /\ opp' = NothingFound /\ setup' = setup
  BY DEF Dropped
<1>2. QED
  BY <1>1 DEF DetectorInv, LimitsStillPay

LEMMA PriceStep ==
  ASSUME DetectorInv, setup # NoSetup, UNCHANGED listing, PriceWalk
  PROVE  DetectorInv'
<1>1. SetupBuilt /\ Walked /\ setup' = setup
  BY DEF DetectorInv, PriceWalk
<1>2. SetupBuilt'
  BY <1>1, SetupKept
<1>3. CASE /\ units > 0
           /\ opp' = [class |-> basket.class, trades |-> Trades, splits |-> SplitsOfWalk,
                      limit |-> [t \in Legs |-> LimitPx(segs[t])],
                      gas |-> basket.gas, net |-> NetOfWalk, basis |-> BasisOfWalk]
           /\ UNCHANGED <<setup, basket, walking>>
  <2>1. Walked' /\ basket' = basket
    BY <1>1, <1>3, WalkKept
  <2> DEFINE o == [class |-> basket.class, trades |-> Trades, splits |-> SplitsOfWalk,
                   limit |-> [t \in Legs |-> LimitPx(segs[t])],
                   gas |-> basket.gas, net |-> NetOfWalk, basis |-> BasisOfWalk]
  <2>2. /\ opp' = o /\ o.trades = Trades /\ o.splits = SplitsOfWalk /\ o.gas = basket.gas
        /\ o.net = NetOfWalk /\ o.limit = [t \in Legs |-> LimitPx(segs[t])]
    BY <1>3
  <2> HIDE DEF o
  <2>3. ListedOnce => PaysNet(o, EnumerateWorlds(comp))
    BY <1>1, <1>3, <2>2, WalkPays
  <2>4. ListedOnce' => PaysIn(EnumerateWorlds(comp))'
    BY <1>1, <2>2, <2>3, OnceKept, PayingKept
  <2>5. LimitsStillPay'
    <3>1. BpsDen * (basket.payout - basket.collateral) > SumFunctionOnSet(Limits, Legs)
      <4>1. units # 0
        BY <1>1, <1>3 DEF Walked
      <4>2. QED
        BY <1>1, <4>1 DEF Walked
    <3>2. Legs' = Legs
      BY <2>1 DEF Legs
    <3>3. [t \in Legs |-> ScaledLegCost(basket.legs[t], opp.limit[t])]' = Limits
      <4>1. opp'.limit = [t \in Legs |-> LimitPx(segs[t])]
        BY <2>2
      <4>2. [t \in Legs |-> ScaledLegCost(basket.legs[t], opp.limit[t])]'
              = [t \in Legs |-> ScaledLegCost(basket.legs[t], opp'.limit[t])]
        BY <1>1, <2>1, <3>2 DEF ScaledLegCost, FeeBase
      <4>3. QED
        BY <4>1, <4>2 DEF Limits
    <3>4. QED
      BY <2>1, <3>1, <3>2, <3>3 DEF LimitsStillPay
  <2>6. basket' # NoBasket
    BY <2>1 DEF PriceWalk
  <2>7. QED
    BY <1>1, <1>2, <2>1, <2>4, <2>5 DEF DetectorInv
<1>4. CASE Dropped /\ UNCHANGED setup
  BY <1>2, <1>4, NothingDropped
<1>5. QED
  BY <1>3, <1>4 DEF PriceWalk

(* What is read of the solver's answer is well typed.                      *)
LEMMA ListedQuoted ==
  ASSUME SetupBuilt, NEW side \in {"yes", "no"}
  PROVE  Lanes(comp.listed, side) \subseteq Quoted
<1>1. DOMAIN comp.listed = comp.markets /\ Counted(comp.listed)
  BY DEF SetupBuilt, ComponentBuilt
<1>2. ASSUME NEW m \in comp.markets PROVE TokenOf(<<m, side>>) \in TokensOf(comp.markets)
  BY DEF TokenOf, TokensOf, YesOf, NoOf
<1>3. \A t \in Lanes(comp.listed, side) : TokenOf(t) \in TokensOf(comp.markets)
  BY <1>1, <1>2 DEF Lanes, TokenOf
<1>4. QED
  BY <1>1, <1>3, LanesQuoted

LEMMA AnswerTyped ==
  ASSUME SetupBuilt, NEW cols \in SUBSET Columns, IsFiniteSet(cols), NEW raw \in [cols -> Amounts],
         NEW answer, answer = {<<col, raw[col]>> : col \in cols}
  PROVE  /\ TradeSet(TradesIn(answer)) /\ SplitsTyped(SplitsIn(answer))
         /\ Cardinality(SplitsOn(answer)) \in Nat
<1>1. IsFiniteSet(answer)
  <2> DEFINE f == [col \in cols |-> <<col, raw[col]>>]
  <2>1. answer = {f[col] : col \in cols}
    OBVIOUS
  <2> HIDE DEF f
  <2>2. QED
    BY <2>1, ValuesFinite
<1>2. ASSUME NEW x \in answer
      PROVE  x[1] \in Columns /\ x[2] \in Nat
  <2>1. PICK col \in cols : x = <<col, raw[col]>>
    OBVIOUS
  <2>2. col \in Columns
    BY <2>1
  <2>3. raw[col] \in Amounts
    BY <2>1
  <2>4. QED
    BY <2>1, <2>2, <2>3, EngineAssumption
<1>3. \A col \in SplitColumns : col.action = "Split"
  BY DEF SplitColumns
<1>4. ASSUME NEW col \in TradeColumns
      PROVE  /\ col.action \in {"Buy", "Sell"}
             /\ LevelOf(col).px \in Nat /\ LevelOf(col).qty \in Nat
  <2>1. PICK t \in Quoted, act \in {"Buy", "Sell"} :
          col \in {[token |-> t, action |-> act, lvl |-> i] : i \in DOMAIN LadderOf(t, act)}
    BY ListedQuoted DEF TradeColumns
  <2>2. PICK i \in DOMAIN LadderOf(t, act) : col = [token |-> t, action |-> act, lvl |-> i]
    BY <2>1
  <2>3. LevelOf(col) = LadderOf(t, act)[i]
    BY <2>2 DEF LevelOf
  <2> DEFINE l == LadderOf(t, act)
  <2>4. l \in Seq([px : Nat, qty : Nat \ {0}]) /\ \A j \in 1 .. Len(l) : l[j].px \in Nat /\ l[j].qty \in Nat
    BY LaddersAre
  <2>5. i \in DOMAIN l /\ LevelOf(col) = l[i]
    BY <2>2, <2>3
  <2> HIDE DEF l
  <2>6. DOMAIN l = 1 .. Len(l)
    BY <2>4
  <2>7. QED
    BY <2>2, <2>4, <2>5, <2>6
<1>5. TradeSet(TradesIn(answer))
  <2> DEFINE bought == {x \in answer : x[1].action # "Split"}
             f == [x \in bought |-> [token |-> x[1].token, action |-> x[1].action, px |-> LevelOf(x[1]).px,
                                     qty |-> Lesser(x[2], LevelOf(x[1]).qty)]]
  <2>1. TradesIn(answer) = {f[x] : x \in bought}
    BY DEF TradesIn
  <2>2. IsFiniteSet(bought)
    BY <1>1, FS_Subset
  <2>3. ASSUME NEW x \in bought PROVE Trade(f[x])
    <3>1. x[1] \in TradeColumns /\ x[2] \in Nat
      BY <1>2, <1>3 DEF Columns
    <3>2. x[1].action \in {"Buy", "Sell"} /\ LevelOf(x[1]).px \in Nat /\ LevelOf(x[1]).qty \in Nat
      BY <1>4, <3>1
    <3>3. Lesser(x[2], LevelOf(x[1]).qty) \in Nat
      BY <3>1, <3>2 DEF Lesser
    <3>4. QED
      BY <3>2, <3>3 DEF Trade
  <2> HIDE DEF f, bought
  <2>4. IsFiniteSet({f[x] : x \in bought})
    BY <2>2, ValuesFinite
  <2>5. QED
    BY <2>1, <2>3, <2>4 DEF TradeSet
<1>6. IsFiniteSet(SplitsOn(answer)) /\ Cardinality(SplitsOn(answer)) \in Nat
  BY <1>1, FS_Subset, FS_CardinalityType DEF SplitsOn
<1>7. SplitsTyped(SplitsIn(answer))
  <2> DEFINE own(m) == {x \in SplitsOn(answer) : x[1].token[1] = m}
             sold(m) == [x \in own(m) |-> x[2]]
             f == [x \in SplitsOn(answer) |-> x[1].token[1]]
             ms == {f[x] : x \in SplitsOn(answer)}
  <2>1. SplitsIn(answer) = [m \in ms |-> SumFunctionOnSet(sold(m), own(m))]
    BY DEF SplitsIn
  <2>2. ASSUME NEW m PROVE SumFunctionOnSet(sold(m), own(m)) \in Nat
    <3>1. own(m) \in SUBSET SplitsOn(answer) /\ \A x \in own(m) : x \in answer
      BY DEF SplitsOn
    <3>2. IsFiniteSet(own(m)) /\ \A x \in own(m) : sold(m)[x] \in Nat
      BY <1>2, <1>6, <3>1, FS_Subset
    <3> HIDE DEF own, sold
    <3>3. Total(sold(m), own(m)) \in Nat
      BY <3>2, TotalType
    <3>4. QED
      BY <3>3, SumOnIs
  <2> HIDE DEF f, own, sold
  <2>3. IsFiniteSet(ms)
    BY <1>6, ValuesFinite
  <2> HIDE DEF ms
  <2>4. QED
    BY <2>1, <2>2, <2>3 DEF SplitsTyped
<1>8. QED
  BY <1>5, <1>6, <1>7

LEMMA SolveStep ==
  ASSUME DetectorInv, setup # NoSetup, UNCHANGED listing, SolveComponent
  PROVE  DetectorInv'
<1>1. SetupBuilt /\ setup' = setup /\ basket = NoBasket /\ basket' = basket
  BY DEF DetectorInv, SolveComponent
<1>2. SetupBuilt'
  BY <1>1, SetupKept
<1>3. PICK cols \in {Range(three) : three \in [1..3 -> Columns]} :
        \E raw \in [cols -> Amounts] : Answered({<<col, raw[col]>> : col \in cols})
  BY DEF SolveComponent
<1>4. PICK raw \in [cols -> Amounts] : Answered({<<col, raw[col]>> : col \in cols})
  BY <1>3
<1> DEFINE answer == {<<col, raw[col]>> : col \in cols}
           splits == SplitsIn(answer)
           trades == Clamped(TradesIn(answer), splits)
           gas == Cardinality(SplitsOn(answer)) * Gas.split + Gas.redeem
           o == opp'
<1>5. /\ \A t \in TokensOf(comp.markets) : Position(trades, splits, t) >= 0
      /\ o.trades = trades /\ o.splits = splits /\ o.gas = gas /\ o.class = "C4Lp"
      /\ o.net = WorstNet(trades, splits, gas, EnumerateWorlds(comp))
  <2> HIDE DEF answer
  <2>1. Answered(answer)
    BY <1>4 DEF answer
  <2>2. QED
    BY ONLY <2>1 DEF Answered
<1>6. /\ TradeSet(TradesIn(answer)) /\ SplitsTyped(splits)
      /\ Cardinality(SplitsOn(answer)) \in Nat
  <2>1. PICK three \in [1..3 -> Columns] : cols = Range(three)
    OBVIOUS
  <2>2. cols \in SUBSET Columns /\ IsFiniteSet(cols)
    <3>1. cols = {three[i] : i \in 1..3}
      BY <2>1 DEF Range
    <3>2. IsFiniteSet(1..3)
      <4>1. 1 \in Int /\ 3 \in Int
        OBVIOUS
      <4>2. QED
        BY ONLY <4>1, FS_Interval
    <3>3. QED
      BY <3>1, <3>2, ValuesFinite
  <2>3. answer = {<<col, raw[col]>> : col \in cols}
    OBVIOUS
  <2> HIDE DEF answer
  <2>4. QED
    BY <1>1, <1>4, <2>2, <2>3, AnswerTyped
<1> HIDE DEF answer
<1>7. TradeSet(trades)
  <2> HIDE DEF splits
  <2>1. QED
    BY <1>6, ClampedTyped
<1>8. gas \in Int
  BY <1>6, GasTyped
<1> HIDE DEF splits, trades, gas, o
<1>9. PaysNet(o, EnumerateWorlds(comp))
  <2>1. /\ TradeSet(o.trades) /\ SplitsTyped(o.splits) /\ o.gas \in Int
        /\ o.net = WorstNet(o.trades, o.splits, o.gas, EnumerateWorlds(comp))
        /\ \A t \in TokensOf(comp.markets) : Position(o.trades, o.splits, t) >= 0
    BY <1>5, <1>6, <1>7, <1>8
  <2>2. QED
    BY <1>1, <2>1, SolvedPays
<1>10. opp' = o
  BY DEF o
<1>11. PaysIn(EnumerateWorlds(comp))'
  BY <1>1, <1>9, <1>10, PayingKept
<1>12. LimitsStillPay'
  BY <1>5, <1>10 DEF LimitsStillPay
<1>13. QED
  BY <1>1, <1>2, <1>11, <1>12 DEF DetectorInv

LEMMA DetectionStep ==
  ASSUME DetectorInv, setup # NoSetup, UNCHANGED listing, Detection
  PROVE  DetectorInv'
<1>1. SetupBuilt
  BY DEF DetectorInv
<1>2. CASE Detect
  <2>1. Walked' /\ setup' = setup /\ opp' = NothingFound
    BY <1>1, <1>2, DetectWalks DEF Detect
  <2>2. SetupBuilt'
    BY <1>1, <2>1, SetupKept
  <2>3. QED
    BY <2>1, <2>2 DEF DetectorInv, LimitsStillPay
<1>3. CASE Take
  <2>1. Walked' /\ setup' = setup /\ opp' = NothingFound
    BY <1>1, <1>3, TakeWalks DEF Take, DetectorInv
  <2>2. SetupBuilt'
    BY <1>1, <2>1, SetupKept
  <2>3. QED
    BY <2>1, <2>2 DEF DetectorInv, LimitsStillPay
<1>4. CASE PriceWalk
  BY <1>4, PriceStep
<1>5. CASE SolveComponent
  BY <1>5, SolveStep
<1>6. CASE Emit
  <2>1. Dropped /\ UNCHANGED setup
    BY <1>6 DEF Emit
  <2>2. SetupBuilt'
    BY <1>1, <2>1, SetupKept
  <2>3. QED
    BY <2>1, <2>2, NothingDropped
<1>7. QED
  BY <1>2, <1>3, <1>4, <1>5, <1>6 DEF Detection


-----------------------------------------------------------------------------
(* What is walked: the places of the listing, in their order.              *)

Places == Nat \X Nat \X Nat

LEMMA PlacesTyped ==
  ASSUME Listed
  PROVE  PlacesOf(listing) \subseteq Places /\ \A p \in PlacesOf(listing) : MemberAt(p) \in Member
<1>1. listing \in Seq(Seq(ListedEvent))
  BY ListedIn
<1>2. SUFFICES ASSUME NEW p \in PlacesOf(listing) PROVE p \in Places /\ MemberAt(p) \in Member
  OBVIOUS
<1>3. PICK i \in DOMAIN listing : p \in PlacesOn(listing, i)
  BY DEF PlacesOf
<1>4. PICK j \in DOMAIN listing[i] : p \in {<<i, j, k>> : k \in DOMAIN listing[i][j].members}
  BY <1>3 DEF PlacesOn
<1>5. PICK k \in DOMAIN listing[i][j].members : p = <<i, j, k>>
  BY <1>4
<1>6. i \in Nat /\ listing[i] \in Seq(ListedEvent)
  BY <1>1
<1>7. j \in Nat /\ listing[i][j] \in ListedEvent
  BY <1>6
<1>8. listing[i][j].members \in Seq(Member)
  BY <1>7 DEF ListedEvent
<1>9. k \in Nat /\ listing[i][j].members[k] \in Member
  BY <1>8
<1>10. QED
  BY <1>5, <1>6, <1>7, <1>9 DEF Places, MemberAt, ListedAt

LEMMA PlacesFinite ==
  ASSUME Listed
  PROVE  IsFiniteSet(PlacesOf(listing))
<1>1. listing \in Seq(Seq(ListedEvent))
  BY ListedIn
<1>2. ASSUME NEW s, NEW n \in Nat, DOMAIN s = 1 .. n PROVE IsFiniteSet(DOMAIN s)
  <2>1. IsFiniteSet(1 .. n)
    BY FS_Interval
  <2>2. QED
    BY <1>2, <2>1
<1>3. ASSUME NEW i \in DOMAIN listing PROVE IsFiniteSet(PlacesOn(listing, i))
  <2> DEFINE of(j) == {<<i, j, k>> : k \in DOMAIN listing[i][j].members}
             row == [j \in DOMAIN listing[i] |-> of(j)]
  <2>1. listing[i] \in Seq(ListedEvent)
    BY <1>1
  <2>2. ASSUME NEW j \in DOMAIN listing[i] PROVE IsFiniteSet(of(j))
    <3> DEFINE ms == listing[i][j].members
               f == [k \in DOMAIN ms |-> <<i, j, k>>]
    <3>1. listing[i][j] \in ListedEvent
      BY <2>1
    <3>2. ms \in Seq(Member)
      BY <3>1 DEF ListedEvent
    <3>3. of(j) = {f[k] : k \in DOMAIN ms}
      OBVIOUS
    <3> HIDE DEF ms, f, of
    <3>4. Len(ms) \in Nat /\ DOMAIN ms = 1 .. Len(ms)
      BY <3>2
    <3>5. IsFiniteSet(DOMAIN ms)
      BY <1>2, <3>4
    <3>6. QED
      BY <3>3, <3>5, ValuesFinite
  <2>3. PlacesOn(listing, i) = UNION {row[j] : j \in DOMAIN listing[i]}
    BY DEF PlacesOn
  <2> HIDE DEF of
  <2>4. Len(listing[i]) \in Nat /\ DOMAIN listing[i] = 1 .. Len(listing[i])
    BY <2>1
  <2>5. IsFiniteSet({row[j] : j \in DOMAIN listing[i]})
    <3> HIDE DEF row
    <3>1. IsFiniteSet(DOMAIN listing[i])
      BY <1>2, <2>4
    <3>2. QED
      BY <3>1, ValuesFinite
  <2>6. \A x \in {row[j] : j \in DOMAIN listing[i]} : IsFiniteSet(x)
    BY <2>2
  <2> HIDE DEF row
  <2>7. QED
    BY <2>3, <2>5, <2>6, FS_UNION
<1> DEFINE row == [i \in DOMAIN listing |-> PlacesOn(listing, i)]
<1>4. PlacesOf(listing) = UNION {row[i] : i \in DOMAIN listing}
  BY DEF PlacesOf
<1>5. Len(listing) \in Nat /\ DOMAIN listing = 1 .. Len(listing)
  BY <1>1
<1>6. IsFiniteSet({row[i] : i \in DOMAIN listing})
  <2> HIDE DEF row
  <2>1. IsFiniteSet(DOMAIN listing)
    BY <1>2, <1>5
  <2>2. QED
    BY <2>1, ValuesFinite
<1>7. \A x \in {row[i] : i \in DOMAIN listing} : IsFiniteSet(x)
  BY <1>3
<1> HIDE DEF row
<1>8. QED
  BY <1>4, <1>6, <1>7, FS_UNION

LEMMA PrecedesOrders ==
  ASSUME NEW p \in Places, NEW q \in Places, NEW r \in Places
  PROVE  /\ p # q => Precedes(p, q) \/ Precedes(q, p)
         /\ Precedes(p, q) /\ Precedes(q, r) => Precedes(p, r)
<1>1. /\ p[1] \in Nat /\ p[2] \in Nat /\ p[3] \in Nat
      /\ q[1] \in Nat /\ q[2] \in Nat /\ q[3] \in Nat
      /\ r[1] \in Nat /\ r[2] \in Nat /\ r[3] \in Nat
  BY DEF Places
<1>2. p # q => p[1] # q[1] \/ p[2] # q[2] \/ p[3] # q[3]
  BY DEF Places
<1>3. QED
  BY <1>1, <1>2 DEF Precedes

\* sync_once is at work on what the venue lists
Lookups == UNION {[cs -> {"found", "failed"}] : cs \in SUBSET Conditions}
Syncing ==
  sync \in [phase : {"pages", "lookups"}, page : 0 .. Len(listing), listed : SUBSET PlacesOf(listing),
            looked : Lookups, file : {s.file : s \in Scenarios}, filter : {s.filter : s \in Scenarios}]

LEMMA LookedIs ==
  ASSUME Syncing
  PROVE  DOMAIN sync.looked \subseteq Conditions
<1>1. sync.looked \in Lookups
  BY DEF Syncing
<1>2. PICK cs \in SUBSET Conditions : sync.looked \in [cs -> {"found", "failed"}]
  BY <1>1 DEF Lookups
<1>3. QED
  BY <1>2

LEMMA VisitsAre ==
  ASSUME Listed, Syncing
  PROVE  /\ Visits \subseteq PlacesOf(listing) /\ Visits \subseteq Places /\ IsFiniteSet(Visits)
         /\ ConditionsAt(Visits) \subseteq Conditions
<1>1. Visits \subseteq PlacesOf(listing)
  BY DEF Visits, Syncing
<1>2. ASSUME NEW p \in Visits PROVE ConditionAt(p) \in Conditions
  <2>1. MemberAt(p) \in Member /\ ConditionAt(p) # NoCondition
    BY <1>1, PlacesTyped DEF Visits
  <2>2. QED
    BY <2>1 DEF Member, ConditionAt
<1>3. IsFiniteSet(Visits)
  BY <1>1, PlacesFinite, FS_Subset
<1>4. QED
  BY <1>1, <1>2, <1>3, PlacesTyped DEF ConditionsAt

LEMMA CapTyped ==
  ASSUME Syncing
  PROVE  Cap \in Nat
<1>1. PICK s \in Scenarios : sync.filter = s.filter
  BY DEF Syncing
<1>2. sync.filter.max \in Nat /\ sync.filter.pool \in Nat /\ MaxPool \in Nat
  BY <1>1, UniverseAssumption
<1>3. QED
  BY <1>2 DEF Cap, Pool, Greater, Lesser

(* The gated visits are a beginning of the walk.                           *)
LEMMA SettledFirst ==
  ASSUME Listed, Syncing, NEW p \in Settled, NEW q \in Visits, Precedes(q, p)
  PROVE  q \in Settled
<1>1. p \in Visits /\ Reached(p) /\ ConditionsAt(Before(p) \cup {p}) \subseteq DOMAIN sync.looked
  BY DEF Settled
<1>2. Before(q) \subseteq Before(p) /\ q \in Before(p)
  BY <1>1, VisitsAre, PrecedesOrders DEF Before
<1>3. ConditionsAt(Before(q) \cup {q}) \subseteq DOMAIN sync.looked
  BY <1>1, <1>2 DEF ConditionsAt
<1>4. IsFiniteSet(AcceptedIn(Before(p))) /\ AcceptedIn(Before(q)) \subseteq AcceptedIn(Before(p))
  <2>1. AcceptedIn(Before(p)) \subseteq Visits
    BY DEF AcceptedIn, Before
  <2>2. IsFiniteSet(AcceptedIn(Before(p)))
    BY <2>1, VisitsAre, FS_Subset
  <2>3. QED
    BY <1>2, <2>2 DEF AcceptedIn
<1> DEFINE few == AcceptedIn(Before(q))
           many == AcceptedIn(Before(p))
<1>5. Cardinality(few) <= Cardinality(many) /\ Cardinality(few) \in Nat /\ Cardinality(many) \in Nat
  <2> HIDE DEF few, many
  <2>1. IsFiniteSet(many) /\ few \subseteq many
    BY <1>4 DEF few, many
  <2>2. QED
    BY <2>1, FS_Subset, FS_CardinalityType
<1>6. Reached(q)
  <2>1. Cardinality(many) < Cap
    BY <1>1 DEF Reached
  <2> HIDE DEF few, many
  <2>2. Cardinality(few) < Cap
    BY <1>5, <2>1, CapTyped
  <2>3. QED
    BY <2>2 DEF Reached, few
<1>7. QED
  BY <1>3, <1>6 DEF Settled

\* what was looked up is what the walk has come past
Fetched ==
  /\ sync.phase = "pages" => DOMAIN sync.looked = {}
  /\ sync.phase = "lookups" => DOMAIN sync.looked = ConditionsAt(Settled)

LEMMA FetchedWalk ==
  ASSUME Listed, Syncing, Fetched
  PROVE  FetchIsTheWalk
<1>1. SUFFICES ASSUME sync.phase = "lookups", LookupsDone
               PROVE  DOMAIN sync.looked = ConditionsAt({p \in Visits : Reached(p)})
  BY DEF FetchIsTheWalk
<1>2. Settled \subseteq {p \in Visits : Reached(p)}
  BY DEF Settled
<1>3. ASSUME NEW p \in Visits, Reached(p) PROVE p \in Settled
  <2>1. CASE Settled = Visits
    BY <1>3, <2>1
  <2>2. CASE Cardinality(AcceptedIn(Settled)) >= Cap
    <3>1. SUFFICES ASSUME p \notin Settled PROVE FALSE
      OBVIOUS
    <3>2. Settled \subseteq Before(p)
      <4>1. ASSUME NEW q \in Settled PROVE Precedes(q, p)
        <5>1. q \in Visits /\ q # p
          BY <3>1 DEF Settled
        <5>2. q \in Places /\ p \in Places
          BY <5>1, VisitsAre
        <5>3. ~Precedes(p, q)
          BY <3>1, SettledFirst
        <5>4. QED
          BY <5>1, <5>2, <5>3, PrecedesOrders
      <4>2. QED
        BY <4>1 DEF Before, Settled
    <3> DEFINE few == AcceptedIn(Settled)
               many == AcceptedIn(Before(p))
    <3>3. few \subseteq many /\ many \subseteq Visits
      BY <3>2 DEF AcceptedIn, Before
    <3>4. Cardinality(many) < Cap /\ Cardinality(few) >= Cap
      BY <1>3, <2>2 DEF Reached
    <3> HIDE DEF few, many
    <3>5. IsFiniteSet(many)
      BY <3>3, VisitsAre, FS_Subset
    <3>6. Cardinality(few) <= Cardinality(many) /\ Cardinality(few) \in Nat /\ Cardinality(many) \in Nat
      BY <3>3, <3>5, FS_Subset, FS_CardinalityType
    <3>7. QED
      BY <3>4, <3>6, CapTyped
  <2>3. QED
    BY <1>1, <2>1, <2>2 DEF LookupsDone
<1>4. Settled = {p \in Visits : Reached(p)}
  BY <1>2, <1>3
<1>5. QED
  BY <1>1, <1>4 DEF Fetched

LEMMA LookUpStep ==
  ASSUME Listed, Syncing, Fetched, LookUp
  PROVE  Fetched'
<1>1. sync.phase = "lookups" /\ DOMAIN sync.looked = ConditionsAt(Settled)
  BY DEF LookUp, Fetched
<1>2. PICK failed \in SUBSET (Wave \cap Unsteady) :
        sync' = [sync EXCEPT !.looked =
                   [c \in DOMAIN @ \cup Wave |->
                      IF c \in DOMAIN @ THEN @[c] ELSE IF c \in failed THEN "failed" ELSE "found"]]
  BY DEF LookUp
<1>3. /\ sync'.phase = sync.phase /\ sync'.listed = sync.listed /\ sync'.filter = sync.filter
      /\ DOMAIN sync'.looked = DOMAIN sync.looked \cup Wave
      /\ \A c \in DOMAIN sync.looked : sync'.looked[c] = sync.looked[c]
  BY <1>2 DEF Syncing
<1>4. listing' = listing
  BY DEF LookUp
<1>5. \A p : ConditionAt(p)' = ConditionAt(p)
  BY <1>4 DEF ConditionAt, MemberAt, ListedAt
<1>6. Visits' = Visits
  BY <1>3, <1>5 DEF Visits
<1>7. \A p : Before(p)' = Before(p)
  BY <1>6 DEF Before
<1>8. Cap' = Cap
  BY <1>3 DEF Cap, Pool
<1>9. \A c \in DOMAIN sync.looked : Passes(c)' <=> Passes(c)
  BY <1>3 DEF Passes
<1>10. ASSUME NEW p \in Visits, NEW passed, passed = {q \in Before(p) : Passes(ConditionAt(q))'},
              Cardinality(passed) < Cap, ConditionsAt(Before(p) \cup {p}) \subseteq DOMAIN sync'.looked
       PROVE  p \in Settled'
  <2>1. AcceptedIn(Before(p))' = passed
    BY <1>5, <1>7, <1>10 DEF AcceptedIn
  <2>2. Reached(p)'
    BY <1>8, <1>10, <2>1 DEF Reached
  <2>3. ConditionsAt(Before(p) \cup {p})' = ConditionsAt(Before(p) \cup {p})
    BY <1>5, <1>7 DEF ConditionsAt
  <2>4. QED
    BY <1>6, <1>10, <2>2, <2>3 DEF Settled
<1>11. ASSUME NEW p \in Settled PROVE p \in Settled'
  <2>1. p \in Visits /\ Reached(p) /\ ConditionsAt(Before(p) \cup {p}) \subseteq DOMAIN sync.looked
    BY DEF Settled
  <2>2. {q \in Before(p) : Passes(ConditionAt(q))'} = AcceptedIn(Before(p))
    <3>1. \A q \in Before(p) : ConditionAt(q) \in DOMAIN sync.looked
      BY <2>1 DEF ConditionsAt
    <3>2. \A q \in Before(p) : Passes(ConditionAt(q))' <=> Passes(ConditionAt(q))
      BY <1>5, <1>9, <3>1
    <3>3. QED
      BY <3>2 DEF AcceptedIn
  <2>3. Cardinality(AcceptedIn(Before(p))) < Cap
    BY <2>1 DEF Reached
  <2>4. ConditionsAt(Before(p) \cup {p}) \subseteq DOMAIN sync'.looked
    BY <1>3, <2>1
  <2>5. QED
    BY <1>10, <2>1, <2>2, <2>3, <2>4
<1>12. ASSUME NEW p \in Scan PROVE p \in Settled'
  <2>1. /\ p \in Visits /\ p \notin Settled
        /\ Cardinality(Before(p) \ Settled) < Cap - Cardinality(AcceptedIn(Settled))
        /\ Cardinality(Unresolved(Before(p) \cup {p})) <= Concurrency
    BY DEF Scan, Scanned, Budget
  <2> DEFINE passed == {q \in Before(p) : Passes(ConditionAt(q))'}
             old == AcceptedIn(Settled)
             new == Before(p) \ Settled
  <2>2. passed \subseteq old \cup new
    <3>1. \A q \in Settled : ConditionAt(q) \in DOMAIN sync.looked
      BY <1>1 DEF ConditionsAt
    <3>2. \A q \in Settled : Passes(ConditionAt(q))' <=> Passes(ConditionAt(q))
      BY <1>5, <1>9, <3>1
    <3>3. QED
      BY <3>2 DEF AcceptedIn
  <2>3. IsFiniteSet(old) /\ IsFiniteSet(new)
    <3>1. old \subseteq Visits /\ new \subseteq Visits
      BY DEF AcceptedIn, Settled, Before
    <3> HIDE DEF old, new
    <3>2. QED
      BY <3>1, VisitsAre, FS_Subset
  <2>4. Cardinality(passed) < Cap
    <3>1. Cardinality(new) < Cap - Cardinality(old)
      BY <2>1
    <3> HIDE DEF passed, old, new
    <3> DEFINE both == old \cup new
    <3>2. IsFiniteSet(both) /\ Cardinality(both) <= Cardinality(old) + Cardinality(new)
      <4>1. IsFiniteSet(both) /\ Cardinality(both)
                = Cardinality(old) + Cardinality(new) - Cardinality(old \cap new)
        BY <2>3, FS_Union
      <4>2. IsFiniteSet(old \cap new)
        BY <2>3, FS_Intersection
      <4>3. Cardinality(old \cap new) \in Nat /\ Cardinality(old) \in Nat /\ Cardinality(new) \in Nat
        BY <2>3, <4>2, FS_CardinalityType
      <4> HIDE DEF both
      <4>4. QED
        BY <4>1, <4>3
    <3>3. passed \subseteq both
      BY <2>2
    <3> HIDE DEF both
    <3>4. Cardinality(passed) <= Cardinality(both) /\ IsFiniteSet(passed)
      BY <3>2, <3>3, FS_Subset
    <3>5. /\ Cardinality(passed) \in Nat /\ Cardinality(both) \in Nat
          /\ Cardinality(old) \in Nat /\ Cardinality(new) \in Nat
      BY <2>3, <3>2, <3>4, FS_CardinalityType
    <3>6. QED
      BY <3>1, <3>2, <3>4, <3>5, CapTyped
  <2>5. ASSUME NEW q \in Before(p) \cup {p}, ConditionAt(q) \notin DOMAIN sync.looked
        PROVE  ConditionAt(q) \in Wave
    <3>1. q \in Visits /\ q \notin Settled
      BY <1>1, <2>1, <2>5 DEF Before, ConditionsAt
    <3>2. Before(q) \subseteq Before(p) /\ Before(q) \cup {q} \subseteq Before(p) \cup {p}
      <4>1. CASE q = p
        BY <4>1
      <4>2. CASE q \in Before(p)
        BY <2>1, <3>1, <4>2, VisitsAre, PrecedesOrders DEF Before
      <4>3. QED
        BY <4>1, <4>2
    <3> DEFINE few == Before(q) \ Settled
               asked == Unresolved(Before(q) \cup {q})
               all == Unresolved(Before(p) \cup {p})
    <3>3. few \subseteq new /\ asked \subseteq all
      BY <3>2 DEF Unresolved, ConditionsAt
    <3>4. IsFiniteSet(all)
      <4> DEFINE c == [x \in Visits |-> ConditionAt(x)]
                 found == {c[x] : x \in Visits}
      <4>1. all \subseteq found
        BY <2>1 DEF Unresolved, ConditionsAt, Before
      <4>2. IsFiniteSet(found)
        <5>1. IsFiniteSet(Visits)
          BY VisitsAre
        <5> HIDE DEF c
        <5>2. QED
          BY <5>1, ValuesFinite
      <4> HIDE DEF found, all
      <4>3. QED
        BY <4>1, <4>2, FS_Subset
    <3>5. Cardinality(few) < Budget /\ Cardinality(asked) <= Concurrency
      <4>1. Cardinality(new) < Budget /\ Cardinality(all) <= Concurrency /\ Budget = Cap - Cardinality(old)
        BY <2>1 DEF Budget
      <4> HIDE DEF few, new, asked, all, old
      <4>2. /\ Cardinality(few) <= Cardinality(new) /\ Cardinality(asked) <= Cardinality(all)
            /\ IsFiniteSet(few) /\ IsFiniteSet(asked)
        BY <2>3, <3>3, <3>4, FS_Subset
      <4>3. /\ Cardinality(few) \in Nat /\ Cardinality(new) \in Nat /\ Cardinality(old) \in Nat
            /\ Cardinality(asked) \in Nat /\ Cardinality(all) \in Nat
        BY <2>3, <3>4, <4>2, FS_CardinalityType
      <4>4. QED
        BY <4>1, <4>2, <4>3, CapTyped, UniverseAssumption
    <3>6. q \in Scan
      BY <3>1, <3>5 DEF Scan, Scanned
    <3>7. QED
      BY <2>5, <3>6 DEF Wave, Unresolved, ConditionsAt
  <2>6. ConditionsAt(Before(p) \cup {p}) \subseteq DOMAIN sync'.looked
    BY <1>3, <2>5 DEF ConditionsAt
  <2> HIDE DEF passed
  <2>7. passed = {q \in Before(p) : Passes(ConditionAt(q))'}
    BY DEF passed
  <2>8. QED
    BY <1>10, <2>1, <2>4, <2>6, <2>7
<1>13. DOMAIN sync'.looked = ConditionsAt(Settled')
  <2>1. ConditionsAt(Settled') \subseteq DOMAIN sync'.looked
    <3>1. ASSUME NEW p \in Settled' PROVE ConditionAt(p) \in DOMAIN sync'.looked
      BY <1>5 DEF Settled, ConditionsAt
    <3>2. QED
      BY <3>1 DEF ConditionsAt
  <2>2. DOMAIN sync.looked \subseteq ConditionsAt(Settled')
    BY <1>1, <1>11 DEF ConditionsAt
  <2>3. Wave \subseteq ConditionsAt(Settled')
    BY <1>12 DEF Wave, Unresolved, ConditionsAt
  <2>4. QED
    BY <1>3, <2>1, <2>2, <2>3
<1>14. ConditionsAt(Settled)' = ConditionsAt(Settled')
  BY <1>5 DEF ConditionsAt
<1>15. QED
  BY <1>1, <1>3, <1>13, <1>14 DEF Fetched

-----------------------------------------------------------------------------
(* What the registry is built of.                                          *)

LEMMA AddedAre ==
  ASSUME Listed, Syncing
  PROVE  /\ Added \subseteq Visits /\ Added \subseteq PlacesOf(listing) /\ Added \subseteq Places
         /\ IsFiniteSet(Added) /\ Known \subseteq Conditions /\ IsFiniteSet(Known)
<1>1. Added \subseteq Visits
  BY DEF Added, Ranked, Candidates, Accepted, AcceptedIn
<1>2. IsFiniteSet(Added)
  BY <1>1, VisitsAre, FS_Subset
<1> DEFINE c == [p \in Added |-> ConditionAt(p)]
<1>3. Known = {c[p] : p \in Added}
  BY DEF Known, ConditionsAt
<1>4. IsFiniteSet({c[p] : p \in Added})
  <2> HIDE DEF c
  <2>1. QED
    BY <1>2, ValuesFinite
<1>5. Known \subseteq Conditions
  BY <1>1, VisitsAre DEF Known, ConditionsAt
<1>6. Added \subseteq PlacesOf(listing) /\ Added \subseteq Places
  BY <1>1, VisitsAre
<1>7. QED
  BY <1>1, <1>2, <1>3, <1>4, <1>5, <1>6

(* A member that was added says what every listing of its market says.     *)
LEMMA MembersSpeak ==
  ASSUME Listed, Syncing, NEW q \in Added
  PROVE  \A p \in PlacesOf(listing) : ConditionAt(p) = ConditionAt(q) => MemberAt(p) = MemberAt(q)
<1>1. q \in PlacesOf(listing)
  BY AddedAre
<1>2. \A p, r \in PlacesOf(listing) :
        ListedAt(listing, p).condition = ListedAt(listing, r).condition =>
          ListedAt(listing, p) = ListedAt(listing, r)
  BY ListedIn DEF Consistent
<1>3. QED
  BY <1>1, <1>2 DEF MemberAt, ConditionAt

LEMMA AddedOnce ==
  ASSUME Listed, Syncing, ListedOnce, NEW p \in Added, NEW q \in Added, ConditionAt(p) = ConditionAt(q)
  PROVE  p = q
BY AddedAre DEF ListedOnce, Visits

(* The indices of the markets rise with the walk.                          *)
LEMMA IndicesDiffer ==
  ASSUME Listed, Syncing, NEW p \in Added, NEW q \in Added, Index(p) = Index(q)
  PROVE  p = q
<1>1. ASSUME NEW x \in Added, NEW y \in Added, Precedes(x, y) PROVE Index(x) # Index(y)
  <2> DEFINE few == Before(x) \cap Added
             many == Before(y) \cap Added
  <2>1. x \in Places /\ y \in Places /\ Added \subseteq Visits /\ Added \subseteq Places
    BY AddedAre
  <2>2. few \subseteq many /\ x \in many
    BY <1>1, <2>1, PrecedesOrders DEF Before
  <2>3. ~Precedes(x, x)
    <3>1. x[1] \in Nat /\ x[2] \in Nat /\ x[3] \in Nat
      BY <2>1 DEF Places
    <3>2. QED
      BY <3>1 DEF Precedes
  <2>4. few # many
    BY <2>2, <2>3 DEF Before
  <2>5. many \in SUBSET Added
    OBVIOUS
  <2> HIDE DEF few, many
  <2>6. Cardinality(many) # Cardinality(few)
    BY <2>2, <2>4, <2>5, AddedAre, FS_Subset
  <2>7. QED
    BY <2>6 DEF Index, few, many
<1>2. p \in Places /\ q \in Places
  BY AddedAre
<1>3. QED
  BY <1>1, <1>2, PrecedesOrders

(* Where no condition is listed twice, an id is an index.                  *)
LEMMA IdsAreIndices ==
  ASSUME Listed, Syncing, ListedOnce, NEW p \in Added
  PROVE  Described(p) = MemberAt(p) /\ Outcome(p) = ConditionAt(p)
<1> DEFINE c == ConditionAt(p)
           met == {q \in Added : \A x \in Added : ConditionAt(x) = c => Precedes(q, x)}
           f == [q \in met |-> ConditionAt(q)]
<1>1. met = Before(p) \cap Added
  <2>1. ASSUME NEW q \in Added
        PROVE  (\A x \in Added : ConditionAt(x) = c => Precedes(q, x)) <=> Precedes(q, p)
    BY AddedOnce
  <2>2. QED
    BY <2>1, AddedAre DEF Before
<1>2. f \in Injection(met, ConditionsAt(met))
  <2>1. f \in [met -> ConditionsAt(met)]
    BY DEF ConditionsAt
  <2>2. \A q, r \in met : f[q] = f[r] => q = r
    BY AddedOnce
  <2> HIDE DEF f, met
  <2>3. QED
    BY <2>1, <2>2 DEF Injection, IsInjective
<1>3. f \in Surjection(met, ConditionsAt(met))
  <2>1. f \in [met -> ConditionsAt(met)] /\ \A x \in ConditionsAt(met) : \E q \in met : f[q] = x
    BY DEF ConditionsAt
  <2> HIDE DEF f, met
  <2>2. QED
    BY <2>1 DEF Surjection
<1>4. IsFiniteSet(met)
  BY AddedAre, FS_Subset
<1> HIDE DEF f
<1>5. Cardinality(ConditionsAt(met)) = Cardinality(met)
  <2> HIDE DEF met
  <2>1. QED
    BY <1>2, <1>3, <1>4, FS_Surjection
<1>6. IdOf(c) = Index(p)
  BY <1>1, <1>5 DEF IdOf, Index
<1>7. (CHOOSE q \in Added : Index(q) = IdOf(c)) = p
  BY <1>6, IndicesDiffer
<1>8. QED
  BY <1>7 DEF Described, Outcome, ConditionAt

(* Where one is, some market is there at the least.                        *)
LEMMA CountsPlaces ==
  ASSUME NEW S, IsFiniteSet(S), NEW f
  PROVE  Counted([x \in {f[q] : q \in S} |-> Cardinality({q \in S : f[q] = x})])
<1>1. IsFiniteSet({f[q] : q \in S})
  BY ValuesFinite
<1>2. ASSUME NEW x \in {f[q] : q \in S} PROVE Cardinality({q \in S : f[q] = x}) \in Nat \ {0}
  <2> DEFINE T == {q \in S : f[q] = x}
  <2>1. T \in SUBSET S /\ T # {}
    OBVIOUS
  <2> HIDE DEF T
  <2>2. IsFiniteSet(T)
    BY <2>1, FS_Subset
  <2>3. Cardinality(T) \in Nat /\ 1 <= Cardinality(T)
    BY <2>1, <2>2, NotEmpty, FS_CardinalityType
  <2>4. QED
    BY <2>3 DEF T
<1>3. QED
  BY <1>1, <1>2 DEF Counted

LEMMA PartitionsBuilt ==
  ASSUME Listed, Syncing, NEW e, NEW o, o = PartitionOf(MembersIn(e)), LengthOf(o.outcomes) >= 2,
         o.exhaustive \/ o.negRisk
  PROVE  /\ Counted(o.outcomes) /\ o.exhaustive \in BOOLEAN
         /\ ListedOnce => PartitionSound([markets |-> o.markets, outcomes |-> o.outcomes,
                                         exhaustive |-> o.exhaustive])
<1> DEFINE members == MembersIn(e)
           f == [q \in members |-> Outcome(q)]
<1>1. members \subseteq Added /\ IsFiniteSet(members)
  BY AddedAre, FS_Subset DEF MembersIn
<1>2. /\ o.markets = ConditionsAt(members)
      /\ o.outcomes = [c \in {Outcome(q) : q \in members} |-> Cardinality({q \in members : Outcome(q) = c})]
      /\ o.negRisk = (\E q \in members : Described(q).negRisk)
      /\ o.exhaustive = (Reasons(members) = {})
  BY DEF PartitionOf
<1>3. Counted(o.outcomes)
  <2>1. o.outcomes = [x \in {f[q] : q \in members} |-> Cardinality({q \in members : f[q] = x})]
    <3>1. {f[q] : q \in members} = {Outcome(q) : q \in members}
      OBVIOUS
    <3>2. ASSUME NEW x PROVE {q \in members : f[q] = x} = {q \in members : Outcome(q) = x}
      OBVIOUS
    <3> DEFINE dom == {f[q] : q \in members}
               read(x) == Cardinality({q \in members : f[q] = x})
               named(x) == Cardinality({q \in members : Outcome(q) = x})
    <3>3. ASSUME NEW x PROVE read(x) = named(x)
      BY <3>2
    <3>4. o.outcomes = [x \in dom |-> named(x)]
      BY <1>2, <3>1
    <3> HIDE DEF dom, read, named
    <3>5. o.outcomes = [x \in dom |-> read(x)]
      BY <3>3, <3>4
    <3>6. QED
      BY <3>5 DEF dom, read
  <2> HIDE DEF f, members
  <2>2. QED
    BY <1>1, <2>1, CountsPlaces
<1>4. ASSUME ListedOnce
      PROVE  PartitionSound([markets |-> o.markets, outcomes |-> o.outcomes, exhaustive |-> o.exhaustive])
  <2> HIDE DEF members
  <2>1. \A q \in members : Described(q) = MemberAt(q) /\ Outcome(q) = ConditionAt(q)
    BY <1>1, <1>4, IdsAreIndices
  <2>2. ASSUME NEW q \in members PROVE {x \in members : Outcome(x) = ConditionAt(q)} = {q}
    BY <1>1, <1>4, <2>1, AddedOnce
  <2>3. {Outcome(q) : q \in members} = o.markets
    BY <1>2, <2>1 DEF ConditionsAt
  <2>4. ASSUME NEW c \in o.markets PROVE Cardinality({x \in members : Outcome(x) = c}) = 1
    <3>1. PICK q \in members : c = ConditionAt(q)
      BY <1>2 DEF ConditionsAt
    <3>2. {x \in members : Outcome(x) = c} = {q}
      BY <2>2, <3>1
    <3>3. QED
      BY <3>2, FS_Singleton
  <2>5. o.outcomes = [c \in o.markets |-> 1]
    BY <1>2, <2>3, <2>4
  <2>6. Cardinality(o.markets) >= 2
    <3>1. IsFiniteSet(o.markets)
      BY <1>3, <2>5 DEF Counted
    <3>2. QED
      BY <2>5, <3>1, OnceLanes
  <2>7. o.exhaustive => /\ \A q \in members : Outcome(q) \in Open /\ Described(q).question = "named"
                        /\ \E q \in members : Described(q).negRisk
    BY <1>2 DEF Reasons
  <2>8. o.exhaustive => \A c \in o.markets : Outright(c)
    <3>1. SUFFICES ASSUME o.exhaustive, NEW c \in o.markets PROVE Outright(c)
      OBVIOUS
    <3>2. PICK q \in members : c = ConditionAt(q)
      BY <1>2 DEF ConditionsAt
    <3>3. c \in Open /\ MemberAt(q).question = "named"
      BY <2>1, <2>7, <3>1, <3>2
    <3>4. \A x \in PlacesOf(listing) : ConditionAt(x) = c => MemberAt(x) = MemberAt(q)
      BY <1>1, <3>2, MembersSpeak
    <3>5. QED
      BY <3>3, <3>4 DEF Outright
  <2>9. \E c \in o.markets : Flagged(c)
    <3>1. PICK q \in members : Described(q).negRisk
      BY <1>2, <2>7
    <3>2. ConditionAt(q) \in o.markets /\ MemberAt(q).negRisk
      BY <1>2, <2>1, <3>1 DEF ConditionsAt
    <3>3. \A x \in PlacesOf(listing) : ConditionAt(x) = ConditionAt(q) => MemberAt(x) = MemberAt(q)
      BY <1>1, MembersSpeak
    <3>4. Flagged(ConditionAt(q))
      BY <3>2, <3>3 DEF Flagged
    <3>5. QED
      BY <3>2, <3>4
  <2>10. QED
    BY <2>5, <2>6, <2>8, <2>9 DEF PartitionSound
<1>5. QED
  BY <1>2, <1>3, <1>4

LEMMA EntryBuilt ==
  ASSUME Listed, Syncing, ~FileRefused, NEW m \in Known
  PROVE  ComponentBuilt(Entry(ComponentOf(m)))
<1> DEFINE ms == ComponentOf(m)
<1>1. ms \subseteq Known /\ Entry(ms).markets = ms /\ Entry(ms).listed = [c \in ms |-> TimesIn(Added, c)]
  BY DEF ComponentOf, Entry
<1>2. ms \subseteq Conditions /\ IsFiniteSet(ms)
  BY <1>1, AddedAre, FS_Subset
<1>3. ASSUME NEW p \in Entry(ms).partitions PROVE PartitionBuilt(Entry(ms), p)
  <2> HIDE DEF ms
  <2>1. PICK o \in Partitions :
          /\ p = [markets |-> o.markets, outcomes |-> o.outcomes, exhaustive |-> o.exhaustive]
          /\ o.markets \subseteq ms /\ LengthOf(o.outcomes) >= 2
          /\ o.exhaustive \/ (NegRiskSets /\ o.negRisk)
    BY DEF Entry
  <2>2. PICK e : o = PartitionOf(MembersIn(e))
    BY DEF Partitions
  <2>3. /\ Counted(o.outcomes) /\ o.exhaustive \in BOOLEAN
        /\ ListedOnce => PartitionSound(p)
    BY <2>1, <2>2, PartitionsBuilt
  <2>4. QED
    BY <1>1, <2>1, <2>3 DEF PartitionBuilt
<1>4. ASSUME NEW r \in Entry(ms).relations PROVE RelationBuilt(Entry(ms), r)
  <2>1. r \in Relations /\ r.a \in ms
    BY DEF Entry
  <2>2. PICK i \in ApprovedRows : /\ r = [kind |-> sync.file[i].kind, a |-> sync.file[i].a, b |-> sync.file[i].b]
                              /\ Resolved(sync.file[i])
    BY <2>1 DEF Relations
  <2>3. r.kind \in {"Implies", "MutuallyExclusive", "Equivalent"} /\ r.a # r.b
    BY <2>2 DEF FileRefused
  <2>4. r.b \in Known
    BY <2>2 DEF Resolved
  <2>5. r.b \in ms
    <3>1. SUFFICES ASSUME NEW s \in SUBSET Known, m \in s,
                          \A l \in Links : l \cap s # {} => l \subseteq s
                   PROVE  r.b \in s
      BY <2>4 DEF ComponentOf
    <3>2. r.a \in s
      BY <2>1, <3>1 DEF ComponentOf
    <3>3. {r.a, r.b} \in Links
      BY <2>1 DEF Links
    <3>4. QED
      BY <3>1, <3>2, <3>3
  <2>6. QED
    BY <1>1, <2>1, <2>3, <2>5 DEF RelationBuilt
<1>5. Counted(Entry(ms).listed)
  <2> HIDE DEF ms
  <2> DEFINE f == [q \in Added |-> ConditionAt(q)]
  <2>1. Counted([x \in {f[q] : q \in Added} |-> Cardinality({q \in Added : f[q] = x})])
    <3> HIDE DEF f
    <3>1. QED
      BY AddedAre, CountsPlaces
  <2>2. Known = {f[q] : q \in Added} /\ \A x : TimesIn(Added, x) = Cardinality({q \in Added : f[q] = x})
    BY DEF Known, ConditionsAt, TimesIn
  <2> HIDE DEF f
  <2>3. \A x \in ms : TimesIn(Added, x) \in Nat \ {0}
    BY <1>1, <2>1, <2>2 DEF Counted
  <2>4. QED
    BY <1>1, <1>2, <2>3 DEF Counted
<1>6. QED
  BY <1>1, <1>2, <1>3, <1>4, <1>5 DEF ComponentBuilt

-----------------------------------------------------------------------------
(* Every step of the synchronisation and of the detectors.                 *)

UniverseInv ==
  /\ Listed
  /\ sync = NoSync \/ (Syncing /\ Fetched)
  /\ \A c \in registry.components : ComponentBuilt(c)
  /\ DetectorInv

LEMMA UniverseStarts ==
  ASSUME UniverseInit
  PROVE  UniverseInv
<1>1. PICK s \in Scenarios :
        /\ listing = s.listing
        /\ sync = [phase |-> "pages", page |-> 0, listed |-> {}, looked |-> <<>>,
                   file |-> s.file, filter |-> s.filter]
  BY DEF UniverseInit
<1>2. Syncing /\ Fetched
  <2>1. DOMAIN sync.looked = {} /\ sync.looked \in Lookups
    <3>1. <<>> \in [{} -> {"found", "failed"}]
      OBVIOUS
    <3>2. QED
      BY <1>1, <3>1 DEF Lookups
  <2>2. QED
    BY <1>1, <2>1 DEF Syncing, Fetched
<1>3. registry.components = {}
  BY DEF UniverseInit, Without
<1>4. DetectorInv
  BY DEF UniverseInit, NothingDetected, DetectorInv, LimitsStillPay
<1>5. QED
  BY <1>1, <1>2, <1>3, <1>4 DEF UniverseInv, Listed

(* What the synchronisation does not touch, and what it builds.            *)
LEMMA DetectorKept ==
  ASSUME DetectorInv, UNCHANGED <<listing, engineVars>>
  PROVE  DetectorInv'
<1>1. /\ listing' = listing /\ setup' = setup /\ basket' = basket /\ opp' = opp
      /\ cur' = cur /\ segs' = segs /\ units' = units /\ used' = used
  BY DEF engineVars, walking
<1>2. ASSUME setup # NoSetup PROVE SetupBuilt'
  BY <1>1, <1>2, SetupKept DEF DetectorInv
<1>3. ASSUME basket # NoBasket PROVE Walked'
  BY <1>1, <1>3, WalkKept DEF DetectorInv, walking
<1>4. ASSUME opp # NothingFound, ListedOnce' PROVE PaysIn(EnumerateWorlds(comp))'
  <2>1. PaysNet(opp, EnumerateWorlds(comp))
    BY <1>1, <1>4, OnceKept DEF DetectorInv, PaysIn, PaysNet
  <2>2. QED
    BY <1>1, <2>1, PayingKept
<1>5. LimitsStillPay'
  BY <1>1 DEF DetectorInv, LimitsStillPay, Legs, ScaledLegCost, FeeBase
<1>6. QED
  BY <1>1, <1>2, <1>3, <1>4, <1>5 DEF DetectorInv

(* Before anything is looked up, nothing is gated.                         *)
LEMMA NothingSettled ==
  ASSUME DOMAIN sync'.looked = {}
  PROVE  ConditionsAt(Settled)' = {}
<1>1. ASSUME NEW p \in Settled' PROVE FALSE
  <2>1. ConditionsAt(Before(p) \cup {p})' \subseteq {}
    BY DEF Settled
  <2>2. ConditionAt(p)' \in ConditionsAt(Before(p) \cup {p})'
    BY DEF ConditionsAt
  <2>3. QED
    BY <2>1, <2>2
<1>2. QED
  BY <1>1 DEF ConditionsAt

(* A step of the synchronisation.                                          *)
LEMMA SyncStep ==
  ASSUME UniverseInv, ReadPage \/ PagesRead \/ ReadFavoured \/ ReadFails \/ LookUp \/ Assemble
  PROVE  UniverseInv'
<1>1. listing' = listing /\ UNCHANGED engineVars
  BY DEF ReadPage, PagesRead, ReadFavoured, ReadFails, LookUp, Assemble
<1>2. DetectorInv' /\ Listed'
  BY <1>1, DetectorKept DEF UniverseInv, Listed
<1>3. \A c : ComponentBuilt(c) => ComponentBuilt(c)'
  BY <1>1, ComponentKept
<1>4. Syncing /\ Fetched /\ Listed
  BY DEF UniverseInv, ReadPage, PagesRead, ReadFavoured, ReadFails, LookUp, Assemble, NoSync
<1>5. \A c \in registry.components : ComponentBuilt(c)
  BY DEF UniverseInv
<1>6. ASSUME registry' = registry \/ registry'.components = {}
      PROVE  (\A c \in registry.components : ComponentBuilt(c))'
  BY <1>3, <1>5, <1>6
<1>7. CASE ReadPage
  <2>1. /\ sync' = [sync EXCEPT !.page = @ + 1, !.listed = @ \cup PlacesOn(listing, sync.page + 1)]
        /\ sync.phase = "pages" /\ sync.page # Len(listing) /\ registry' = registry
    BY <1>7 DEF ReadPage, PagesDone
  <2>2. sync.page \in 0 .. Len(listing) /\ listing \in Seq(Seq(ListedEvent))
    BY <1>4, ListedIn DEF Syncing
  <2>3. sync.page + 1 \in DOMAIN listing /\ sync.page + 1 \in 0 .. Len(listing)
    BY <2>1, <2>2
  <2>4. PlacesOn(listing, sync.page + 1) \subseteq PlacesOf(listing)
    BY <2>3 DEF PlacesOf
  <2>5. Syncing'
    BY <1>1, <1>4, <2>1, <2>3, <2>4 DEF Syncing
  <2>6. sync'.phase = "pages" /\ sync'.looked = sync.looked
    BY <1>4, <2>1 DEF Syncing
  <2>7. Fetched'
    BY <1>4, <2>1, <2>6 DEF Fetched
  <2>8. QED
    BY <1>2, <1>6, <2>1, <2>5, <2>7 DEF UniverseInv
<1>8. CASE PagesRead \/ ReadFavoured
  <2>1. PICK places \in SUBSET PlacesOf(listing) :
          /\ sync' = [sync EXCEPT !.listed = places, !.phase = "lookups"]
          /\ sync.phase = "pages" /\ registry' = registry
    <3>1. CASE PagesRead
      <4>1. sync' = [sync EXCEPT !.phase = "lookups"] /\ sync.phase = "pages" /\ registry' = registry
        BY <3>1 DEF PagesRead
      <4>2. sync' = [sync EXCEPT !.listed = sync.listed, !.phase = "lookups"]
        BY <1>4, <4>1 DEF Syncing
      <4>3. sync.listed \in SUBSET PlacesOf(listing)
        BY <1>4 DEF Syncing
      <4>4. QED
        BY <4>1, <4>2, <4>3
    <3>2. CASE ReadFavoured
      BY <3>2 DEF ReadFavoured
    <3>3. QED
      BY <1>8, <3>1, <3>2
  <2>2. Syncing' /\ sync'.phase = "lookups" /\ sync'.looked = sync.looked
    BY <1>1, <1>4, <2>1 DEF Syncing
  <2>3. DOMAIN sync'.looked = {}
    BY <1>4, <2>1, <2>2 DEF Fetched
  <2>4. Fetched'
    BY <2>2, <2>3, NothingSettled DEF Fetched
  <2>5. QED
    BY <1>2, <1>6, <2>1, <2>2, <2>4 DEF UniverseInv
<1>9. CASE ReadFails
  <2>1. sync' = NoSync' /\ registry'.components = {}
    BY <1>9 DEF ReadFails, Without, NoSync
  <2>2. QED
    BY <1>2, <1>6, <2>1 DEF UniverseInv
<1>10. CASE LookUp
  <2>1. Fetched' /\ registry' = registry
    BY <1>4, <1>10, LookUpStep DEF LookUp
  <2>2. PICK failed \in SUBSET (Wave \cap Unsteady) :
          sync' = [sync EXCEPT !.looked =
                     [c \in DOMAIN @ \cup Wave |->
                        IF c \in DOMAIN @ THEN @[c] ELSE IF c \in failed THEN "failed" ELSE "found"]]
    BY <1>10 DEF LookUp
  <2> DEFINE f == [c \in DOMAIN sync.looked \cup Wave |->
                     IF c \in DOMAIN sync.looked THEN sync.looked[c]
                     ELSE IF c \in failed THEN "failed" ELSE "found"]
  <2>3. f \in Lookups
    <3>1. PICK cs \in SUBSET Conditions : sync.looked \in [cs -> {"found", "failed"}]
      BY <1>4 DEF Syncing, Lookups
    <3>2. Wave \subseteq Conditions
      <4>1. Scan \subseteq Visits
        BY DEF Scan, Scanned
      <4>2. Wave \subseteq ConditionsAt(Visits)
        BY <4>1 DEF Wave, Unresolved, ConditionsAt
      <4>3. QED
        BY <1>4, <4>2, VisitsAre
    <3>3. f \in [cs \cup Wave -> {"found", "failed"}] /\ cs \cup Wave \in SUBSET Conditions
      BY <3>1, <3>2
    <3> HIDE DEF f
    <3>4. QED
      BY <3>3 DEF Lookups
  <2>4. sync' = [sync EXCEPT !.looked = f]
    BY <2>2
  <2> HIDE DEF f
  <2>5. Syncing'
    BY <1>1, <1>4, <2>3, <2>4 DEF Syncing
  <2>6. QED
    BY <1>2, <1>6, <2>1, <2>5 DEF UniverseInv
<1>11. CASE Assemble
  <2>1. sync' = NoSync'
    BY <1>11 DEF Assemble, NoSync
  <2>2. CASE ~FileRefused
    <3>1. registry'.components = {Entry(ms) : ms \in {ComponentOf(m) : m \in Known}}
      BY <1>11, <2>2 DEF Assemble
    <3>2. \A c \in registry'.components : ComponentBuilt(c)
      BY <1>4, <2>2, <3>1, EntryBuilt
    <3>3. (\A c \in registry.components : ComponentBuilt(c))'
      BY <1>3, <3>2
    <3>4. QED
      BY <1>2, <2>1, <3>3 DEF UniverseInv
  <2>3. CASE FileRefused
    <3>1. registry'.components = {}
      BY <1>11, <2>3 DEF Assemble, Without
    <3>2. QED
      BY <1>2, <1>6, <2>1, <3>1 DEF UniverseInv
  <2>4. QED
    BY <2>2, <2>3
<1>12. QED
  BY <1>7, <1>8, <1>9, <1>10, <1>11

LEMMA BooksStep ==
  ASSUME UniverseInv, BooksArrive
  PROVE  UniverseInv'
<1>1. PICK c \in registry.components, f \in Fees :
        /\ Cardinality(c.markets) \in DOMAIN Shapes
        /\ \E b \in [TokensOf(c.markets) -> Shapes[Cardinality(c.markets)]] :
             setup' = [component |-> c, fee |-> f, books |-> b]
  BY DEF BooksArrive
<1>2. PICK b \in [TokensOf(c.markets) -> Shapes[Cardinality(c.markets)]] :
        setup' = [component |-> c, fee |-> f, books |-> b]
  BY <1>1
<1>3. /\ listing' = listing /\ sync' = sync /\ registry' = registry
      /\ basket' = basket /\ opp' = opp /\ setup = NoSetup
  BY DEF BooksArrive, universeVars
<1>4. basket' = NoBasket' /\ opp' = NothingFound'
  BY <1>3 DEF UniverseInv, DetectorInv, NoBasket, NothingFound
<1>5. \A x : ComponentBuilt(x) => ComponentBuilt(x)'
  BY <1>3, ComponentKept
<1>6. ComponentBuilt(c)
  BY DEF UniverseInv
<1>7. /\ comp' = c /\ setup'.fee = f /\ setup'.books = b
  BY <1>2 DEF comp
<1>8. DOMAIN b = TokensOf(c.markets) /\ \A t \in TokensOf(c.markets) : IsBook(b[t])
  BY <1>1, UniverseAssumption
<1>9. SetupBuilt'
  BY <1>5, <1>6, <1>7, <1>8, UniverseAssumption DEF SetupBuilt
<1>10. DetectorInv'
  BY <1>4, <1>9 DEF DetectorInv, LimitsStillPay
<1>11. (Syncing /\ Fetched)' <=> (Syncing /\ Fetched)
  BY <1>3 DEF Syncing, Fetched, ConditionsAt, ConditionAt, MemberAt, ListedAt, Settled, Visits, Before, Reached,
              AcceptedIn, Passes, Cap, Pool
<1>12. QED
  BY <1>3, <1>5, <1>10, <1>11 DEF UniverseInv, Listed, NoSync

LEMMA DetectorsStep ==
  ASSUME UniverseInv, DetectorStep
  PROVE  UniverseInv'
<1>1. listing' = listing /\ sync' = sync /\ registry' = registry
  BY DEF DetectorStep, universeVars
<1>2. DetectorInv'
  BY <1>1, DetectionStep DEF DetectorStep, UniverseInv
<1>3. \A x : ComponentBuilt(x) => ComponentBuilt(x)'
  BY <1>1, ComponentKept
<1>4. (Syncing /\ Fetched)' <=> (Syncing /\ Fetched)
  BY <1>1 DEF Syncing, Fetched, ConditionsAt, ConditionAt, MemberAt, ListedAt, Settled, Visits, Before, Reached,
              AcceptedIn, Passes, Cap, Pool
<1>5. QED
  BY <1>1, <1>2, <1>3, <1>4 DEF UniverseInv, Listed, NoSync

LEMMA UniverseStays ==
  ASSUME UniverseInv, [UniverseNext]_allVars
  PROVE  UniverseInv'
<1>1. CASE ReadPage \/ PagesRead \/ ReadFavoured \/ ReadFails \/ LookUp \/ Assemble
  BY <1>1, SyncStep
<1>2. CASE BooksArrive
  BY <1>2, BooksStep
<1>3. CASE DetectorStep
  BY <1>3, DetectorsStep
<1>4. CASE UNCHANGED allVars
  <2>1. listing' = listing /\ sync' = sync /\ registry' = registry /\ UNCHANGED engineVars
    BY <1>4 DEF allVars, universeVars
  <2>2. DetectorInv'
    BY <2>1, DetectorKept DEF UniverseInv
  <2>3. \A x : ComponentBuilt(x) => ComponentBuilt(x)'
    BY <2>1, ComponentKept
  <2>4. (Syncing /\ Fetched)' <=> (Syncing /\ Fetched)
    BY <2>1 DEF Syncing, Fetched, ConditionsAt, ConditionAt, MemberAt, ListedAt, Settled, Visits, Before, Reached,
                AcceptedIn, Passes, Cap, Pool
  <2>5. QED
    BY <2>1, <2>2, <2>3, <2>4 DEF UniverseInv, Listed, NoSync
<1>5. QED
  BY <1>1, <1>2, <1>3, <1>4 DEF UniverseNext

\* The registry, the baskets and the walk are what the detectors rely on, in
\* every state (sync_once, build_component_index, walker.rs).
LEMMA UniverseHolds == UniverseSpec => []UniverseInv
<1>1. QED
  BY UniverseStarts, UniverseStays, PTL DEF UniverseSpec

\* Whatever its events resolve to, an opportunity pays at least the net it is
\* sent with, and sells no share that it does not have, for any books and any
\* listing that has no condition twice, when the events of its partitions were
\* taken whole (derive_partition, load_relationships, walker.rs,
\* exact_worst_net).
THEOREM PaysWhateverResolves == UniverseSpec => []Riskless
<1>1. ASSUME UniverseInv PROVE Riskless
  <2>1. SUFFICES ASSUME opp # NothingFound, TakenWhole, ListedOnce PROVE PaysIn(Verdicts)
    BY DEF Riskless
  <2>2. PaysIn(EnumerateWorlds(comp)) /\ SetupBuilt /\ Listed
    BY <1>1, <2>1 DEF UniverseInv, DetectorInv
  <2>3. Verdicts \subseteq EnumerateWorlds(comp)
    BY <2>1, <2>2, VerdictsAreWorlds DEF SetupBuilt
  <2>4. QED
    BY <2>2, <2>3 DEF PaysIn
<1>2. QED
  BY <1>1, UniverseHolds, PTL

\* If every leg of a walked basket fills at its limit, the basket still gains
\* before gas, for any books (walker.rs).
THEOREM LimitsAlwaysPay == UniverseSpec => []LimitsStillPay
<1>1. UniverseInv => LimitsStillPay
  BY DEF UniverseInv, DetectorInv
<1>2. QED
  BY <1>1, UniverseHolds, PTL

\* The waves look up what a sequential walk would and nothing else, whatever
\* is listed and whichever lookups fail (fetch_clob_bounded).
THEOREM FetchesTheWalk == UniverseSpec => []FetchIsTheWalk
<1>1. ASSUME UniverseInv PROVE FetchIsTheWalk
  <2>1. CASE Syncing /\ Fetched
    BY <1>1, <2>1, FetchedWalk DEF UniverseInv
  <2>2. CASE sync = NoSync
    BY <2>2 DEF NoSync, FetchIsTheWalk
  <2>3. QED
    BY <1>1, <2>1, <2>2 DEF UniverseInv
<1>2. QED
  BY <1>1, UniverseHolds, PTL

-----------------------------------------------------------------------------
(* The cost of a ladder is convex: what the first shares cost.             *)

Upto(q, i) == Total(q, 1 .. i - 1)

\* what level i gives of the first u shares
Part(q, i, u) == Lesser(q[i], IF u > Upto(q, i) THEN u - Upto(q, i) ELSE 0)

LEMMA UptoStep ==
  ASSUME NEW n \in Nat, NEW q, \A j \in 1 .. n : q[j] \in Nat, NEW i \in 1 .. n
  PROVE  /\ Upto(q, i) \in Nat /\ Upto(q, i + 1) \in Nat /\ Upto(q, i + 1) = Upto(q, i) + q[i]
         /\ Upto(q, 1) = 0
<1>1. ASSUME NEW k \in 0 .. n PROVE Total(q, 1 .. k) \in Nat
  <2>1. IsFiniteSet(1 .. k)
    BY FS_Interval
  <2>2. \A j \in 1 .. k : q[j] \in Nat
    OBVIOUS
  <2>3. QED
    BY <2>1, <2>2, TotalType
<1>2. PICK m \in Nat : i = m + 1
  <2>1. i - 1 \in Nat /\ i = (i - 1) + 1
    OBVIOUS
  <2>2. QED
    BY <2>1
<1>3. Total(q, 1 .. m + 1) = Total(q, 1 .. m) + q[m + 1]
  <2>1. \A j \in 1 .. m + 1 : q[j] \in Int
    BY <1>2
  <2>2. QED
    BY <1>2, <2>1, TotalUpTo
<1>4. Upto(q, i) = Total(q, 1 .. m) /\ Upto(q, i + 1) = Total(q, 1 .. m + 1)
  <2>1. i - 1 = m /\ (i + 1) - 1 = m + 1
    BY <1>2
  <2>2. QED
    BY <2>1 DEF Upto
<1>5. Upto(q, 1) = 0
  <2>1. 1 .. 1 - 1 = {}
    OBVIOUS
  <2>2. QED
    BY <2>1, TotalEmpty DEF Upto
<1>6. m \in 0 .. n /\ m + 1 \in 0 .. n
  BY <1>2
<1>7. QED
  BY <1>1, <1>2, <1>3, <1>4, <1>5, <1>6

LEMMA UptoGrows ==
  ASSUME NEW n \in Nat, NEW q, \A j \in 1 .. n : q[j] \in Nat, NEW i \in 1 .. n + 1, NEW k \in 1 .. n + 1, i <= k
  PROVE  Upto(q, i) \in Nat /\ Upto(q, k) \in Nat /\ Upto(q, i) <= Upto(q, k)
<1> DEFINE S == 1 .. k - 1
           A == 1 .. i - 1
           B == S \ A
<1>1. IsFiniteSet(S) /\ IsFiniteSet(A) /\ IsFiniteSet(B)
  <2>1. IsFiniteSet(S) /\ IsFiniteSet(A)
    BY FS_Interval
  <2>2. QED
    BY <2>1, FS_Difference
<1>2. A \in SUBSET S /\ B \in SUBSET S /\ A \cap B = {} /\ A \cup B = S
  OBVIOUS
<1>3. \A j \in S : q[j] \in Nat
  OBVIOUS
<1> HIDE DEF S, A, B
<1>4. \A j \in S : q[j] \in Int
  BY <1>3
<1>5. Total(q, S) = Total(q, A) + Total(q, B)
  BY <1>1, <1>2, <1>4, TotalParts
<1>6. Total(q, A) \in Nat /\ Total(q, B) \in Nat /\ Total(q, S) \in Nat
  BY <1>1, <1>2, <1>3, TotalType
<1>7. Upto(q, i) = Total(q, A) /\ Upto(q, k) = Total(q, S)
  BY DEF Upto, S, A
<1>8. QED
  BY <1>5, <1>6, <1>7

LEMMA PartTyped ==
  ASSUME NEW n \in Nat, NEW q, \A j \in 1 .. n : q[j] \in Nat, NEW i \in 1 .. n, NEW u \in Nat
  PROVE  /\ Part(q, i, u) \in Nat /\ Part(q, i, u) <= q[i]
         /\ u <= Upto(q, i) => Part(q, i, u) = 0
         /\ Upto(q, i + 1) <= u => Part(q, i, u) = q[i]
<1>1. Upto(q, i) \in Nat /\ Upto(q, i + 1) = Upto(q, i) + q[i] /\ q[i] \in Nat
  BY UptoStep
<1>2. QED
  BY <1>1 DEF Part, Lesser

LEMMA LessersAdd ==
  ASSUME NEW u \in Nat, NEW a \in Nat, NEW b \in Nat
  PROVE  Lesser(u, a) + Lesser(b, IF u > a THEN u - a ELSE 0) = Lesser(u, a + b)
BY DEF Lesser

(* The levels give all of the shares there are.                            *)
LEMMA PartsFill ==
  ASSUME NEW n \in Nat, NEW q, \A j \in 1 .. n : q[j] \in Nat, NEW u \in Nat, u <= Upto(q, n + 1),
         NEW f, \A j \in 1 .. n : f[j] = Part(q, j, u)
  PROVE  Total(f, 1 .. n) = u
<1> DEFINE Bad == {m \in 0 .. n : Total(f, 1 .. m) # Lesser(u, Upto(q, m + 1))}
<1>1. ASSUME NEW m \in Bad, \A k \in Bad : m <= k PROVE FALSE
  <2>1. m \in 0 .. n /\ Total(f, 1 .. m) # Lesser(u, Upto(q, m + 1))
    OBVIOUS
  <2>2. m # 0
    <3>1. 1 .. 0 = {} /\ Total(f, {}) = 0
      BY TotalEmpty
    <3>2. Upto(q, 0 + 1) = 0
      <4>1. 1 .. (0 + 1) - 1 = {}
        OBVIOUS
      <4>2. QED
        BY <4>1, TotalEmpty DEF Upto
    <3>3. Total(f, 1 .. 0) = Lesser(u, Upto(q, 0 + 1))
      BY <3>1, <3>2 DEF Lesser
    <3>4. QED
      BY <2>1, <3>3
  <2>3. PICK k \in 0 .. n : m = k + 1
    <3>1. m - 1 \in 0 .. n /\ m = (m - 1) + 1
      BY <2>1, <2>2
    <3>2. QED
      BY <3>1
  <2>4. Total(f, 1 .. k) = Lesser(u, Upto(q, k + 1))
    <3>1. k \notin Bad
      BY <1>1, <2>3
    <3>2. QED
      BY <3>1
  <2>5. Total(f, 1 .. k + 1) = Total(f, 1 .. k) + f[k + 1]
    <3>1. ASSUME NEW i \in 1 .. k + 1 PROVE f[i] \in Int
      <4>1. i \in 1 .. n /\ f[i] = Part(q, i, u)
        BY <2>1, <2>3
      <4>2. QED
        BY <4>1, PartTyped
    <3>2. k \in Nat
      OBVIOUS
    <3>3. QED
      BY <3>1, <3>2, TotalUpTo
  <2>6. f[k + 1] = Part(q, k + 1, u) /\ k + 1 \in 1 .. n
    BY <2>1, <2>3
  <2>7. /\ Upto(q, k + 1) \in Nat /\ q[k + 1] \in Nat
        /\ Upto(q, (k + 1) + 1) = Upto(q, k + 1) + q[k + 1]
    BY <2>6, UptoStep
  <2>8. Lesser(u, Upto(q, k + 1)) + Part(q, k + 1, u) = Lesser(u, Upto(q, k + 1) + q[k + 1])
    BY <2>7, LessersAdd DEF Part
  <2>9. QED
    BY <2>1, <2>3, <2>4, <2>5, <2>6, <2>7, <2>8
<1>2. Bad = {}
  <2>1. SUFFICES ASSUME Bad # {} PROVE FALSE
    OBVIOUS
  <2>2. Bad \subseteq Nat
    OBVIOUS
  <2> HIDE DEF Bad
  <2>3. PICK m \in Bad : \A k \in Bad : m <= k
    BY <2>1, <2>2, LeastExists
  <2>4. QED
    BY <1>1, <2>3
<1>3. Total(f, 1 .. n) = Lesser(u, Upto(q, n + 1))
  BY <1>2
<1>4. Upto(q, n + 1) \in Nat
  BY UptoGrows
<1>5. QED
  BY <1>3, <1>4 DEF Lesser

LEMMA SignsMultiply ==
  ASSUME NEW a \in Int, NEW b \in Int, (0 <= a /\ 0 <= b) \/ (a <= 0 /\ b <= 0)
  PROVE  0 <= a * b
OBVIOUS

(* From any size on a level, the shares more or less cost at least the     *)
(* price of that level each.                                               *)
LEMMA CostConvex ==
  ASSUME NEW n \in Nat, NEW q, \A j \in 1 .. n : q[j] \in Nat,
         NEW c, \A j \in 1 .. n : c[j] \in Int, \A j, k \in 1 .. n : j <= k => c[j] <= c[k],
         NEW u \in Nat, u <= Upto(q, n + 1), NEW v \in Nat, v <= Upto(q, n + 1),
         NEW i \in 1 .. n, Upto(q, i) <= v, v <= Upto(q, i + 1),
         NEW cu, \A j \in 1 .. n : cu[j] = c[j] * Part(q, j, u),
         NEW cv, \A j \in 1 .. n : cv[j] = c[j] * Part(q, j, v)
  PROVE  /\ Total(cu, 1 .. n) \in Int /\ Total(cv, 1 .. n) \in Int
         /\ Total(cv, 1 .. n) + c[i] * (u - v) <= Total(cu, 1 .. n)
<1> DEFINE S == 1 .. n
           pu == [j \in S |-> Part(q, j, u)]
           pv == [j \in S |-> Part(q, j, v)]
           iu == [j \in S |-> c[i] * pu[j]]
           iv == [j \in S |-> c[i] * pv[j]]
           lo == [j \in S |-> cv[j] + iu[j]]
           hi == [j \in S |-> cu[j] + iv[j]]
<1>1. IsFiniteSet(S)
  BY FS_Interval
<1>2. ASSUME NEW j \in S
      PROVE  /\ pu[j] \in Int /\ pv[j] \in Int /\ cu[j] \in Int /\ cv[j] \in Int
             /\ iu[j] \in Int /\ iv[j] \in Int /\ lo[j] \in Int /\ hi[j] \in Int
             /\ lo[j] = cv[j] + iu[j] /\ hi[j] = cu[j] + iv[j]
             /\ iu[j] = c[i] * pu[j] /\ iv[j] = c[i] * pv[j]
  <2>1. pu[j] \in Int /\ pv[j] \in Int
    BY PartTyped
  <2>2. c[j] \in Int /\ c[i] \in Int /\ cu[j] = c[j] * pu[j] /\ cv[j] = c[j] * pv[j]
    OBVIOUS
  <2>3. /\ iu[j] = c[i] * pu[j] /\ iv[j] = c[i] * pv[j]
        /\ lo[j] = cv[j] + iu[j] /\ hi[j] = cu[j] + iv[j]
    OBVIOUS
  <2> HIDE DEF pu, pv, iu, iv, lo, hi
  <2>4. cu[j] \in Int /\ cv[j] \in Int /\ iu[j] \in Int /\ iv[j] \in Int
    BY <2>1, <2>2, <2>3
  <2>5. QED
    BY <2>1, <2>3, <2>4
<1>3. ASSUME NEW j \in S PROVE lo[j] <= hi[j]
  <2> DEFINE a == c[j] - c[i]
             b == pu[j] - pv[j]
  <2>1. c[j] \in Int /\ c[i] \in Int /\ pu[j] \in Int /\ pv[j] \in Int
    BY <1>2
  <2>2. (0 <= a /\ 0 <= b) \/ (a <= 0 /\ b <= 0)
    <3>1. CASE j < i
      <4>1. Upto(q, j + 1) <= Upto(q, i)
        BY <3>1, UptoGrows
      <4>2. Upto(q, j + 1) \in Nat /\ Upto(q, i) \in Nat
        BY <3>1, UptoGrows
      <4>a. Upto(q, j + 1) <= v
        BY <4>1, <4>2
      <4>3. Part(q, j, v) = q[j] /\ Part(q, j, u) <= q[j] /\ Part(q, j, u) \in Nat
        BY <4>a, PartTyped
      <4>4. c[j] <= c[i] /\ q[j] \in Nat
        BY <3>1
      <4>5. QED
        BY <2>1, <4>3, <4>4
    <3>2. CASE j = i
      BY <2>1, <3>2
    <3>3. CASE i < j
      <4>1. Upto(q, i + 1) <= Upto(q, j)
        BY <3>3, UptoGrows
      <4>2. Upto(q, i + 1) \in Nat /\ Upto(q, j) \in Nat
        BY <3>3, UptoGrows
      <4>a. v <= Upto(q, j)
        <5>1. v <= Upto(q, i + 1)
          OBVIOUS
        <5>2. QED
          BY <4>1, <4>2, <5>1
      <4>3. Part(q, j, v) = 0 /\ Part(q, j, u) \in Nat
        BY <4>a, PartTyped
      <4>4. c[i] <= c[j]
        BY <3>3
      <4>5. QED
        BY <2>1, <4>3, <4>4
    <3>4. QED
      BY <3>1, <3>2, <3>3
  <2>3. 0 <= a * b
    <3>1. a \in Int /\ b \in Int
      BY <2>1
    <3> HIDE DEF a, b
    <3>2. QED
      BY <2>2, <3>1, SignsMultiply
  <2>4. a * b = (c[j] * pu[j] - c[j] * pv[j]) - (c[i] * pu[j] - c[i] * pv[j])
    <3> HIDE DEF pu, pv
    <3>1. QED
      BY <2>1
  <2>5. cu[j] = c[j] * pu[j] /\ cv[j] = c[j] * pv[j]
    OBVIOUS
  <2>6. lo[j] = c[j] * pv[j] + c[i] * pu[j] /\ hi[j] = c[j] * pu[j] + c[i] * pv[j]
    BY <1>2, <2>5
  <2>7. c[j] * pu[j] \in Int /\ c[j] * pv[j] \in Int /\ c[i] * pu[j] \in Int /\ c[i] * pv[j] \in Int
    BY <2>1
  <2> HIDE DEF pu, pv, lo, hi, a, b
  <2>8. QED
    BY <2>3, <2>4, <2>6, <2>7
<1>4. Total(pu, S) = u /\ Total(pv, S) = v
  <2>1. \A j \in 1 .. n : pu[j] = Part(q, j, u)
    OBVIOUS
  <2>2. \A j \in 1 .. n : pv[j] = Part(q, j, v)
    OBVIOUS
  <2>3. \A j \in 1 .. n : q[j] \in Nat
    OBVIOUS
  <2>4. u \in Nat /\ u <= Upto(q, n + 1) /\ v \in Nat /\ v <= Upto(q, n + 1) /\ n \in Nat
    OBVIOUS
  <2> HIDE DEF pu, pv
  <2>5. Total(pu, 1 .. n) = u
    BY ONLY <2>1, <2>3, <2>4, PartsFill
  <2>6. Total(pv, 1 .. n) = v
    BY ONLY <2>2, <2>3, <2>4, PartsFill
  <2>7. QED
    BY <2>5, <2>6
<1> HIDE DEF S, pu, pv, iu, iv, lo, hi
<1>5. c[i] \in Int
  OBVIOUS
<1>6. Total(iu, S) = c[i] * Total(pu, S) /\ Total(iv, S) = c[i] * Total(pv, S)
  BY <1>1, <1>2, <1>5, TotalTimes
<1>7. Total(lo, S) = Total(cv, S) + Total(iu, S) /\ Total(hi, S) = Total(cu, S) + Total(iv, S)
  BY <1>1, <1>2, TotalPlus
<1>8. Total(lo, S) <= Total(hi, S)
  BY <1>1, <1>2, <1>3, TotalLess
<1>9. Total(cu, S) \in Int /\ Total(cv, S) \in Int
  BY <1>1, <1>2, TotalType
<1>10. Total(cv, S) + c[i] * u <= Total(cu, S) + c[i] * v
  BY <1>4, <1>6, <1>7, <1>8
<1>11. c[i] * u \in Int /\ c[i] * v \in Int /\ c[i] * (u - v) = c[i] * u - c[i] * v
  BY <1>5
<1>12. Total(cv, S) + c[i] * (u - v) <= Total(cu, S)
  BY <1>9, <1>10, <1>11
<1>13. QED
  BY <1>9, <1>12 DEF S

-----------------------------------------------------------------------------
(* The cost of the legs of a walk.                                         *)

\* no fee is more than the price
Moderate == setup.fee <= BpsDen

LEMMA FeesMove ==
  ASSUME SetupBuilt, Moderate, NEW p \in Nat, NEW r \in Nat, p <= r, r <= Dollar
  PROVE  /\ FeeBase(p) \in Int /\ FeeBase(r) \in Int
         /\ FeeBase(p) - FeeBase(r) <= BpsDen * r - BpsDen * p
         /\ FeeBase(r) - FeeBase(p) <= BpsDen * r - BpsDen * p
<1> DEFINE f == setup.fee
           x == Lesser(p, Dollar - p)
           y == Lesser(r, Dollar - r)
           d == r - p
<1>1. f \in Nat /\ f <= BpsDen /\ BpsDen \in Nat /\ Dollar \in Nat
  BY EngineAssumption DEF SetupBuilt, Moderate
<1>2. x \in Int /\ y \in Int /\ x - y <= d /\ y - x <= d /\ d \in Nat
  BY <1>1 DEF Lesser
<1>3. FeeBase(p) = f * x /\ FeeBase(r) = f * y
  BY DEF FeeBase
<1>4. BpsDen * r - BpsDen * p = BpsDen * d
  BY <1>1
<1> HIDE DEF f, x, y, d
<1>5. f * (x - y) <= f * d /\ f * (y - x) <= f * d
  <2>1. 0 <= f * (d - (x - y)) /\ 0 <= f * (d - (y - x))
    <3>1. 0 <= f /\ 0 <= d - (x - y) /\ 0 <= d - (y - x) /\ d - (x - y) \in Int /\ d - (y - x) \in Int
      BY <1>1, <1>2
    <3>2. QED
      BY <1>1, <3>1, SignsMultiply
  <2>2. /\ f * (d - (x - y)) = f * d - f * (x - y) /\ f * (d - (y - x)) = f * d - f * (y - x)
        /\ f * d \in Int /\ f * (x - y) \in Int /\ f * (y - x) \in Int
    BY <1>1, <1>2
  <2>3. QED
    BY <2>1, <2>2
<1>6. f * d <= BpsDen * d
  <2>1. 0 <= (BpsDen - f) * d
    <3>1. 0 <= BpsDen - f /\ BpsDen - f \in Int /\ 0 <= d /\ d \in Int
      BY <1>1, <1>2
    <3>2. QED
      BY <3>1, SignsMultiply
  <2>2. (BpsDen - f) * d = BpsDen * d - f * d /\ BpsDen * d \in Int /\ f * d \in Int
    BY <1>1, <1>2
  <2>3. QED
    BY <2>1, <2>2
<1>7. /\ f * (x - y) = f * x - f * y /\ f * (y - x) = f * y - f * x
      /\ f * x \in Int /\ f * y \in Int /\ f * d \in Int /\ BpsDen * d \in Int
  BY <1>1, <1>2
<1>8. QED
  BY <1>3, <1>4, <1>5, <1>6, <1>7

(* What the next level asks is no better.                                  *)
LEMMA CostsRise ==
  ASSUME SetupBuilt, Moderate, NEW t \in Quoted, NEW a \in {"Buy", "Sell"},
         NEW i \in 1 .. Len(LadderOf(t, a)), NEW j \in 1 .. Len(LadderOf(t, a)), i <= j
  PROVE  ScaledLegCost(a, LadderOf(t, a)[i].px) <= ScaledLegCost(a, LadderOf(t, a)[j].px)
<1> DEFINE l == LadderOf(t, a)
<1>1. IsBook(setup.books[TokenOf(t)])
  BY TokensQuoted DEF SetupBuilt
<1>2. l \in Seq([px : Nat, qty : Nat \ {0}]) /\ \A k \in DOMAIN l : l[k].px <= Dollar
  BY <1>1 DEF IsBook, LadderOf
<1>3. \A k \in 1 .. Len(l) : l[k].px \in Nat
  BY LaddersAre
<1>4. (a = "Buy" => \A k, m \in DOMAIN l : k < m => l[k].px < l[m].px)
      /\ (a = "Sell" => \A k, m \in DOMAIN l : k < m => l[k].px > l[m].px)
  BY <1>1 DEF IsBook, LadderOf
<1>5. DOMAIN l = 1 .. Len(l) /\ i \in DOMAIN l /\ j \in DOMAIN l
  BY <1>2
<1> HIDE DEF l
<1> DEFINE p == l[i].px
           r == l[j].px
<1>6. p \in Nat /\ r \in Nat /\ p <= Dollar /\ r <= Dollar /\ (i = j => p = r)
  BY <1>2, <1>3, <1>5
<1>7. (a = "Buy" => p <= r) /\ (a = "Sell" => r <= p)
  <2>1. CASE i = j
    BY <1>6, <2>1
  <2>2. CASE i < j
    BY <1>4, <1>5, <1>6, <2>2
  <2>3. QED
    BY <1>5, <2>1, <2>2
<1> HIDE DEF p, r
<1>8. BpsDen * p \in Int /\ BpsDen * r \in Int
  BY <1>6, EngineAssumption
<1>9. CASE a = "Buy"
  <2>1. FeeBase(p) - FeeBase(r) <= BpsDen * r - BpsDen * p /\ FeeBase(p) \in Int /\ FeeBase(r) \in Int
    BY <1>6, <1>7, <1>9, FeesMove
  <2>2. BpsDen * p + FeeBase(p) <= BpsDen * r + FeeBase(r)
    BY <1>8, <2>1
  <2>3. QED
    BY <1>9, <2>2 DEF ScaledLegCost, p, r, l
<1>10. CASE a = "Sell"
  <2>1. FeeBase(p) - FeeBase(r) <= BpsDen * p - BpsDen * r /\ FeeBase(p) \in Int /\ FeeBase(r) \in Int
    BY <1>6, <1>7, <1>10, FeesMove
  <2>2. -(BpsDen * p - FeeBase(p)) <= -(BpsDen * r - FeeBase(r))
    BY <1>8, <2>1
  <2>3. QED
    BY <1>10, <2>2 DEF ScaledLegCost, p, r, l
<1>11. QED
  BY <1>9, <1>10

LegLadder(t) == LadderOf(t, basket.legs[t])
Offered(t) == [i \in 1 .. Len(LegLadder(t)) |-> LegLadder(t)[i].qty]
CostAt(t, i) == ScaledLegCost(basket.legs[t], LegLadder(t)[i].px)

\* the last of the first u shares is on level i, or the next one would be
OnLevel(t, i, u) ==
  i \in 1 .. Len(LegLadder(t)) /\ u \in Nat /\ Upto(Offered(t), i) <= u /\ u <= Upto(Offered(t), i + 1)

\* that many shares there are
Offers(t, u) == u \in Nat /\ u <= Upto(Offered(t), Len(LegLadder(t)) + 1)

LEMMA OfferedTyped ==
  ASSUME SetupBuilt, Walked, NEW t \in Legs
  PROVE  /\ Len(LegLadder(t)) \in Nat /\ DOMAIN LegLadder(t) = 1 .. Len(LegLadder(t))
         /\ \A i \in 1 .. Len(LegLadder(t)) :
              /\ Offered(t)[i] = LegLadder(t)[i].qty /\ Offered(t)[i] \in Nat \ {0}
              /\ CostAt(t, i) \in Int
<1> DEFINE l == LegLadder(t)
<1>1. t \in Quoted
  BY LegsAre
<1>2. /\ l \in Seq([px : Nat, qty : Nat \ {0}]) /\ Len(l) \in Nat
      /\ \A i \in 1 .. Len(l) : l[i].px \in Nat /\ l[i].qty \in Nat
  BY <1>1, LaddersAre DEF LegLadder
<1>3. DOMAIN l = 1 .. Len(l) /\ \A i \in 1 .. Len(l) : l[i].qty \in Nat \ {0}
  <2> DEFINE Lvl == [px : Nat, qty : Nat \ {0}]
  <2>1. \A x \in Lvl : x.qty \in Nat \ {0}
    OBVIOUS
  <2>2. l \in Seq(Lvl)
    BY <1>2
  <2> HIDE DEF Lvl, l
  <2>3. QED
    BY <2>1, <2>2
<1>4. \A i \in 1 .. Len(l) : CostAt(t, i) \in Int
  BY <1>2, LegCostTyped DEF CostAt
<1>5. QED
  BY <1>2, <1>3, <1>4 DEF Offered

LEMMA DepthIs ==
  ASSUME SetupBuilt, Walked, NEW t \in Legs
  PROVE  Depth(t) = Upto(Offered(t), Len(LegLadder(t)) + 1) /\ Depth(t) \in Nat
<1> DEFINE n == Len(LegLadder(t))
<1>1. n \in Nat /\ DOMAIN LegLadder(t) = 1 .. n /\ \A i \in 1 .. n : Offered(t)[i] \in Nat
  BY OfferedTyped
<1>2. Depth(t) = Total([i \in DOMAIN LegLadder(t) |-> LegLadder(t)[i].qty], DOMAIN LegLadder(t))
  BY SumOnIs DEF Depth, LegLadder
<1>3. [i \in DOMAIN LegLadder(t) |-> LegLadder(t)[i].qty] = Offered(t)
  BY <1>1 DEF Offered
<1>4. Depth(t) = Total(Offered(t), 1 .. n)
  BY <1>1, <1>2, <1>3
<1>5. (n + 1) - 1 = n
  BY <1>1
<1>6. Upto(Offered(t), n + 1) = Total(Offered(t), 1 .. n)
  BY <1>5 DEF Upto
<1>7. Upto(Offered(t), n + 1) \in Nat
  <2> HIDE DEF n
  <2> DEFINE q == Offered(t)
  <2>1. n + 1 \in 1 .. n + 1 /\ n + 1 <= n + 1 /\ \A i \in 1 .. n : q[i] \in Nat
    BY <1>1
  <2> HIDE DEF q
  <2>2. Upto(q, n + 1) \in Nat
    BY ONLY <1>1, <2>1, UptoGrows
  <2>3. QED
    BY <2>2 DEF q
<1>8. QED
  BY <1>4, <1>6, <1>7

LEMMA CumulatedIs ==
  ASSUME SetupBuilt, Walked, NEW t \in Legs, NEW u
  PROVE  Cumulated(t, u)
           = Total([i \in 1 .. Len(LegLadder(t)) |-> CostAt(t, i) * Part(Offered(t), i, u)],
                   1 .. Len(LegLadder(t)))
<1> DEFINE l == LegLadder(t)
           n == Len(l)
           before(i) == SumFunctionOnSet([j \in 1..(i - 1) |-> l[j].qty], 1..(i - 1))
           part == [i \in DOMAIN l |->
                      ScaledLegCost(basket.legs[t], l[i].px)
                        * Lesser(l[i].qty, IF u > before(i) THEN u - before(i) ELSE 0)]
<1>1. n \in Nat /\ DOMAIN l = 1 .. n
  BY OfferedTyped
<1>2. ASSUME NEW i \in 1 .. n PROVE before(i) = Upto(Offered(t), i)
  <2> DEFINE g == [j \in 1..(i - 1) |-> l[j].qty]
  <2>1. before(i) = Total(g, 1..(i - 1))
    BY SumOnIs
  <2>2. IsFiniteSet(1..(i - 1))
    <3>1. 1 \in Int /\ i - 1 \in Int
      BY <1>1
    <3>2. QED
      BY <3>1, FS_Interval
  <2>3. \A j \in 1..(i - 1) : g[j] = Offered(t)[j]
    <3>1. ASSUME NEW j \in 1..(i - 1) PROVE g[j] = Offered(t)[j]
      <4>1. j \in 1 .. n
        BY <1>1
      <4>2. QED
        BY <4>1 DEF Offered
    <3>2. QED
      BY <3>1
  <2> HIDE DEF g
  <2>4. Total(g, 1..(i - 1)) = Total(Offered(t), 1..(i - 1))
    BY <2>2, <2>3, TotalAgree
  <2>5. QED
    BY <2>1, <2>4 DEF Upto
<1>3. Cumulated(t, u) = Total(part, DOMAIN l)
  BY SumOnIs DEF Cumulated, LegLadder
<1>4. part = [i \in 1 .. n |-> CostAt(t, i) * Part(Offered(t), i, u)]
  <2>1. ASSUME NEW i \in 1 .. n PROVE part[i] = CostAt(t, i) * Part(Offered(t), i, u)
    <3>1. l[i].qty = Offered(t)[i]
      BY DEF Offered
    <3>2. i \in DOMAIN l
      BY <1>1
    <3> HIDE DEF before
    <3>3. QED
      BY <1>2, <3>1, <3>2 DEF CostAt, Part
  <2>2. DOMAIN part = 1 .. n
    BY <1>1
  <2>3. QED
    BY <2>1, <2>2
<1>5. QED
  BY <1>1, <1>3, <1>4

LEMMA LegConvex ==
  ASSUME SetupBuilt, Moderate, Walked, NEW t \in Legs, NEW u, Offers(t, u), NEW v, NEW i, OnLevel(t, i, v)
  PROVE  /\ Cumulated(t, u) \in Int /\ Cumulated(t, v) \in Int
         /\ Cumulated(t, v) + CostAt(t, i) * (u - v) <= Cumulated(t, u)
<1> DEFINE n == Len(LegLadder(t))
           q == Offered(t)
           c == [j \in 1 .. n |-> CostAt(t, j)]
           cu == [j \in 1 .. n |-> CostAt(t, j) * Part(Offered(t), j, u)]
           cv == [j \in 1 .. n |-> CostAt(t, j) * Part(Offered(t), j, v)]
<1>1. n \in Nat /\ (\A j \in 1 .. n : q[j] \in Nat) /\ (\A j \in 1 .. n : c[j] \in Int)
  BY OfferedTyped
<1>2. \A j, k \in 1 .. n : j <= k => c[j] <= c[k]
  BY LegsAre, CostsRise DEF CostAt, LegLadder
<1>3. u \in Nat /\ u <= Upto(q, n + 1) /\ v \in Nat /\ i \in 1 .. n /\ Upto(q, i) <= v /\ v <= Upto(q, i + 1)
  BY DEF Offers, OnLevel
<1>4. (\A j \in 1 .. n : cu[j] = c[j] * Part(q, j, u)) /\ (\A j \in 1 .. n : cv[j] = c[j] * Part(q, j, v))
  OBVIOUS
<1>5. c[i] = CostAt(t, i)
  BY <1>3
<1>6. Cumulated(t, u) = Total(cu, 1 .. n) /\ Cumulated(t, v) = Total(cv, 1 .. n)
  BY CumulatedIs
<1> HIDE DEF n, q, c, cu, cv
<1>7. v <= Upto(q, n + 1)
  <2>1. i + 1 \in 1 .. n + 1 /\ n + 1 \in 1 .. n + 1 /\ i + 1 <= n + 1
    BY <1>1, <1>3
  <2>2. Upto(q, i + 1) \in Nat /\ Upto(q, n + 1) \in Nat /\ Upto(q, i + 1) <= Upto(q, n + 1)
    BY ONLY <1>1, <2>1, UptoGrows
  <2>3. QED
    BY <1>3, <2>2
<1>8. /\ Total(cu, 1 .. n) \in Int /\ Total(cv, 1 .. n) \in Int
      /\ Total(cv, 1 .. n) + c[i] * (u - v) <= Total(cu, 1 .. n)
  BY ONLY <1>1, <1>2, <1>3, <1>4, <1>7, CostConvex
<1>9. QED
  BY <1>5, <1>6, <1>8

LEMMA SlopesAdd ==
  ASSUME NEW S, IsFiniteSet(S), NEW a, NEW b, NEW c, NEW k \in Int,
         \A x \in S : a[x] \in Int /\ b[x] \in Int /\ c[x] \in Int /\ b[x] + c[x] * k <= a[x]
  PROVE  /\ Total(a, S) \in Int /\ Total(b, S) \in Int /\ Total(c, S) \in Int
         /\ Total(b, S) + Total(c, S) * k <= Total(a, S)
<1> DEFINE d == [x \in S |-> k * c[x]]
           e == [x \in S |-> b[x] + d[x]]
<1>1. ASSUME NEW x \in S
      PROVE  d[x] = k * c[x] /\ d[x] \in Int /\ e[x] = b[x] + d[x] /\ e[x] \in Int /\ e[x] <= a[x]
  <2>1. a[x] \in Int /\ b[x] \in Int /\ c[x] \in Int /\ b[x] + c[x] * k <= a[x]
    OBVIOUS
  <2>2. d[x] = k * c[x] /\ e[x] = b[x] + d[x]
    OBVIOUS
  <2> HIDE DEF d, e
  <2>3. QED
    BY <2>1, <2>2
<1> HIDE DEF d, e
<1>2. Total(d, S) = k * Total(c, S)
  BY <1>1, TotalTimes
<1>3. Total(e, S) = Total(b, S) + Total(d, S)
  BY <1>1, TotalPlus
<1>4. Total(e, S) <= Total(a, S)
  BY <1>1, TotalLess
<1>5. Total(a, S) \in Int /\ Total(b, S) \in Int /\ Total(c, S) \in Int
  BY TotalType
<1>6. k * Total(c, S) = Total(c, S) * k
  BY <1>5
<1>7. QED
  BY <1>2, <1>3, <1>4, <1>5, <1>6

\* the levels all legs are on after v units, and what one share more costs there
OnLevels(lv, v) == \A t \in Legs : OnLevel(t, lv[t], v)
CostsAt(lv) == [t \in Legs |-> CostAt(t, lv[t])]
Slope(lv) == BpsDen * (basket.payout - basket.collateral) - Total(CostsAt(lv), Legs)
BasisSlope(lv) == BpsDen * basket.collateral + Total(CostsAt(lv), Buys)

LEMMA BuysAre ==
  ASSUME Walked
  PROVE  IsFiniteSet(Buys) /\ Buys \subseteq Legs
<1>1. Buys \subseteq Legs
  BY DEF Buys
<1>2. QED
  BY <1>1, LegsAre, FS_Subset

LEMMA WalkConvex ==
  ASSUME SetupBuilt, Moderate, Walked, NEW u \in Nat, \A t \in Legs : Offers(t, u),
         NEW v \in Nat, NEW lv, OnLevels(lv, v)
  PROVE  /\ ScaledNet(u) \in Int /\ ScaledNet(v) \in Int /\ ScaledBasis(u) \in Int /\ ScaledBasis(v) \in Int
         /\ Slope(lv) \in Int /\ BasisSlope(lv) \in Int
         /\ ScaledNet(u) <= ScaledNet(v) + Slope(lv) * (u - v)
         /\ ScaledBasis(v) + BasisSlope(lv) * (u - v) <= ScaledBasis(u)
<1> DEFINE k == u - v
           a == [t \in Legs |-> Cumulated(t, u)]
           b == [t \in Legs |-> Cumulated(t, v)]
           c == CostsAt(lv)
           G == BpsDen * (basket.payout - basket.collateral)
           K == BpsDen * basket.collateral
<1>1. ASSUME NEW t \in Legs
      PROVE  a[t] \in Int /\ b[t] \in Int /\ c[t] \in Int /\ b[t] + c[t] * k <= a[t]
  <2>1. Offers(t, u) /\ OnLevel(t, lv[t], v)
    BY DEF OnLevels
  <2>2. /\ Cumulated(t, u) \in Int /\ Cumulated(t, v) \in Int
        /\ Cumulated(t, v) + CostAt(t, lv[t]) * (u - v) <= Cumulated(t, u)
    BY <2>1, LegConvex
  <2>3. CostAt(t, lv[t]) \in Int
    BY <2>1, OfferedTyped DEF OnLevel
  <2>4. a[t] = Cumulated(t, u) /\ b[t] = Cumulated(t, v) /\ c[t] = CostAt(t, lv[t])
    BY DEF CostsAt
  <2> HIDE DEF a, b, c
  <2>5. QED
    BY <2>2, <2>3, <2>4
<1>2. G \in Int /\ K \in Int /\ k \in Int
  <2>1. basket.payout \in Int /\ basket.collateral \in Int /\ BpsDen \in Int
    BY LegsAre, EngineAssumption
  <2>2. QED
    BY <2>1
<1>3. ScaledNet(u) = G * u - Total(a, Legs) /\ ScaledNet(v) = G * v - Total(b, Legs)
  BY SumOnIs DEF ScaledNet
<1>4. ScaledBasis(u) = K * u + Total(a, Buys) /\ ScaledBasis(v) = K * v + Total(b, Buys)
  <2>1. \A t \in Buys : t \in Legs
    BY BuysAre
  <2> DEFINE a2 == [t \in Buys |-> Cumulated(t, u)]
             b2 == [t \in Buys |-> Cumulated(t, v)]
  <2>2. (\A t \in Buys : a2[t] = a[t]) /\ (\A t \in Buys : b2[t] = b[t])
    BY <2>1
  <2>3. ScaledBasis(u) = K * u + Total(a2, Buys) /\ ScaledBasis(v) = K * v + Total(b2, Buys)
    BY SumOnIs DEF ScaledBasis
  <2> HIDE DEF a, b, a2, b2
  <2>4. Total(a2, Buys) = Total(a, Buys) /\ Total(b2, Buys) = Total(b, Buys)
    BY <2>2, BuysAre, TotalAgree
  <2>5. QED
    BY <2>3, <2>4
<1>5. Slope(lv) = G - Total(c, Legs) /\ BasisSlope(lv) = K + Total(c, Buys)
  BY DEF Slope, BasisSlope
<1>6. u \in Int /\ v \in Int /\ k = u - v
  OBVIOUS
<1> HIDE DEF k, a, b, c, G, K
<1>7. /\ Total(a, Legs) \in Int /\ Total(b, Legs) \in Int /\ Total(c, Legs) \in Int
      /\ Total(b, Legs) + Total(c, Legs) * k <= Total(a, Legs)
  BY <1>1, <1>2, LegsAre, SlopesAdd
<1>8. /\ Total(a, Buys) \in Int /\ Total(b, Buys) \in Int /\ Total(c, Buys) \in Int
      /\ Total(b, Buys) + Total(c, Buys) * k <= Total(a, Buys)
  <2>1. \A t \in Buys : a[t] \in Int /\ b[t] \in Int /\ c[t] \in Int /\ b[t] + c[t] * k <= a[t]
    BY <1>1, BuysAre
  <2>2. QED
    BY <1>2, <2>1, BuysAre, SlopesAdd
<1>9. /\ G * u \in Int /\ G * v \in Int /\ K * u \in Int /\ K * v \in Int
      /\ G * u - G * v = G * k /\ K * u - K * v = K * k
  BY <1>2, <1>6
<1>10. ASSUME NEW x \in Int, NEW y \in Int
       PROVE  (x - y) * k = x * k - y * k /\ (x + y) * k = x * k + y * k /\ x * k \in Int
  BY <1>2, <1>10
<1>11. (G - Total(c, Legs)) * k = G * k - Total(c, Legs) * k /\ Total(c, Legs) * k \in Int /\ G * k \in Int
  BY <1>2, <1>7, <1>10
<1>12. (K + Total(c, Buys)) * k = K * k + Total(c, Buys) * k /\ Total(c, Buys) * k \in Int /\ K * k \in Int
  BY <1>2, <1>8, <1>10
<1>13. /\ ScaledNet(u) \in Int /\ ScaledNet(v) \in Int /\ ScaledBasis(u) \in Int /\ ScaledBasis(v) \in Int
       /\ Slope(lv) \in Int /\ BasisSlope(lv) \in Int
  BY <1>2, <1>3, <1>4, <1>5, <1>7, <1>8, <1>9
<1>14. Slope(lv) * k = G * k - Total(c, Legs) * k /\ BasisSlope(lv) * k = K * k + Total(c, Buys) * k
  BY <1>5, <1>11, <1>12
<1>15. ScaledNet(u) <= ScaledNet(v) + Slope(lv) * k
  BY <1>3, <1>7, <1>9, <1>11, <1>14
<1>16. ScaledBasis(v) + BasisSlope(lv) * k <= ScaledBasis(u)
  BY <1>4, <1>8, <1>9, <1>12, <1>14
<1>17. QED
  BY <1>6, <1>13, <1>15, <1>16

-----------------------------------------------------------------------------
(* The march: where the cursors stand and what it was charged.             *)

Positioned(t) ==
  /\ cur[t].lvl \in 1 .. Len(LegLadder(t)) + 1
  /\ cur[t].lvl <= Len(LegLadder(t)) =>
       /\ cur[t].rem \in Nat \ {0} /\ cur[t].rem <= Offered(t)[cur[t].lvl]
       /\ units = Upto(Offered(t), cur[t].lvl) + Offered(t)[cur[t].lvl] - cur[t].rem
  /\ cur[t].lvl = Len(LegLadder(t)) + 1 => units = Upto(Offered(t), cur[t].lvl)
  /\ Len(segs[t]) = cur[t].lvl - 1 => units = Upto(Offered(t), cur[t].lvl)

\* the levels that are used up
Passed == Total([t \in Legs |-> cur[t].lvl - 1], Legs)

\* the cap is over-charged by less than a micro-dollar per chunk, and a chunk
\* uses a level up or is the last one
Charged ==
  \/ BpsDen * Dollar * used <= ScaledBasis(units) + BpsDen * Dollar * Passed
  \/ /\ \A t \in Legs : ~Exhausted(t)
     /\ BasisPerShare > 0 /\ CapLeft <= 0
     /\ BpsDen * Dollar * used <= ScaledBasis(units) + BpsDen * Dollar * (Passed + 1)

Marched == (\A t \in Legs : Positioned(t)) /\ Charged

Cursors == [t \in Legs |-> cur[t].lvl]
Touched == [t \in Legs |-> Len(segs[t])]

LEMMA LegUpto ==
  ASSUME SetupBuilt, Walked, NEW t \in Legs, NEW i \in 1 .. Len(LegLadder(t)) + 1
  PROVE  /\ Upto(Offered(t), i) \in Nat /\ Upto(Offered(t), i) <= Depth(t)
         /\ i = Len(LegLadder(t)) + 1 => Upto(Offered(t), i) = Depth(t)
         /\ i <= Len(LegLadder(t)) => /\ Upto(Offered(t), i + 1) = Upto(Offered(t), i) + Offered(t)[i]
                                      /\ Offered(t)[i] \in Nat \ {0}
         /\ Upto(Offered(t), 1) = 0
<1> DEFINE n == Len(LegLadder(t))
           q == Offered(t)
<1>1. n \in Nat /\ (\A j \in 1 .. n : q[j] \in Nat) /\ (\A j \in 1 .. n : q[j] \in Nat \ {0})
  BY OfferedTyped
<1>2. Depth(t) = Upto(q, n + 1)
  BY DepthIs
<1>3. Upto(q, 1) = 0
  <2>1. 1 .. 1 - 1 = {}
    OBVIOUS
  <2>2. QED
    BY <2>1, TotalEmpty DEF Upto
<1>4. i \in 1 .. n + 1 /\ n + 1 \in 1 .. n + 1 /\ i <= n + 1
  BY <1>1
<1> HIDE DEF n, q
<1>5. Upto(q, i) \in Nat /\ Upto(q, i) <= Upto(q, n + 1)
  BY ONLY <1>1, <1>4, UptoGrows
<1>6. ASSUME i <= n PROVE Upto(q, i + 1) = Upto(q, i) + q[i]
  <2>1. i \in 1 .. n
    BY <1>1, <1>4, <1>6
  <2>2. QED
    BY ONLY <1>1, <2>1, UptoStep
<1>7. i <= n => q[i] \in Nat \ {0}
  BY <1>1, <1>4
<1>8. QED
  BY <1>2, <1>3, <1>5, <1>6, <1>7 DEF n, q

LEMMA UnitsThere ==
  ASSUME SetupBuilt, Walked, NEW t \in Legs, Positioned(t)
  PROVE  /\ Offers(t, units) /\ units <= Depth(t)
         /\ Exhausted(t) => units = Depth(t)
         /\ ~Exhausted(t) => OnLevel(t, cur[t].lvl, units) /\ cur[t].rem \in Nat \ {0}
         /\ units # 0 => OnLevel(t, Len(segs[t]), units)
<1> DEFINE n == Len(LegLadder(t))
           q == Offered(t)
           i == cur[t].lvl
           s == Len(segs[t])
<1>1. n \in Nat /\ i \in 1 .. n + 1 /\ units \in Nat
  BY OfferedTyped DEF Positioned, Walked
<1>2. /\ Upto(q, i) \in Nat /\ Upto(q, i) <= Depth(t) /\ Upto(q, 1) = 0
      /\ i = n + 1 => Upto(q, i) = Depth(t)
      /\ i <= n => Upto(q, i + 1) = Upto(q, i) + q[i] /\ q[i] \in Nat \ {0}
  BY <1>1, LegUpto
<1>3. ASSUME i <= n PROVE Upto(q, i + 1) <= Depth(t)
  <2>1. i + 1 \in 1 .. n + 1
    BY <1>1, <1>3
  <2>2. QED
    BY <2>1, LegUpto
<1>4. /\ i <= n => cur[t].rem \in Nat \ {0} /\ cur[t].rem <= q[i] /\ units = Upto(q, i) + q[i] - cur[t].rem
      /\ i = n + 1 => units = Upto(q, i)
      /\ s = i - 1 => units = Upto(q, i)
  BY DEF Positioned
<1>5. Depth(t) \in Nat /\ Depth(t) = Upto(q, n + 1)
  BY DepthIs
<1>6. Exhausted(t) <=> i > n
  BY DEF Exhausted, LegLadder
<1>7. s \in {i - 1, i} /\ s <= n
  BY DEF Walked, LegWalked, LegLadder
<1>8. OnLevel(t, i, units) <=> (i \in 1 .. n /\ Upto(q, i) <= units /\ units <= Upto(q, i + 1))
  BY <1>1 DEF OnLevel
<1>9. OnLevel(t, s, units) <=> (s \in 1 .. n /\ Upto(q, s) <= units /\ units <= Upto(q, s + 1))
  BY <1>1 DEF OnLevel
<1>10. Offers(t, units) <=> units <= Depth(t)
  BY <1>1, <1>5 DEF Offers
<1>11. ASSUME s = i - 1, units # 0
       PROVE  s \in 1 .. n /\ s + 1 = i /\ Upto(q, s) <= Upto(q, i)
  <2>1. i # 1
    BY <1>2, <1>4, <1>11
  <2>2. s \in 1 .. n /\ s + 1 = i /\ s <= n /\ s \in 1 .. n + 1
    BY <1>1, <1>11, <2>1
  <2>3. /\ Upto(q, s) \in Nat
        /\ s <= n => Upto(q, s + 1) = Upto(q, s) + q[s] /\ q[s] \in Nat \ {0}
    BY <2>2, LegUpto
  <2>4. QED
    BY <2>2, <2>3
<1> HIDE DEF n, q, i, s
<1>12. units <= Depth(t)
  BY <1>1, <1>2, <1>3, <1>4, <1>5
<1>13. i > n => units = Depth(t)
  BY <1>1, <1>2, <1>4
<1>14. ~(i > n) => i \in 1 .. n /\ Upto(q, i) <= units /\ units <= Upto(q, i + 1) /\ cur[t].rem \in Nat \ {0}
  BY <1>1, <1>2, <1>4
<1>15. ASSUME units # 0 PROVE s \in 1 .. n /\ Upto(q, s) <= units /\ units <= Upto(q, s + 1)
  <2>1. CASE s = i - 1
    BY <1>2, <1>4, <1>11, <1>15, <2>1
  <2>2. CASE s = i
    BY <1>1, <1>7, <1>14, <2>2
  <2>3. QED
    BY <1>7, <2>1, <2>2
<1>16. QED
  BY <1>6, <1>8, <1>9, <1>10, <1>12, <1>13, <1>14, <1>15 DEF i, s

(* What one more share nets and binds, in terms of the levels.             *)
LEMMA CursorSlopes ==
  ASSUME SetupBuilt, Walked, \A t \in Legs : Positioned(t) /\ ~Exhausted(t)
  PROVE  /\ OnLevels(Cursors, units)
         /\ Slope(Cursors) = Marginal /\ BasisSlope(Cursors) = BasisPerShare
<1>1. OnLevels(Cursors, units)
  <2>1. ASSUME NEW t \in Legs PROVE OnLevel(t, Cursors[t], units)
    BY UnitsThere DEF Cursors
  <2>2. QED
    BY <2>1 DEF OnLevels
<1>2. CostsAt(Cursors) = LegCost
  BY DEF CostsAt, LegCost, CostAt, PxAt, Cursors, LegLadder
<1>3. QED
  BY <1>1, <1>2, SumOnIs DEF Slope, BasisSlope, Marginal, BasisPerShare

LEMMA TouchedSlope ==
  ASSUME SetupBuilt, Walked, \A t \in Legs : Positioned(t), units # 0
  PROVE  OnLevels(Touched, units) /\ Slope(Touched) \in Int /\ 0 < Slope(Touched)
<1>1. OnLevels(Touched, units)
  <2>1. ASSUME NEW t \in Legs PROVE OnLevel(t, Touched[t], units)
    BY UnitsThere DEF Touched
  <2>2. QED
    BY <2>1 DEF OnLevels
<1>2. CostsAt(Touched) = Limits
  <2>1. ASSUME NEW t \in Legs PROVE CostAt(t, Touched[t]) = ScaledLegCost(basket.legs[t], LimitPx(segs[t]))
    <3>1. OnLevel(t, Len(segs[t]), units)
      BY UnitsThere
    <3>2. Len(segs[t]) \in DOMAIN segs[t]
      <4>1. segs[t] \in Seq(Segment)
        BY DEF Walked, LegWalked
      <4>2. Len(segs[t]) \in Nat /\ DOMAIN segs[t] = 1 .. Len(segs[t])
        BY <4>1
      <4>3. Len(segs[t]) # 0
        BY <3>1, OfferedTyped DEF OnLevel
      <4>4. QED
        BY <4>2, <4>3
    <3>3. LimitPx(segs[t]) = LegLadder(t)[Len(segs[t])].px
      BY <3>2 DEF Walked, LegWalked, LimitPx, LegLadder
    <3>4. QED
      BY <3>3 DEF CostAt, Touched
  <2>2. QED
    BY <2>1 DEF CostsAt, Limits
<1>3. ASSUME NEW t \in Legs PROVE Limits[t] \in Int
  <2>1. OnLevel(t, Touched[t], units)
    BY <1>1 DEF OnLevels
  <2>2. CostAt(t, Touched[t]) \in Int
    BY <2>1, OfferedTyped DEF OnLevel
  <2>3. QED
    BY <1>2, <2>2 DEF CostsAt
<1>4. Total(Limits, Legs) \in Int
  BY <1>3, LegsAre, TotalType
<1>5. BpsDen * (basket.payout - basket.collateral) \in Int
  BY LegsAre, EngineAssumption
<1>6. BpsDen * (basket.payout - basket.collateral) > Total(Limits, Legs)
  BY SumOnIs DEF Walked
<1>7. Slope(Touched) = BpsDen * (basket.payout - basket.collateral) - Total(Limits, Legs)
  BY <1>2 DEF Slope
<1> DEFINE x == BpsDen * (basket.payout - basket.collateral)
           y == Total(Limits, Legs)
<1>8. Slope(Touched) = x - y /\ x \in Int /\ y \in Int /\ x > y
  BY <1>4, <1>5, <1>6, <1>7
<1> HIDE DEF x, y
<1>9. QED
  BY <1>1, <1>8

\* the numbers of the levels the legs have come past bound the chunks
LEMMA PassedBounds ==
  ASSUME SetupBuilt, Walked, \A t \in Legs : Positioned(t)
  PROVE  /\ Passed \in Nat
         /\ Passed + 1 <= Max({Len(segs[t]) : t \in Legs}) * Cardinality(Legs) + 1
         /\ Max({Len(segs[t]) : t \in Legs}) * Cardinality(Legs) + 1 \in Nat
<1> DEFINE lens == {Len(segs[t]) : t \in Legs}
           most == Max(lens)
           f == [t \in Legs |-> cur[t].lvl - 1]
           g == [t \in Legs |-> most]
<1>1. IsFiniteSet(Legs) /\ Legs # {}
  BY LegsAre
<1>2. ASSUME NEW t \in Legs PROVE Len(segs[t]) \in Nat /\ cur[t].lvl - 1 <= Len(segs[t]) /\ cur[t].lvl - 1 \in Nat
  <2>1. segs[t] \in Seq(Segment) /\ cur[t].lvl \in Nat \ {0} /\ Len(segs[t]) \in {cur[t].lvl - 1, cur[t].lvl}
    BY DEF Walked, LegWalked
  <2>2. Len(segs[t]) \in Nat
    BY <2>1
  <2>3. QED
    BY <2>1, <2>2
<1>3. most \in Nat /\ \A t \in Legs : Len(segs[t]) <= most
  <2> DEFINE h == [t \in Legs |-> Len(segs[t])]
  <2>1. lens = {h[t] : t \in Legs}
    OBVIOUS
  <2>2. lens \subseteq Nat /\ lens # {}
    BY <1>1, <1>2
  <2>3. IsFiniteSet({h[t] : t \in Legs})
    <3> HIDE DEF h
    <3>1. QED
      BY <1>1, ValuesFinite
  <2>4. \A t \in Legs : Len(segs[t]) \in lens
    OBVIOUS
  <2> HIDE DEF lens, h
  <2>5. \E m \in lens : \A k \in lens : k <= m
    BY <2>1, <2>2, <2>3, GreatestExists
  <2>6. most \in lens /\ \A k \in lens : k <= most
    BY <2>2, <2>5 DEF Max
  <2>7. QED
    BY <2>2, <2>4, <2>6
<1> HIDE DEF most, lens
<1>4. \A t \in Legs : f[t] \in Nat /\ g[t] \in Int /\ f[t] <= g[t] /\ g[t] = most
  BY <1>2, <1>3
<1> HIDE DEF f, g
<1>5. Total(f, Legs) \in Nat
  BY <1>1, <1>4, TotalType
<1>6. Total(f, Legs) <= Total(g, Legs)
  BY <1>1, <1>4, TotalLess
<1>7. Total(g, Legs) = most * Cardinality(Legs)
  BY <1>1, <1>3, <1>4, TotalSame
<1>8. Cardinality(Legs) \in Nat /\ most * Cardinality(Legs) \in Nat
  <2>1. Cardinality(Legs) \in Nat
    BY <1>1, FS_CardinalityType
  <2>2. QED
    BY <1>3, <2>1
<1>9. Passed = Total(f, Legs)
  BY DEF Passed, f
<1>10. Passed \in Nat /\ Passed + 1 <= most * Cardinality(Legs) + 1 /\ most * Cardinality(Legs) + 1 \in Nat
  <2> DEFINE x == most * Cardinality(Legs)
  <2>1. x \in Nat /\ Total(g, Legs) = x
    BY <1>7, <1>8
  <2> HIDE DEF x
  <2>2. Passed + 1 <= x + 1 /\ x + 1 \in Nat /\ Passed \in Nat
    BY <1>5, <1>6, <1>9, <2>1
  <2>3. QED
    BY <2>2 DEF x
<1>11. QED
  BY <1>10 DEF most, lens

LEMMA DepthLeft ==
  ASSUME SetupBuilt, Walked
  PROVE  \E t \in Legs : /\ Min({cur[s].rem : s \in Legs}) = cur[t].rem
                         /\ \A s \in Legs : cur[t].rem <= cur[s].rem /\ cur[s].rem \in Nat
<1> DEFINE rems == {cur[s].rem : s \in Legs}
<1>1. \A s \in Legs : cur[s].rem \in Nat
  BY DEF Walked, LegWalked
<1>2. rems \subseteq Nat /\ rems # {}
  BY <1>1, LegsAre
<1>3. \A s \in Legs : cur[s].rem \in rems
  OBVIOUS
<1>4. \A r \in rems : \E t \in Legs : r = cur[t].rem
  OBVIOUS
<1> HIDE DEF rems
<1>5. \E m \in rems : \A k \in rems : m <= k
  BY <1>2, LeastExists
<1>6. Min(rems) \in rems /\ \A k \in rems : Min(rems) <= k
  BY <1>5 DEF Min
<1>7. PICK t \in Legs : Min(rems) = cur[t].rem
  BY <1>4, <1>6
<1>8. \A s \in Legs : cur[t].rem <= cur[s].rem
  BY <1>3, <1>6, <1>7
<1>9. QED
  BY <1>1, <1>7, <1>8 DEF rems

LEMMA AtMostDepth ==
  ASSUME SetupBuilt, Walked, NEW u \in 0 .. Min({Depth(t) : t \in Legs})
  PROVE  u \in Nat /\ \A t \in Legs : Offers(t, u) /\ u <= Depth(t)
<1> DEFINE ds == {Depth(t) : t \in Legs}
<1>1. \A t \in Legs : Depth(t) \in Nat
  BY DepthIs
<1>2. ds \subseteq Nat /\ ds # {} /\ \A t \in Legs : Depth(t) \in ds
  BY <1>1, LegsAre
<1> HIDE DEF ds
<1>3. \E m \in ds : \A k \in ds : m <= k
  BY <1>2, LeastExists
<1>4. Min(ds) \in ds /\ \A k \in ds : Min(ds) <= k
  BY <1>3 DEF Min
<1>5. u \in 0 .. Min(ds)
  BY DEF ds
<1>6. u \in Nat /\ u <= Min(ds) /\ Min(ds) \in Nat
  <2>1. Min(ds) \in Nat
    BY <1>2, <1>4
  <2> DEFINE m == Min(ds)
  <2>2. m \in Nat /\ u \in 0 .. m
    BY <1>5, <2>1
  <2> HIDE DEF m
  <2>3. u \in Nat /\ u <= m
    BY <2>2
  <2>4. QED
    BY <2>1, <2>3 DEF m
<1>7. ASSUME NEW t \in Legs PROVE Offers(t, u) /\ u <= Depth(t)
  <2>1. u <= Depth(t)
    <3>1. Depth(t) \in ds /\ Depth(t) \in Nat
      BY <1>1, <1>2
    <3>2. QED
      BY <1>4, <1>6, <3>1
  <2>2. Depth(t) = Upto(Offered(t), Len(LegLadder(t)) + 1)
    BY DepthIs
  <2>3. QED
    BY <1>6, <2>1, <2>2 DEF Offers
<1>8. QED
  BY <1>6, <1>7

LEMMA NetTyped ==
  ASSUME SetupBuilt, Walked, NEW u \in Nat
  PROVE  ScaledNet(u) \in Int
<1> DEFINE f == [t \in Legs |-> Cumulated(t, u)]
<1>1. ASSUME NEW t \in Legs PROVE f[t] \in Int
  <2> DEFINE n == Len(LegLadder(t))
             c == [i \in 1 .. n |-> CostAt(t, i) * Part(Offered(t), i, u)]
  <2>1. n \in Nat /\ (\A i \in 1 .. n : Offered(t)[i] \in Nat) /\ (\A i \in 1 .. n : CostAt(t, i) \in Int)
    BY OfferedTyped
  <2>2. ASSUME NEW i \in 1 .. n PROVE c[i] \in Int
    <3>1. Part(Offered(t), i, u) \in Nat
      BY <2>1, PartTyped
    <3>2. CostAt(t, i) \in Int
      BY <2>1
    <3>3. QED
      BY <3>1, <3>2
  <2>3. IsFiniteSet(1 .. n)
    BY <2>1, FS_Interval
  <2> HIDE DEF c
  <2>4. Total(c, 1 .. n) \in Int
    BY <2>2, <2>3, TotalType
  <2>5. QED
    BY <2>4, CumulatedIs DEF c
<1> HIDE DEF f
<1>2. Total(f, Legs) \in Int
  BY <1>1, LegsAre, TotalType
<1>3. BpsDen * (basket.payout - basket.collateral) * u \in Int
  BY LegsAre, EngineAssumption
<1>4. ScaledNet(u) = BpsDen * (basket.payout - basket.collateral) * u - Total(f, Legs)
  BY SumOnIs DEF ScaledNet, f
<1>5. QED
  BY <1>2, <1>3, <1>4

\* the march ends at the best size
LEMMA MarchIsBest ==
  ASSUME SetupBuilt, Moderate, Walked, Marched
  PROVE  BestSize
<1> DEFINE chunks == Max({Len(segs[t]) : t \in Legs}) * Cardinality(Legs) + 1
           BD == BpsDen * Dollar
<1>1. SUFFICES ASSUME ~Profitable, NEW u \in 0 .. Min({Depth(t) : t \in Legs}),
                      ScaledBasis(u) <= (MaxBasis - chunks) * BpsDen * Dollar
               PROVE  ScaledNet(u) <= ScaledNet(units)
  BY DEF BestSize
<1>2. u \in Nat /\ \A t \in Legs : Offers(t, u) /\ u <= Depth(t)
  BY AtMostDepth
<1>3. units \in Nat /\ used \in Int /\ \A t \in Legs : Positioned(t)
  BY DEF Walked, Marched
<1>4. Passed \in Nat /\ Passed + 1 <= chunks /\ chunks \in Nat
  BY <1>3, PassedBounds
<1>5. BD \in Nat \ {0} /\ MaxBasis \in Nat
  BY EngineAssumption
<1> HIDE DEF chunks
<1>6. (MaxBasis - chunks) * BpsDen * Dollar = BD * (MaxBasis - chunks)
      /\ (MaxBasis - used) * BpsDen * Dollar = BD * (MaxBasis - used)
      /\ BpsDen * Dollar * used = BD * used
      /\ BpsDen * Dollar * Passed = BD * Passed
      /\ BpsDen * Dollar * (Passed + 1) = BD * (Passed + 1)
  BY <1>3, <1>4, EngineAssumption
<1> HIDE DEF BD
<1>7. CASE u <= units
  <2>1. CASE units = 0
    <3>1. u = units
      BY <1>2, <1>7, <2>1
    <3>2. ScaledNet(u) \in Int
      BY <1>2, NetTyped
    <3>3. QED
      BY <3>1, <3>2
  <2>2. CASE units # 0
    <3>1. OnLevels(Touched, units) /\ Slope(Touched) \in Int /\ 0 < Slope(Touched)
      BY <1>3, <2>2, TouchedSlope
    <3>2. /\ ScaledNet(u) \in Int /\ ScaledNet(units) \in Int
          /\ ScaledNet(u) <= ScaledNet(units) + Slope(Touched) * (u - units)
      BY <1>2, <1>3, <3>1, WalkConvex
    <3>3. Slope(Touched) * (u - units) <= 0
      <4>1. 0 <= Slope(Touched) * (units - u)
        BY <1>2, <1>3, <1>7, <3>1, SignsMultiply
      <4>2. Slope(Touched) * (u - units) = -(Slope(Touched) * (units - u))
            /\ Slope(Touched) * (units - u) \in Int
        BY <1>2, <1>3, <3>1
      <4>3. QED
        BY <4>1, <4>2
    <3>4. Slope(Touched) * (u - units) \in Int
      BY <1>2, <1>3, <3>1
    <3>5. QED
      BY <3>2, <3>3, <3>4
  <2>3. QED
    BY <2>1, <2>2
<1>8. CASE units < u
  <2>1. \A t \in Legs : ~Exhausted(t)
    <3>1. ASSUME NEW t \in Legs, Exhausted(t) PROVE FALSE
      <4>1. units = Depth(t)
        BY <1>3, <3>1, UnitsThere
      <4>2. u <= Depth(t) /\ Depth(t) \in Nat
        BY <1>2, DepthIs
      <4>3. QED
        BY <1>2, <1>3, <1>8, <4>1, <4>2
    <3>2. QED
      BY <3>1
  <2>2. OnLevels(Cursors, units) /\ Slope(Cursors) = Marginal /\ BasisSlope(Cursors) = BasisPerShare
    BY <1>3, <2>1, CursorSlopes
  <2>3. /\ ScaledNet(u) \in Int /\ ScaledNet(units) \in Int /\ ScaledBasis(u) \in Int /\ ScaledBasis(units) \in Int
        /\ Marginal \in Int /\ BasisPerShare \in Int
        /\ ScaledNet(u) <= ScaledNet(units) + Marginal * (u - units)
        /\ ScaledBasis(units) + BasisPerShare * (u - units) <= ScaledBasis(u)
    BY <1>2, <1>3, <2>2, WalkConvex
  <2>4. CASE Marginal <= 0
    <3>1. 0 <= (-Marginal) * (u - units)
      BY <1>2, <1>3, <1>8, <2>3, <2>4, SignsMultiply
    <3>2. (-Marginal) * (u - units) = -(Marginal * (u - units)) /\ Marginal * (u - units) \in Int
      BY <1>2, <1>3, <2>3
    <3>3. QED
      BY <2>3, <3>1, <3>2
  <2>5. CASE 0 < Marginal
    <3>1. ~(Chunk > 0)
      BY <1>1, <2>1, <2>3, <2>5 DEF Profitable
    <3>2. PICK t \in Legs : /\ Min({cur[s].rem : s \in Legs}) = cur[t].rem
      BY DepthLeft
    <3>3. cur[t].rem \in Nat \ {0}
      BY <1>3, <2>1, UnitsThere
    <3>4. Chunk = IF BasisPerShare > 0 THEN Lesser(cur[t].rem, CapLeft) ELSE cur[t].rem
      BY <3>2 DEF Chunk
    <3>5. BasisPerShare > 0
      BY <3>1, <3>3, <3>4
    <3>6. CapLeft = (BD * (MaxBasis - used)) \div BasisPerShare
      BY <1>6 DEF CapLeft
    <3> DEFINE left == BD * (MaxBasis - used)
    <3>7. left \in Int
      BY <1>3, <1>5
    <3>8. left < BasisPerShare
      <4> HIDE DEF left
      <4>1. BasisPerShare \in Nat \ {0}
        BY <2>3, <3>5
      <4>2. left \div BasisPerShare \in Int /\ left < BasisPerShare * (left \div BasisPerShare) + BasisPerShare
        BY <3>7, <4>1
      <4>3. ~(CapLeft > 0) /\ CapLeft \in Int
        <5>1. CapLeft \in Int
          BY <3>6, <4>2 DEF left
        <5>2. QED
          BY <3>1, <3>3, <3>4, <3>5, <5>1 DEF Lesser
      <4>4. left \div BasisPerShare <= 0
        BY <3>6, <4>3 DEF left
      <4>5. BasisPerShare * (left \div BasisPerShare) <= 0 /\ BasisPerShare * (left \div BasisPerShare) \in Int
        <5> DEFINE d == left \div BasisPerShare
        <5>1. d \in Int /\ d <= 0
          BY <4>2, <4>4
        <5> HIDE DEF d
        <5>2. 0 <= BasisPerShare * (-d)
          BY <4>1, <5>1, SignsMultiply
        <5>3. BasisPerShare * (-d) = -(BasisPerShare * d) /\ BasisPerShare * d \in Int
          BY <4>1, <5>1
        <5>4. QED
          BY <5>2, <5>3 DEF d
      <4>6. QED
        BY <3>7, <4>1, <4>2, <4>5
    <3>9. BD * used <= ScaledBasis(units) + BD * (Passed + 1)
      <4>1. BD * used \in Int /\ BD * Passed \in Int /\ BD * (Passed + 1) \in Int /\ BD * Passed <= BD * (Passed + 1)
        BY <1>3, <1>4, <1>5
      <4>2. QED
        BY <1>6, <2>3, <4>1 DEF Marched, Charged
    <3>10. BasisPerShare <= BasisPerShare * (u - units)
      <4>1. 0 <= BasisPerShare * ((u - units) - 1)
        BY <1>2, <1>3, <1>8, <2>3, <3>5, SignsMultiply
      <4>2. BasisPerShare * ((u - units) - 1) = BasisPerShare * (u - units) - BasisPerShare
            /\ BasisPerShare * (u - units) \in Int
        BY <1>2, <1>3, <2>3
      <4>3. QED
        BY <2>3, <4>1, <4>2
    <3>11. BD * (Passed + 1) <= BD * chunks /\ BD * chunks \in Int /\ BD * (Passed + 1) \in Int
      <4>1. 0 <= BD * (chunks - (Passed + 1))
        BY <1>4, <1>5, SignsMultiply
      <4>2. /\ BD * (chunks - (Passed + 1)) = BD * chunks - BD * (Passed + 1)
            /\ BD * chunks \in Int /\ BD * (Passed + 1) \in Int
        BY <1>4, <1>5
      <4>3. QED
        BY <4>1, <4>2
    <3>12. left = BD * MaxBasis - BD * used /\ BD * (MaxBasis - chunks) = BD * MaxBasis - BD * chunks
           /\ BD * MaxBasis \in Int /\ BD * used \in Int
      BY <1>3, <1>4, <1>5
    <3>13. ScaledBasis(u) <= BD * MaxBasis - BD * chunks
      BY <1>1, <1>6, <3>12
    <3>14. BasisPerShare * (u - units) \in Int
      BY <1>2, <1>3, <2>3
    <3> HIDE DEF left
    <3>15. QED
      BY <2>3, <3>7, <3>8, <3>9, <3>10, <3>11, <3>12, <3>13, <3>14
  <2>6. QED
    BY <2>3, <2>4, <2>5
<1>9. QED
  BY <1>2, <1>3, <1>7, <1>8

-----------------------------------------------------------------------------
(* The march, step by step.                                                *)

LEMMA LaddersKept ==
  ASSUME setup' = setup, basket' = basket
  PROVE  /\ Legs' = Legs /\ Buys' = Buys
         /\ \A t \in Legs : LegLadder(t)' = LegLadder(t) /\ Offered(t)' = Offered(t)
         /\ ScaledBasis(units)' = ScaledBasis(units')
<1>1. Legs' = Legs /\ Buys' = Buys
  BY DEF Legs, Buys
<1>2. \A t \in Legs : LegLadder(t)' = LegLadder(t)
  BY DEF LegLadder, LadderOf
<1>3. \A t \in Legs : Offered(t)' = Offered(t)
  BY <1>2 DEF Offered
<1>4. ScaledBasis(units)' = ScaledBasis(units')
  BY <1>1, <1>2 DEF ScaledBasis, Cumulated, LegLadder, ScaledLegCost, FeeBase, LadderOf
<1>5. QED
  BY <1>1, <1>2, <1>3, <1>4

LEMMA LegMarches ==
  ASSUME SetupBuilt, Walked, Take, NEW t \in Legs, Positioned(t)
  PROVE  /\ Positioned(t)' /\ Offers(t, units + Chunk) /\ ~Exhausted(t)
         /\ cur'[t].lvl = IF cur[t].rem = Chunk THEN cur[t].lvl + 1 ELSE cur[t].lvl
<1> DEFINE n == Len(LegLadder(t))
           q == Offered(t)
           i == cur[t].lvl
           r == cur[t].rem
<1>1. /\ units' = units + Chunk /\ basket' = basket /\ setup' = setup /\ Profitable
      /\ cur'[t] = IF r = Chunk THEN AtLevel(t, i + 1) ELSE [cur[t] EXCEPT !.rem = @ - Chunk]
  BY DEF Take, Legs
<1>2. Chunk \in Nat \ {0} /\ Chunk <= r /\ i \in 1 .. n /\ n \in Nat /\ r \in Nat /\ units \in Nat
  BY <1>1, ChunkFits, OfferedTyped DEF LegLadder, Walked, LegWalked
<1>3. /\ units = Upto(q, i) + q[i] - r
      /\ Upto(q, i) \in Nat /\ q[i] \in Nat /\ Upto(q, i + 1) = Upto(q, i) + q[i]
      /\ r <= q[i]
  BY <1>2, LegUpto DEF Positioned
<1>4. Upto(q, i + 1) <= Depth(t)
  <2>1. i + 1 \in 1 .. n + 1
    BY <1>2
  <2>2. QED
    BY <2>1, LegUpto
<1>5. Len(segs'[t]) = i /\ LegLadder(t)' = LegLadder(t) /\ q' = q
  BY <1>1, LegTakes, LaddersKept
<1>6. ~Exhausted(t)
  BY <1>1 DEF Profitable
<1>7. Offers(t, units + Chunk)
  <2> DEFINE x == Upto(q, i)
             y == q[i]
             d == Upto(q, n + 1)
  <2>1. units = x + y - r /\ x \in Nat /\ y \in Nat /\ x + y <= d /\ d \in Nat
    BY <1>3, <1>4, DepthIs
  <2> HIDE DEF x, y, d, r
  <2>2. units + Chunk \in Nat /\ units + Chunk <= d
    BY <1>2, <2>1
  <2>3. QED
    BY <2>2 DEF Offers, d
<1>8. CASE r = Chunk
  <2>1. cur'[t] = [lvl |-> i + 1, rem |-> IF i + 1 > n THEN 0 ELSE LegLadder(t)[i + 1].qty]
    BY <1>1, <1>8 DEF AtLevel, LegLadder
  <2>2. cur'[t].lvl = i + 1
    BY <2>1
  <2>3. ASSUME i + 1 <= n PROVE cur'[t].rem = q[i + 1] /\ q[i + 1] \in Nat \ {0}
    <3>1. i + 1 \in 1 .. n /\ ~(i + 1 > n)
      BY <1>2, <2>3
    <3>2. cur'[t].rem = LegLadder(t)[i + 1].qty
      BY <2>1, <3>1
    <3>3. QED
      BY <3>1, <3>2, OfferedTyped
  <2>4. units' = Upto(q, i + 1)
    <3> DEFINE x == Upto(q, i)
               y == q[i]
    <3>1. units' = x + y - r + Chunk /\ x \in Nat /\ y \in Nat /\ Upto(q, i + 1) = x + y
      BY <1>1, <1>3
    <3> HIDE DEF x, y
    <3>2. QED
      BY <1>2, <1>8, <3>1
  <2>5. Upto(q, i + 1) \in Nat
    BY <1>3
  <2>6. i + 1 \in 1 .. n + 1 /\ Len(segs'[t]) # cur'[t].lvl
    BY <1>2, <1>5, <2>2
  <2> HIDE DEF n, q, i, r
  <2>7. Positioned(t)'
    <3>1. Len(LegLadder(t))' = n /\ Offered(t)' = q
      BY <1>5 DEF n, q
    <3>2. i + 1 <= n => Upto(q, i + 1) + q[i + 1] - q[i + 1] = Upto(q, i + 1) /\ q[i + 1] <= q[i + 1]
      BY <2>3, <2>5
    <3>3. QED
      BY <2>2, <2>3, <2>4, <2>6, <3>1, <3>2 DEF Positioned
  <2>8. QED
    BY <1>6, <1>7, <1>8, <2>2, <2>7 DEF i, r
<1>9. CASE r # Chunk
  <2>1. cur'[t] = [cur[t] EXCEPT !.rem = r - Chunk]
    BY <1>1, <1>9
  <2>2. cur'[t].lvl = i
    BY <2>1
  <2>3. cur'[t].rem = r - Chunk
    <3>1. cur[t] = [lvl |-> i, rem |-> r] \/ cur'[t].rem = r - Chunk
      BY <2>1
    <3>2. QED
      BY <2>1, <3>1
  <2>4. r - Chunk \in Nat \ {0} /\ r - Chunk <= q[i]
    <3> DEFINE y == q[i]
    <3>1. y \in Nat /\ r <= y
      BY <1>3
    <3> HIDE DEF y, r
    <3>2. r - Chunk \in Nat \ {0} /\ r - Chunk <= y
      BY <1>2, <1>9, <3>1
    <3>3. QED
      BY <3>2 DEF y
  <2>5. units' = Upto(q, i) + q[i] - (r - Chunk)
    <3> DEFINE x == Upto(q, i)
               y == q[i]
    <3>1. units' = x + y - r + Chunk /\ x \in Nat /\ y \in Nat
      BY <1>1, <1>3
    <3> HIDE DEF x, y, r
    <3>2. units' = x + y - (r - Chunk)
      BY <1>2, <3>1
    <3>3. QED
      BY <3>2 DEF x, y
  <2>6. i \in 1 .. n + 1 /\ i # n + 1 /\ Len(segs'[t]) # i - 1
    BY <1>2, <1>5
  <2> HIDE DEF n, q, i, r
  <2>7. Positioned(t)'
    <3>1. Len(LegLadder(t))' = n /\ Offered(t)' = q
      BY <1>5 DEF n, q
    <3>2. QED
      BY <2>2, <2>3, <2>4, <2>5, <2>6, <3>1 DEF Positioned
  <2>8. QED
    BY <1>6, <1>7, <1>9, <2>2, <2>7 DEF i, r
<1>10. QED
  BY <1>8, <1>9

LEMMA PassesGrow ==
  ASSUME SetupBuilt, Walked, Take, \A t \in Legs : Positioned(t)
  PROVE  /\ Passed \in Int /\ Passed' \in Int /\ Passed <= Passed'
         /\ (\E t \in Legs : cur[t].rem = Chunk) => Passed + 1 <= Passed'
         /\ (\A t \in Legs : cur[t].rem # Chunk) => Passed' = Passed
<1> DEFINE f == [t \in Legs |-> cur[t].lvl - 1]
           g == [t \in Legs |-> cur'[t].lvl - 1]
<1>1. IsFiniteSet(Legs) /\ Legs' = Legs
  BY LegsAre DEF Take, Legs
<1>2. Passed = Total(f, Legs) /\ Passed' = Total(g, Legs)
  BY <1>1 DEF Passed
<1>3. ASSUME NEW t \in Legs
      PROVE  f[t] \in Int /\ g[t] = IF cur[t].rem = Chunk THEN f[t] + 1 ELSE f[t]
  <2>1. cur[t].lvl \in Nat
    BY DEF Walked, LegWalked
  <2>2. cur'[t].lvl = IF cur[t].rem = Chunk THEN cur[t].lvl + 1 ELSE cur[t].lvl
    BY LegMarches
  <2>3. f[t] = cur[t].lvl - 1 /\ g[t] = cur'[t].lvl - 1
    OBVIOUS
  <2> HIDE DEF f, g
  <2>4. QED
    BY <2>1, <2>2, <2>3
<1> HIDE DEF f, g
<1>4. \A t \in Legs : f[t] \in Int /\ g[t] \in Int /\ f[t] <= g[t]
  BY <1>3
<1>5. Total(f, Legs) \in Int /\ Total(g, Legs) \in Int
  BY <1>1, <1>4, TotalType
<1>6. Total(f, Legs) <= Total(g, Legs)
  BY <1>1, <1>4, TotalLess
<1>7. ASSUME NEW t \in Legs, cur[t].rem = Chunk PROVE Total(f, Legs) + 1 <= Total(g, Legs)
  <2> DEFINE rest == Legs \ {t}
  <2>1. /\ Total(f, Legs) = f[t] + Total(f, rest)
        /\ Total(g, Legs) = g[t] + Total(g, rest)
    BY <1>1, <1>4, TotalTake
  <2>2. IsFiniteSet(rest) /\ \A x \in rest : f[x] \in Int /\ g[x] \in Int /\ f[x] <= g[x]
    BY <1>1, <1>4, FS_Subset
  <2> HIDE DEF rest
  <2>3. Total(f, rest) \in Int /\ Total(g, rest) \in Int
    BY <2>2, TotalType
  <2>4. Total(f, rest) <= Total(g, rest)
    BY <2>2, TotalLess
  <2>5. g[t] = f[t] + 1 /\ f[t] \in Int
    BY <1>3, <1>7
  <2>6. QED
    BY <2>1, <2>3, <2>4, <2>5
<1>8. ASSUME \A t \in Legs : cur[t].rem # Chunk PROVE Total(f, Legs) = Total(g, Legs)
  <2>1. \A t \in Legs : f[t] = g[t]
    BY <1>3, <1>8
  <2>2. QED
    BY <1>1, <2>1, TotalAgree
<1>9. QED
  BY <1>2, <1>5, <1>6, <1>7, <1>8

LEMMA ProductsRise ==
  ASSUME NEW d \in Nat, NEW a \in Int, NEW b \in Int, a <= b
  PROVE  d * a <= d * b /\ d * a \in Int /\ d * b \in Int
<1>1. 0 <= d * (b - a)
  BY SignsMultiply
<1>2. d * (b - a) = d * b - d * a /\ d * a \in Int /\ d * b \in Int
  OBVIOUS
<1>3. QED
  BY <1>1, <1>2

LEMMA RoundsBy ==
  ASSUME NEW a \in Int, NEW b \in Nat \ {0}
  PROVE  RoundedUp(a, b) \in Int /\ a <= b * RoundedUp(a, b) /\ b * RoundedUp(a, b) <= a + b
         /\ b * RoundedUp(a, b) \in Int
<1>1. a + b - 1 \in Int
  OBVIOUS
<1>2. b * RoundedUp(a, b) <= a + b - 1
  BY <1>1, RoundsDown DEF RoundedUp
<1>3. RoundedUp(a, b) \in Int /\ a <= b * RoundedUp(a, b)
  BY RoundsUp
<1>4. b * RoundedUp(a, b) \in Int
  BY <1>3
<1>5. QED
  BY <1>2, <1>3, <1>4

\* the chunk's charge
LEMMA TakeCharges ==
  ASSUME SetupBuilt, Moderate, Walked, Marched, Take
  PROVE  Charged'
<1> DEFINE BD == BpsDen * Dollar
           B == BasisPerShare
           r == RoundedUp(B * Chunk, BD)
           S == ScaledBasis(units)
           T == ScaledBasis(units)'
<1>1. /\ units' = units + Chunk /\ used' = used + r /\ basket' = basket /\ setup' = setup /\ Profitable
  BY DEF Take
<1>2. Chunk \in Nat \ {0} /\ B \in Int
  BY <1>1, ChunkFits
<1>3. \A t \in Legs : Positioned(t) /\ ~Exhausted(t)
  BY <1>1 DEF Profitable, Marched
<1>4. units \in Nat /\ used \in Int
  BY DEF Walked
<1>5. BD \in Nat \ {0} /\ MaxBasis \in Nat
  BY EngineAssumption
<1>6. S \in Int /\ T \in Int /\ S + B * Chunk <= T
  <2>1. OnLevels(Cursors, units) /\ BasisSlope(Cursors) = B
    BY <1>3, CursorSlopes
  <2>2. \A t \in Legs : Offers(t, units + Chunk)
    BY <1>3, LegMarches
  <2>3. units + Chunk \in Nat /\ units + Chunk - units = Chunk
    BY <1>2, <1>4
  <2> DEFINE u == units + Chunk
  <2>4. /\ S \in Int /\ ScaledBasis(u) \in Int
        /\ S + B * (u - units) <= ScaledBasis(u)
    <3> HIDE DEF u, B
    <3>1. u \in Nat /\ \A t \in Legs : Offers(t, u)
      BY <2>2, <2>3 DEF u
    <3>2. /\ S \in Int /\ ScaledBasis(u) \in Int
          /\ S + BasisSlope(Cursors) * (u - units) <= ScaledBasis(u)
      BY <1>4, <2>1, <3>1, WalkConvex
    <3>3. QED
      BY <2>1, <3>2
  <2>5. T = ScaledBasis(units + Chunk)
    BY <1>1, LaddersKept
  <2>6. u - units = Chunk
    <3> HIDE DEF B, S, T
    <3>1. units \in Int /\ Chunk \in Int /\ u = units + Chunk
      BY <1>2, <1>4
    <3> HIDE DEF u
    <3>2. QED
      BY <3>1
  <2>7. T = ScaledBasis(u)
    <3> HIDE DEF T
    <3>1. QED
      BY <2>5
  <2> HIDE DEF u, S, T, B
  <2>8. T \in Int /\ S \in Int /\ S + B * Chunk <= T
    BY <2>4, <2>6, <2>7
  <2>9. QED
    BY <2>8
<1>7. B * Chunk \in Int
  BY <1>2
<1> HIDE DEF B, BD
<1>8. r \in Int /\ B * Chunk <= BD * r /\ BD * r <= B * Chunk + BD /\ BD * r \in Int
  BY <1>5, <1>7, RoundsBy
<1>9. BD * used <= S + BD * Passed
  <2>1. ASSUME B > 0, CapLeft <= 0, CapLeft \in Int PROVE FALSE
    <3>1. PICK t \in Legs : Min({cur[s].rem : s \in Legs}) = cur[t].rem
      BY DepthLeft
    <3>2. Chunk = Lesser(cur[t].rem, CapLeft) /\ cur[t].rem \in Nat
      BY <2>1, <3>1 DEF Chunk, B, Walked, LegWalked
    <3>3. QED
      BY <1>2, <2>1, <3>2 DEF Lesser
  <2>2. B > 0 => CapLeft \in Int
    <3> DEFINE left == (MaxBasis - used) * BpsDen * Dollar
    <3>1. left \in Int
      BY <1>4, EngineAssumption
    <3>2. CapLeft = left \div B
      BY DEF CapLeft, B
    <3> HIDE DEF left
    <3>3. ASSUME B > 0 PROVE left \div B \in Int
      <4>1. B \in Nat \ {0}
        BY <1>2, <3>3
      <4>2. QED
        BY <3>1, <4>1
    <3>4. QED
      BY <3>2, <3>3
  <2>3. QED
    BY <2>1, <2>2 DEF Marched, Charged, B, BD
<1>10. /\ Passed \in Int /\ Passed' \in Int /\ Passed <= Passed'
       /\ (\E t \in Legs : cur[t].rem = Chunk) => Passed + 1 <= Passed'
       /\ (\A t \in Legs : cur[t].rem # Chunk) => Passed' = Passed
  BY <1>3, PassesGrow
<1>11. BD * used' <= T + BD * (Passed + 1)
  <2>1. BD * used' = BD * used + BD * r /\ BD * (Passed + 1) = BD * Passed + BD
        /\ BD * used \in Int /\ BD * Passed \in Int
    BY <1>1, <1>4, <1>5, <1>8, <1>10
  <2>2. QED
    BY <1>5, <1>6, <1>7, <1>8, <1>9, <2>1
<1>12. BpsDen * Dollar * used' = BD * used' /\ BpsDen * Dollar * Passed' = BD * Passed'
       /\ BpsDen * Dollar * (Passed' + 1) = BD * (Passed' + 1)
  BY DEF BD
<1>13. CASE \E t \in Legs : cur[t].rem = Chunk
  <2>1. BD * (Passed + 1) <= BD * Passed' /\ BD * Passed' \in Int /\ BD * (Passed + 1) \in Int
    <3>1. Passed + 1 \in Int /\ Passed' \in Int /\ Passed + 1 <= Passed'
      BY <1>10, <1>13
    <3>2. QED
      BY <1>5, <3>1, ProductsRise
  <2>2. used' \in Int /\ BD * used' \in Int
    BY <1>1, <1>4, <1>5, <1>8
  <2>3. BD * used' <= T + BD * Passed'
    BY <1>6, <1>11, <2>1, <2>2
  <2>4. QED
    BY <1>12, <2>3 DEF Charged
<1>14. CASE \A t \in Legs : cur[t].rem # Chunk
  <2>1. Passed' = Passed
    BY <1>10, <1>14
  <2>2. Legs' = Legs /\ Buys' = Buys /\ \A t \in Legs : LegLadder(t)' = LegLadder(t)
    BY <1>1, LaddersKept
  <2>3. \A t \in Legs : cur'[t].lvl = cur[t].lvl
    BY <1>3, <1>14, LegMarches
  <2>4. (\A t \in Legs : ~Exhausted(t))'
    BY <1>3, <2>2, <2>3 DEF Exhausted, LegLadder
  <2>5. B' = B
    <3>1. \A t \in Legs : PxAt(t)' = PxAt(t)
      BY <2>2, <2>3 DEF PxAt, LegLadder
    <3>2. LegCost' = LegCost
      BY <1>1, <2>2, <3>1 DEF LegCost, ScaledLegCost, FeeBase
    <3>3. QED
      BY <1>1, <2>2, <3>2 DEF B, BasisPerShare
  <2>6. PICK t \in Legs : Min({cur[s].rem : s \in Legs}) = cur[t].rem
    BY DepthLeft
  <2>7. Chunk = IF B > 0 THEN Lesser(cur[t].rem, CapLeft) ELSE cur[t].rem
    BY <2>6 DEF Chunk, B
  <2>8. B > 0 /\ Chunk = CapLeft
    BY <1>14, <2>7 DEF Lesser
  <2> DEFINE left == BD * (MaxBasis - used)
             then == BD * (MaxBasis - used')
  <2>9. CapLeft = left \div B /\ CapLeft' = then \div B
    <3>1. /\ (MaxBasis - used) * BpsDen * Dollar = left
          /\ (MaxBasis - used') * BpsDen * Dollar = then
      BY <1>1, <1>4, <1>5, <1>8, EngineAssumption DEF BD
    <3>2. QED
      BY <2>5, <3>1 DEF CapLeft, B
  <2>10. left \in Int /\ then = left - BD * r
    <3>1. used' = used + r /\ used \in Int /\ r \in Int
      BY <1>1, <1>4, <1>8
    <3> HIDE DEF r
    <3>2. QED
      BY <1>5, <3>1
  <2> HIDE DEF left, then, r
  <2>11. B \in Nat \ {0}
    BY <1>2, <2>8
  <2>12. left < B * Chunk + B
    BY <2>8, <2>9, <2>10, <2>11
  <2>13. then < B /\ then \in Int
    BY <1>2, <1>7, <1>8, <2>10, <2>12
  <2>14. then \div B <= 0
    <3> DEFINE d == then \div B
    <3>1. d \in Int /\ B * d <= then
      BY <2>11, <2>13, RoundsDown
    <3> HIDE DEF d
    <3>2. SUFFICES ASSUME 1 <= d PROVE FALSE
      BY <3>1 DEF d
    <3>3. 0 <= B * (d - 1)
      BY <2>11, <3>1, <3>2, SignsMultiply
    <3>4. B * (d - 1) = B * d - B /\ B * d \in Int
      BY <2>11, <3>1
    <3>5. QED
      BY <2>11, <2>13, <3>1, <3>3, <3>4
  <2>15. (BasisPerShare > 0 /\ CapLeft <= 0)'
    BY <2>5, <2>8, <2>9, <2>14 DEF B
  <2>16. BpsDen * Dollar * used' <= T + BpsDen * Dollar * (Passed' + 1)
    BY <1>11, <1>12, <2>1
  <2>17. QED
    BY <2>4, <2>15, <2>16 DEF Charged
<1>15. QED
  BY <1>13, <1>14

\* a basket that is taken up
Fresh ==
  /\ SetupBuilt /\ Walked
  /\ units = 0 /\ used = 0
  /\ \A t \in Legs : cur[t].lvl = 1 /\ segs[t] = <<>>
                     /\ (LegLadder(t) # <<>> => cur[t].rem = LegLadder(t)[1].qty)

LEMMA FreshMarches == Fresh => Marched
<1> SUFFICES ASSUME Fresh PROVE Marched
  OBVIOUS
<1>1. SetupBuilt /\ Walked /\ units = 0 /\ used = 0
  BY DEF Fresh
<1>2. ASSUME NEW t \in Legs PROVE Positioned(t)
  <2> DEFINE n == Len(LegLadder(t))
             q == Offered(t)
  <2>1. cur[t].lvl = 1 /\ segs[t] = <<>> /\ (LegLadder(t) # <<>> => cur[t].rem = LegLadder(t)[1].qty)
    BY DEF Fresh
  <2>2. n \in Nat /\ DOMAIN LegLadder(t) = 1 .. n
        /\ \A i \in 1 .. n : q[i] = LegLadder(t)[i].qty /\ q[i] \in Nat \ {0}
    BY <1>1, OfferedTyped
  <2>3. 1 \in 1 .. n + 1
    BY <2>2
  <2>4. Upto(q, 1) = 0
    BY <1>1, <2>3, LegUpto
  <2>5. ASSUME 1 <= n PROVE cur[t].rem = q[1] /\ q[1] \in Nat \ {0}
    <3>1. 1 \in 1 .. n
      BY <2>2, <2>5
    <3>2. LegLadder(t) # <<>>
      BY <2>2, <3>1
    <3>3. QED
      BY <2>1, <2>2, <3>1, <3>2
  <2>6. 1 <= n => 0 = 0 + q[1] - q[1] /\ q[1] <= q[1]
    BY <2>5
  <2> HIDE DEF n, q
  <2>7. QED
    BY <1>1, <2>1, <2>3, <2>4, <2>5, <2>6 DEF Positioned, n, q
<1>3. Passed = 0
  <2> DEFINE f == [t \in Legs |-> cur[t].lvl - 1]
  <2>1. \A t \in Legs : f[t] = 0
    BY DEF Fresh
  <2>2. Passed = Total(f, Legs)
    BY DEF Passed
  <2> HIDE DEF f
  <2>3. QED
    BY <1>1, <2>1, <2>2, LegsAre, TotalZero
<1>4. ScaledBasis(0) = 0
  <2>1. ASSUME NEW t \in Legs PROVE Cumulated(t, 0) = 0
    <3> DEFINE n == Len(LegLadder(t))
               c == [i \in 1 .. n |-> CostAt(t, i) * Part(Offered(t), i, 0)]
    <3>1. n \in Nat /\ (\A i \in 1 .. n : Offered(t)[i] \in Nat) /\ (\A i \in 1 .. n : CostAt(t, i) \in Int)
      BY <1>1, OfferedTyped
    <3>2. ASSUME NEW i \in 1 .. n PROVE c[i] = 0
      <4>1. Upto(Offered(t), i) \in Nat
        BY <3>1, UptoStep
      <4>2. Part(Offered(t), i, 0) = 0
        BY <3>1, <4>1 DEF Part, Lesser
      <4>3. CostAt(t, i) \in Int
        BY <3>1
      <4>4. QED
        BY <4>2, <4>3
    <3>3. IsFiniteSet(1 .. n)
      BY <3>1, FS_Interval
    <3> HIDE DEF c
    <3>4. Total(c, 1 .. n) = 0
      BY <3>2, <3>3, TotalZero
    <3>5. QED
      BY <1>1, <3>4, CumulatedIs DEF c
  <2> DEFINE f == [t \in Buys |-> Cumulated(t, 0)]
  <2>2. \A t \in Buys : f[t] = 0
    BY <1>1, <2>1, BuysAre
  <2>3. ScaledBasis(0) = BpsDen * basket.collateral * 0 + Total(f, Buys)
    BY SumOnIs DEF ScaledBasis
  <2> HIDE DEF f
  <2>4. Total(f, Buys) = 0
    BY <1>1, <2>2, BuysAre, TotalZero
  <2>5. BpsDen * basket.collateral * 0 = 0
    BY <1>1, LegsAre, EngineAssumption
  <2>6. QED
    BY <2>3, <2>4, <2>5
<1>5. BpsDen * Dollar * used <= ScaledBasis(units) + BpsDen * Dollar * Passed
  <2>1. BpsDen * Dollar * 0 = 0
    BY EngineAssumption
  <2>2. QED
    BY <1>1, <1>3, <1>4, <2>1
<1>6. QED
  BY <1>2, <1>5 DEF Marched, Charged

LEMMA DetectMarches ==
  ASSUME SetupBuilt, UNCHANGED listing, Detect
  PROVE  Marched'
<1>1. Walked' /\ SetupBuilt'
  BY DetectWalks, SetupKept DEF Detect
<1>2. PICK b \in Baskets :
        /\ basket' = b
        /\ cur' = [t \in DOMAIN b.legs |->
                     LET l == LadderOf(t, b.legs[t])
                     IN  [lvl |-> 1, rem |-> IF l = <<>> THEN 0 ELSE l[1].qty]]
        /\ segs' = [t \in DOMAIN b.legs |-> <<>>]
        /\ units' = 0 /\ used' = 0 /\ setup' = setup
  BY DEF Detect
<1>3. Legs' = DOMAIN b.legs
  BY <1>2 DEF Legs
<1>4. ASSUME NEW t \in DOMAIN b.legs
      PROVE  cur'[t].lvl = 1 /\ segs'[t] = <<>>
             /\ (LegLadder(t)' # <<>> => cur'[t].rem = LegLadder(t)'[1].qty)
  <2> DEFINE l == LadderOf(t, b.legs[t])
  <2>1. cur'[t] = [lvl |-> 1, rem |-> IF l = <<>> THEN 0 ELSE l[1].qty] /\ segs'[t] = <<>>
    BY <1>2
  <2>2. LegLadder(t)' = l
    BY <1>2 DEF LegLadder, LadderOf
  <2> HIDE DEF l
  <2>3. QED
    BY <2>1, <2>2
<1>5. Fresh'
  BY <1>1, <1>2, <1>3, <1>4 DEF Fresh
<1>6. (Fresh => Marched)'
  BY FreshMarches, PTL
<1>7. QED
  BY <1>5, <1>6

LEMMA TakeMarches ==
  ASSUME SetupBuilt, Moderate, Walked, Marched, Take
  PROVE  Marched'
<1>1. Legs' = Legs
  BY DEF Take, Legs
<1>2. \A t \in Legs : Positioned(t)'
  BY LegMarches DEF Marched
<1>3. QED
  BY <1>1, <1>2, TakeCharges DEF Marched

LEMMA MarchKept ==
  ASSUME Marched, setup' = setup, UNCHANGED <<basket, walking>>
  PROVE  Marched'
<1>1. basket' = basket /\ cur' = cur /\ segs' = segs /\ units' = units /\ used' = used
  BY DEF walking
<1>2. Legs' = Legs /\ Buys' = Buys /\ \A t \in Legs : LegLadder(t)' = LegLadder(t) /\ Offered(t)' = Offered(t)
  BY <1>1, LaddersKept
<1>3. \A t \in Legs : Positioned(t)'
  BY <1>1, <1>2 DEF Marched, Positioned
<1>4. ScaledBasis(units)' = ScaledBasis(units)
  BY <1>1, LaddersKept
<1>5. Passed' = Passed
  BY <1>1, <1>2 DEF Passed
<1>6. \A t \in Legs : Exhausted(t)' <=> Exhausted(t)
  BY <1>1, <1>2 DEF Exhausted, LegLadder
<1>7. BasisPerShare' = BasisPerShare
  <2>1. \A t \in Legs : PxAt(t)' = PxAt(t)
    BY <1>1, <1>2 DEF PxAt, LegLadder
  <2>2. LegCost' = LegCost
    BY <1>1, <1>2, <2>1 DEF LegCost, ScaledLegCost, FeeBase
  <2>3. QED
    BY <1>1, <1>2, <2>2 DEF BasisPerShare
<1>8. CapLeft' = CapLeft
  BY <1>1, <1>7 DEF CapLeft
<1>9. Charged'
  BY <1>1, <1>2, <1>4, <1>5, <1>6, <1>7, <1>8 DEF Marched, Charged
<1>10. QED
  BY <1>2, <1>3, <1>9 DEF Marched

Greedy ==
  /\ setup # NoSetup => setup.fee \in Fees
  /\ basket # NoBasket => Marched

LEMMA GreedyStays ==
  ASSUME \A f \in Fees : f <= BpsDen, UniverseInv, Greedy, [UniverseNext]_allVars
  PROVE  Greedy'
<1>1. CASE BooksArrive
  <2>1. PICK c \in registry.components, f \in Fees :
          \E b \in [TokensOf(c.markets) -> Shapes[Cardinality(c.markets)]] :
             setup' = [component |-> c, fee |-> f, books |-> b]
    BY <1>1 DEF BooksArrive
  <2>2. setup'.fee = f
    BY <2>1
  <2>3. basket' = basket /\ basket = NoBasket
    BY <1>1 DEF BooksArrive, UniverseInv, DetectorInv
  <2>4. basket' = NoBasket'
    BY <2>3 DEF NoBasket
  <2>5. QED
    BY <2>2, <2>4 DEF Greedy
<1>2. CASE DetectorStep
  <2>1. setup # NoSetup /\ UNCHANGED listing /\ SetupBuilt /\ Moderate
    BY <1>2 DEF DetectorStep, universeVars, UniverseInv, DetectorInv, Greedy, Moderate
  <2>2. setup' = setup
    BY <1>2 DEF DetectorStep, Detection, Detect, Take, PriceWalk, SolveComponent, Emit
  <2>3. CASE Detect
    BY <2>1, <2>2, <2>3, DetectMarches DEF Greedy, NoSetup
  <2>4. CASE Take
    <3>1. Walked /\ Marched
      BY <2>4 DEF Take, UniverseInv, DetectorInv, Greedy
    <3>2. QED
      BY <2>1, <2>2, <2>4, <3>1, TakeMarches DEF Greedy, NoSetup
  <2>5. CASE UNCHANGED <<setup, basket, walking>>
    BY <2>2, <2>5, MarchKept DEF Greedy, NoSetup, NoBasket
  <2>6. CASE Dropped
    BY <2>2, <2>6 DEF Dropped, Greedy, NoSetup, NoBasket
  <2>7. QED
    BY <1>2, <2>3, <2>4, <2>5, <2>6 DEF DetectorStep, Detection, PriceWalk, SolveComponent, Emit
<1>3. CASE UNCHANGED engineVars
  <2>1. setup' = setup /\ UNCHANGED <<basket, walking>>
    BY <1>3 DEF engineVars
  <2>2. QED
    BY <2>1, MarchKept DEF Greedy, NoSetup, NoBasket
<1>4. QED
  BY <1>1, <1>2, <1>3 DEF UniverseNext, ReadPage, PagesRead, ReadFavoured, ReadFails, LookUp, Assemble, allVars

\* The march stops at the best size there is, for any books whose fee is at
\* most the whole price (walker.rs).
THEOREM GreedyIsBest ==
  ASSUME \A f \in Fees : f <= BpsDen
  PROVE  UniverseSpec => []BestSize
<1>1. UniverseInit => Greedy
  BY DEF UniverseInit, NothingDetected, Greedy
<1>2. UniverseInv /\ Greedy /\ [UniverseNext]_allVars => Greedy'
  BY GreedyStays
<1>3. ASSUME UniverseInv, Greedy PROVE BestSize
  <2>1. SUFFICES ASSUME basket # NoBasket PROVE BestSize
    BY DEF BestSize
  <2>2. SetupBuilt /\ Walked /\ Marched /\ Moderate
    BY <1>3, <2>1 DEF UniverseInv, DetectorInv, Greedy, Moderate
  <2>3. QED
    BY <2>2, MarchIsBest
<1>4. QED
  BY <1>1, <1>2, <1>3, UniverseHolds, PTL DEF UniverseSpec

-----------------------------------------------------------------------------
(* The coordinator.                                                        *)


USE RiskConfigAssumption, CoordinatorAssumption
USE DEF RiskConfigAssumption, CoordinatorAssumption, coolVars, Drop, Send

Pipeline ==
  /\ busy <=> inFlight # NoOpp
  /\ ~execAlive => running = NoOpp /\ execQ = <<>>
  /\ pc = "dispatch" => /\ busy /\ running = NoOpp
                        /\ execQ = <<>> /\ reportQ = <<>>
  /\ execQ # <<>> => /\ busy /\ execQ = <<inFlight>>
                     /\ running = NoOpp /\ reportQ = <<>>
  /\ running # NoOpp => busy /\ running = inFlight /\ reportQ = <<>>
  /\ reportQ # <<>> => /\ busy
                       /\ \E res \in ExecResult(inFlight) :
                            reportQ = <<[opp |-> inFlight, res |-> res]>>
  /\ busy /\ pc # "dispatch" /\ execQ = <<>> /\ running = NoOpp /\ reportQ = <<>>
       => ~execAlive
  /\ reportClosed => ~execAlive /\ reportQ = <<>>
  /\ pc \in {"final", "done"} => execQ = <<>> /\ running = NoOpp /\ reportQ = <<>>
  /\ pc = "done" => ~busy

Caps ==
  /\ risk.global <= Bankroll + Overrun
  /\ inFlight # NoOpp => risk.global <= Bankroll
  /\ \A m \in Market :
       /\ risk.market[m] <= PerMarketCap + Overrun
       /\ inFlight # NoOpp /\ inFlight.market[m] > 0 => risk.market[m] <= PerMarketCap

IInv == TypeOK /\ Pipeline /\ ExposureAccounted /\ Caps

-----------------------------------------------------------------------------
(* The operators of the risk engine keep the engine's type. *)

LEMMA OppFields ==
  ASSUME NEW o \in Opp
  PROVE  o \in OppRecord /\ o # NoOpp
BY DEF OppRecord

LEMMA RiskTyped ==
  ASSUME NEW r \in RiskState
  PROVE  /\ \A o \in OppRecord : Reserve(r, o) \in RiskState /\ Release(r, o) \in RiskState
         /\ \A left \in [market: [Market -> Nat], total: Nat] : Commit(r, left) \in RiskState
         /\ \A n \in Nat, aged \in 0..r.errors : RecordErrors(r, n, aged) \in RiskState
         /\ RecordSuccess(r) \in RiskState
         /\ \A e \in Int : /\ UpdateEquity(r, e) \in RiskState
                           /\ UpdateSessionPnl(r, e) \in RiskState
         /\ \A n \in Nat : NoteSessionStarts(r, n) \in RiskState
<1> /\ r.global \in Int /\ r.market \in [Market -> Int] /\ r.openOrders \in Nat
    /\ r.errors \in Nat
  BY DEF RiskState
<1>1. ASSUME NEW o \in OppRecord
      PROVE  Reserve(r, o) \in RiskState /\ Release(r, o) \in RiskState
  <2>1. /\ o.cost \in Nat /\ o.legs \in Nat
        /\ \A m \in Market : o.market[m] \in Nat /\ r.market[m] \in Int
    BY DEF OppRecord
  <2>2. /\ r.global + o.cost \in Int /\ r.global - o.cost \in Int
        /\ r.openOrders + o.legs \in Nat
        /\ (IF r.openOrders >= o.legs THEN r.openOrders - o.legs ELSE 0) \in Nat
        /\ [m \in Market |-> r.market[m] + o.market[m]] \in [Market -> Int]
        /\ [m \in Market |-> r.market[m] - o.market[m]] \in [Market -> Int]
    BY <2>1
  <2>3. QED
    BY <2>2 DEF RiskState, Reserve, Release
<1>2. ASSUME NEW left \in [market: [Market -> Nat], total: Nat]
      PROVE  Commit(r, left) \in RiskState
  <2>1. /\ r.global + left.total \in Int
        /\ [m \in Market |-> r.market[m] + left.market[m]] \in [Market -> Int]
    OBVIOUS
  <2>2. QED
    BY <2>1 DEF RiskState, Commit
<1>3. ASSUME NEW n \in Nat, NEW aged \in 0..r.errors
      PROVE  RecordErrors(r, n, aged) \in RiskState
  <2>1. r.errors - aged + n \in Nat
    OBVIOUS
  <2>2. QED
    BY <2>1 DEF RiskState, RecordErrors, HaltReason, NoHalt
<1>4. RecordSuccess(r) \in RiskState
  BY DEF RiskState, RecordSuccess
<1>5. ASSUME NEW e \in Int
      PROVE  UpdateEquity(r, e) \in RiskState /\ UpdateSessionPnl(r, e) \in RiskState
  BY DEF RiskState, UpdateEquity, UpdateSessionPnl, HaltReason, NoHalt
<1>6. ASSUME NEW n \in Nat
      PROVE  NoteSessionStarts(r, n) \in RiskState
  BY DEF RiskState, NoteSessionStarts, HaltReason, NoHalt
<1>7. QED
  BY <1>1, <1>2, <1>3, <1>4, <1>5, <1>6

(* Only reserve, release and commit touch the exposure: errors, successes  *)
(* and marks leave it alone.                                               *)
LEMMA ExposureUntouched ==
  ASSUME NEW r \in RiskState
  PROVE  /\ \A n \in Nat, aged \in 0..r.errors :
              LET q == RecordErrors(r, n, aged)
              IN  q.global = r.global /\ q.market = r.market /\ q.openOrders = r.openOrders
         /\ LET q == RecordSuccess(r)
            IN  /\ q.global = r.global /\ q.market = r.market
                /\ q.openOrders = r.openOrders /\ q.errors = 0
         /\ \A mid, bid \in Int :
              LET q == UpdateSessionPnl(UpdateEquity(r, mid), bid)
              IN  q.global = r.global /\ q.market = r.market /\ q.openOrders = r.openOrders
BY DEF RiskState, RecordErrors, RecordSuccess, UpdateEquity, UpdateSessionPnl

-----------------------------------------------------------------------------
LEMMA ResultTyped ==
  ASSUME NEW o \in Opp, NEW res \in ExecResult(o)
  PROVE  /\ res \in ResultRecord
         /\ res.left.total <= o.cost + Overrun
         /\ \A m \in Market :
              res.left.market[m] <= IF o.market[m] > 0 THEN o.market[m] + Overrun ELSE 0
<1>1. o \in OppRecord
  BY OppFields
<1>2. NoLeft \in [market: [Market -> Nat], total: Nat]
  BY DEF NoLeft
<1>3. /\ NoLeft.total <= o.cost + Overrun
      /\ \A m \in Market :
           NoLeft.market[m] <= IF o.market[m] > 0 THEN o.market[m] + Overrun ELSE 0
  BY <1>1 DEF NoLeft, OppRecord
<1> DEFINE Outcomes == {"Err", "RejectedUnhedged", "NoFill", "FilledClean", "Repaired", "Unwound"}
           Lefts == [market: [Market -> Nat], total: Nat]
           Between == {NoLeft} \cup LeftoverOf(o)
<1>4. Between \subseteq Lefts
  BY <1>2 DEF LeftoverOf
<1>5. OrderErrors \subseteq Nat
  OBVIOUS
<1> HIDE DEF Lefts
<1>6. res \in [outcome: Outcomes, left: Between, errors: Nat]
  <2>1. CASE res \in [outcome: {"Err", "RejectedUnhedged"}, left: {NoLeft}, errors: {0}]
    BY <2>1
  <2>2. CASE res \in [outcome: {"NoFill"}, left: {NoLeft}, errors: OrderErrors]
    BY <2>2, <1>5
  <2>3. CASE res \in [outcome: {"FilledClean"}, left: LeftoverOf(o), errors: {0}]
    BY <2>3
  <2>4. CASE res \in [outcome: {"Repaired", "Unwound"}, left: LeftoverOf(o), errors: OrderErrors]
    BY <2>4, <1>5
  <2>5. QED
    BY <2>1, <2>2, <2>3, <2>4 DEF ExecResult
<1>7. res \in ResultRecord
  <2>1. res \in [outcome: Outcomes, left: Lefts, errors: Nat]
    BY <1>6, <1>4
  <2>2. QED
    BY <2>1 DEF ResultRecord, Lefts
<1>8. QED
  BY <1>3, <1>6, <1>7 DEF LeftoverOf

-----------------------------------------------------------------------------
(* Type correctness. *)

LEMMA InitTyped == Init => TypeOK
<1> SUFFICES ASSUME Init PROVE TypeOK
  OBVIOUS
<1>1. NewRisk \in RiskState
  BY DEF NewRisk, RiskState, NoHalt
<1>2. risk \in RiskState
  BY <1>1, RiskTyped DEF Init
<1>3. haltRow \in HaltReason \cup {NoHalt}
  BY <1>2 DEF Init, RiskState
<1>4. status \in StatusRecord
  BY <1>1 DEF Init, StatusOf, StatusRecord, NewRisk, NoHalt
<1>5. /\ execQ \in Seq(Opp)
      /\ reportQ \in Seq([opp: Opp, res: ResultRecord])
  BY DEF Init
<1>6. /\ seen \in [Shape -> Nat \cup {NoNet}] /\ sent \in Nat \cup {NoNet}
      /\ book \in [held: [Market -> Int], total: Int, flat: BOOLEAN]
  BY DEF Init
<1>7. QED
  BY <1>2, <1>3, <1>4, <1>5, <1>6 DEF Init, TypeOK

LEMMA StatusTyped ==
  ASSUME NEW r \in RiskState, NEW b \in BOOLEAN, NEW rel \in BOOLEAN
  PROVE  StatusOf(r, b, rel) \in StatusRecord
BY DEF StatusOf, StatusRecord, RiskState

LEMMA HaltRowTyped ==
  ASSUME TypeOK, NEW r \in RiskState, LogHalt(r)
  PROVE  haltRow' \in HaltReason \cup {NoHalt}
BY DEF TypeOK, LogHalt, RiskState

LEMMA CoalesceTyped ==
  ASSUME NEW q \in Queue
  PROVE  Coalesce(q) \subseteq Opp
BY DEF Queue, Coalesce

LEMMA ReportTyped ==
  ASSUME TypeOK, NEW aged \in 0..risk.errors, HandleReport(aged)
  PROVE  /\ risk' \in RiskState
         /\ book' \in [held: [Market -> Int], total: Int, flat: BOOLEAN]
         /\ haltRow' \in HaltReason \cup {NoHalt}
         /\ status' \in StatusRecord
         /\ reportQ' \in Seq([opp: Opp, res: ResultRecord])
         /\ busy' = FALSE /\ inFlight' = NoOpp
<1> DEFINE rep == Head(reportQ)
<1>1. rep.opp \in Opp /\ rep.res \in ResultRecord /\ reportQ' \in Seq([opp: Opp, res: ResultRecord])
  <2> DEFINE Report == [opp: Opp, res: ResultRecord]
  <2>1. reportQ \in Seq(Report) /\ reportQ # <<>> /\ reportQ' = Tail(reportQ)
    BY DEF HandleReport, TypeOK
  <2> HIDE DEF Report
  <2>2. Head(reportQ) \in Report /\ Tail(reportQ) \in Seq(Report)
    BY <2>1
  <2>3. QED
    BY <2>1, <2>2 DEF Report
<1>2. rep.opp \in OppRecord
  BY <1>1, OppFields
<1>3. /\ rep.res.left \in [market: [Market -> Nat], total: Nat]
      /\ rep.res.errors \in Nat
  BY <1>1 DEF ResultRecord
<1>4. risk \in RiskState
  BY DEF TypeOK
<1> DEFINE base == Release(risk, rep.opp)
           taken == Commit(base, rep.res.left)
           fed == IF rep.res.outcome \in {"FilledClean", "Repaired"}
                  THEN RecordSuccess(taken) ELSE taken
<1>5. base \in RiskState /\ base.errors = risk.errors
  BY <1>2, <1>4, RiskTyped DEF Release, RiskState
<1>6. taken \in RiskState /\ taken.errors = risk.errors
  BY <1>3, <1>5, RiskTyped DEF Commit, RiskState
<1>7. fed \in RiskState /\ aged \in 0..fed.errors
  <2>1. aged \in MayAge(rep)
    BY DEF HandleReport
  <2>2. CASE rep.res.outcome \in {"FilledClean", "Repaired"}
    <3> HIDE DEF taken, rep
    <3>1. fed = RecordSuccess(taken) /\ aged = 0
      BY <2>1, <2>2 DEF MayAge
    <3>2. RecordSuccess(taken) \in RiskState
      BY <1>6, RiskTyped
    <3>3. RecordSuccess(taken).errors = 0
      BY <1>6 DEF RecordSuccess, RiskState
    <3>4. QED
      BY <3>1, <3>2, <3>3
  <2>3. CASE rep.res.outcome \notin {"FilledClean", "Repaired"}
    <3>1. fed = taken
      BY <2>3
    <3>2. QED
      BY <3>1, <1>6
  <2>4. QED
    BY <2>2, <2>3
<1>8. ErrorsOf(rep.res) \in Nat
  BY <1>3 DEF ErrorsOf
<1>9. risk' = RecordErrors(fed, ErrorsOf(rep.res), aged)
  BY DEF HandleReport, AfterReport
<1>10. risk' \in RiskState
  <2> HIDE DEF fed
  <2> QED
    BY <1>7, <1>8, <1>9, RiskTyped
<1>11. book' \in [held: [Market -> Int], total: Int, flat: BOOLEAN]
  <2>1. book' = ApplyBook(rep) /\ book \in [held: [Market -> Int], total: Int, flat: BOOLEAN]
    BY DEF HandleReport, TypeOK
  <2>2. /\ \A m \in Market : book.held[m] + rep.res.left.market[m] \in Int
        /\ book.total + rep.res.left.total \in Int
    BY <2>1, <1>3
  <2>3. QED
    BY <2>1, <2>2 DEF ApplyBook
<1>12. haltRow' \in HaltReason \cup {NoHalt} /\ status' \in StatusRecord
  BY <1>10, HaltRowTyped, StatusTyped DEF HandleReport, TypeOK
<1>13. QED
  BY <1>1, <1>10, <1>11, <1>12 DEF HandleReport

(* What each kind of coordinator step changes, typed. *)
LEMMA SnapshotTyped ==
  ASSUME TypeOK, NEW r \in RiskState, NEW b \in BOOLEAN,
         NEW mark \in Marks, Snapshot(r, b, mark[1], mark[2])
  PROVE  /\ risk' \in RiskState /\ haltRow' \in HaltReason \cup {NoHalt}
         /\ status' \in StatusRecord
<1>1. mark[1] \in Int /\ mark[2] \in Int
  <2>1. CASE book.flat
    BY <2>1 DEF Marks
  <2>2. CASE ~book.flat
    <3>1. mark \in Equity \X Equity
      BY <2>2 DEF Marks
    <3>2. QED
      BY <3>1
  <2>3. QED
    BY <2>1, <2>2
<1>2. risk' \in RiskState
  BY <1>1, RiskTyped DEF Snapshot
<1>3. QED
  BY <1>2, HaltRowTyped, StatusTyped DEF Snapshot, TypeOK

LEMMA NextTurnTyped ==
  ASSUME NEW rest
  PROVE  NextTurn(rest) \in {"top", "batch"}
BY DEF NextTurn

LEMMA TypeStep == TypeOK /\ Pipeline /\ [Next]_vars => TypeOK'
<1> SUFFICES ASSUME TypeOK, Pipeline, [Next]_vars PROVE TypeOK'
  OBVIOUS
<1> USE DEF TypeOK
<1>1. CASE CloseOpps
  <2>1. oppOpen' \in BOOLEAN
    BY <1>1 DEF CloseOpps
  <2>2. QED
    BY <1>1, <2>1 DEF CloseOpps, coordVars, execVars
<1>2. CASE TripKill
  BY <1>2 DEF TripKill, coordVars, execVars
<1>3. CASE \E s \in Shape : CooldownLapses(s)
  BY <1>3 DEF CooldownLapses, envVars, execVars
<1>4. CASE LoopTop
  <2>1. [risk EXCEPT !.killed = TRUE] \in RiskState
    BY DEF RiskState
  <2>2. risk' \in RiskState /\ status' \in StatusRecord
    BY <1>4, <2>1, StatusTyped DEF LoopTop
  <2>3. QED
    BY <1>4, <2>2 DEF LoopTop, envVars, execVars
<1>5. CASE TakeOpps
  BY <1>5, CoalesceTyped DEF TakeOpps, envVars, execVars
<1>6. CASE \E o \in batch : ProcessOpp(o)
  <2> SUFFICES ASSUME NEW o \in batch, ProcessOpp(o) PROVE TypeOK'
    BY <1>6
  <2>1. o \in OppRecord /\ o \in Opp
    BY OppFields
  <2>2. o.fp \in Shape /\ o.net \in Nat
    BY <2>1 DEF OppRecord
  <2>3. [seen EXCEPT ![o.fp] = o.net] \in [Shape -> Nat \cup {NoNet}]
    BY <2>2
  <2>4. NextTurn(batch') \in {"top", "batch"}
    BY NextTurnTyped
  <2>5. CASE \E aged \in BOOLEAN : ExpireOrCool(o, aged)
    BY <2>4, <2>5 DEF ExpireOrCool, ProcessHead, envVars, execVars
  <2>6. CASE GateOut(o)
    BY <2>3, <2>4, <2>6 DEF GateOut, ProcessHead, Remember, envVars, execVars
  <2>7. CASE RiskReject(o)
    <3>1. haltRow' \in HaltReason \cup {NoHalt} /\ status' \in StatusRecord
      BY <2>7, HaltRowTyped, StatusTyped DEF RiskReject
    <3>2. QED
      BY <2>3, <2>4, <2>7, <3>1 DEF RiskReject, ProcessHead, Remember, envVars, execVars
  <2>8. CASE Suppress(o)
    BY <2>3, <2>4, <2>8 DEF Suppress, ProcessHead, Remember, envVars, execVars
  <2>9. CASE Dispatch(o)
    <3>1. Reserve(risk, o) \in RiskState
      BY <2>1, RiskTyped
    <3>2. QED
      BY <2>1, <2>3, <2>9, <3>1 DEF Dispatch, ProcessHead, Remember, envVars, execVars
  <2>10. QED
    BY <2>5, <2>6, <2>7, <2>8, <2>9 DEF ProcessOpp
<1>7. CASE SendExec
  <2>1. inFlight \in Opp /\ inFlight \in OppRecord
    BY <1>7, OppFields DEF SendExec, Pipeline
  <2>2. Release(risk, inFlight) \in RiskState
    BY <2>1, RiskTyped
  <2>3. NextTurn(batch) \in {"top", "batch"}
    BY NextTurnTyped
  <2>4. Append(execQ, inFlight) \in Seq(Opp)
    BY <2>1
  <2>5. QED
    BY <1>7, <2>2, <2>3, <2>4, StatusTyped, ZenonT(20) DEF SendExec, envVars
<1>8. CASE \E aged \in 0..risk.errors : TakeReport(aged) \/ DrainReport(aged)
  <2> SUFFICES ASSUME NEW aged \in 0..risk.errors, TakeReport(aged) \/ DrainReport(aged)
               PROVE  TypeOK'
    BY <1>8
  <2>1. HandleReport(aged)
    BY DEF TakeReport, DrainReport
  <2>2. QED
    BY <2>1, ReportTyped DEF TakeReport, DrainReport, envVars
<1>9. CASE ReportClosed
  BY <1>9 DEF ReportClosed, envVars, execVars
<1>10. CASE \E cmd \in Command : HandleCtl(cmd)
  <2> SUFFICES ASSUME NEW cmd \in Command, HandleCtl(cmd) PROVE TypeOK'
    BY <1>10
  <2>1. [risk EXCEPT !.paused = (cmd = "Pause")] \in RiskState
    BY DEF RiskState
  <2>2. risk' \in RiskState /\ released' \in BOOLEAN
    BY <2>1 DEF HandleCtl
  <2>3. QED
    BY <2>2, StatusTyped, ZenonT(20) DEF HandleCtl, envVars, execVars
<1>11. CASE PnlTick
  BY <1>11, SnapshotTyped DEF PnlTick, envVars, execVars
<1>12. CASE OppsClosed
  BY <1>12 DEF OppsClosed, envVars, execVars
<1>13. CASE DrainClosed
  BY <1>13 DEF DrainClosed, envVars, execVars
<1>14. CASE Finish
  <2> DEFINE r == IF inFlight = NoOpp THEN risk ELSE Release(risk, inFlight)
             b == IF inFlight = NoOpp THEN busy ELSE FALSE
  <2>1. r \in RiskState /\ b \in BOOLEAN
    BY OppFields, RiskTyped
  <2>2. PICK mark \in Marks : Snapshot(r, b, mark[1], mark[2])
    BY <1>14 DEF Finish
  <2>3. risk' \in RiskState /\ haltRow' \in HaltReason \cup {NoHalt} /\ status' \in StatusRecord
    BY <2>1, <2>2, SnapshotTyped
  <2>4. QED
    BY <1>14, <2>1, <2>3 DEF Finish, envVars, execVars
<1>15. CASE ExecTake
  BY <1>15 DEF ExecTake, coordVars, envVars
<1>16. CASE ExecReport
  <2>1. PICK res \in ExecResult(running) : reportQ' = Append(reportQ, [opp |-> running, res |-> res])
    BY <1>16 DEF ExecReport
  <2>2. running \in Opp /\ res \in ResultRecord
    BY <1>16, <2>1, ResultTyped DEF ExecReport
  <2>3. reportQ' \in Seq([opp: Opp, res: ResultRecord])
    BY <2>1, <2>2
  <2>4. QED
    BY <1>16, <2>3 DEF ExecReport, coordVars, envVars
<1>17. CASE ExecPanic
  <2>1. execQ' \in Seq(Opp)
    BY <1>17 DEF ExecPanic
  <2>2. execAlive' \in BOOLEAN
    BY <1>17 DEF ExecPanic
  <2>3. QED
    BY <1>17, <2>1, <2>2 DEF ExecPanic, coordVars, envVars
<1>18. CASE UNCHANGED vars \/ Ended
  BY <1>18 DEF vars, Ended, coordVars, envVars, execVars
<1>19. QED
  BY <1>1, <1>2, <1>3, <1>4, <1>5, <1>6, <1>7, <1>8, <1>9, <1>10, <1>11, <1>12, <1>13,
     <1>14, <1>15, <1>16, <1>17, <1>18
     DEF Next, Environment, CoordinatorStep, ExecStep

-----------------------------------------------------------------------------
(* One basket, one place. *)

LEMMA InitPipeline == Init => Pipeline
BY DEF Init, Pipeline

LEMMA ReportPipeline ==
  ASSUME TypeOK, Pipeline, NEW aged, HandleReport(aged)
  PROVE  /\ reportQ' = <<>> /\ execQ = <<>> /\ running = NoOpp
         /\ busy /\ ~busy' /\ inFlight' = NoOpp /\ pc # "dispatch" /\ ~reportClosed
         /\ Head(reportQ).opp = inFlight /\ inFlight \in Opp
         /\ Head(reportQ).res \in ExecResult(inFlight)
<1>1. PICK res \in ExecResult(inFlight) : reportQ = <<[opp |-> inFlight, res |-> res]>>
  BY DEF HandleReport, Pipeline
<1>2. Tail(reportQ) = <<>> /\ Head(reportQ) = [opp |-> inFlight, res |-> res]
  BY <1>1
<1>3. busy /\ inFlight \in Opp
  BY <1>1 DEF Pipeline, TypeOK
<1>4. execQ = <<>> /\ running = NoOpp /\ pc # "dispatch" /\ ~reportClosed
  BY <1>1 DEF Pipeline
<1>5. QED
  BY <1>2, <1>3, <1>4 DEF HandleReport

LEMMA PipelineStep == TypeOK /\ Pipeline /\ [Next]_vars => Pipeline'
<1> SUFFICES ASSUME TypeOK, Pipeline, [Next]_vars PROVE Pipeline'
  OBVIOUS
<1>1. CASE CloseOpps \/ TripKill
  BY <1>1 DEF CloseOpps, TripKill, coordVars, execVars, Pipeline
<1>2. CASE \E s \in Shape : CooldownLapses(s)
  BY <1>2 DEF CooldownLapses, envVars, execVars, Pipeline
<1>3. CASE LoopTop
  BY <1>3 DEF LoopTop, envVars, execVars, Pipeline
<1>4. CASE TakeOpps
  BY <1>4 DEF TakeOpps, envVars, execVars, Pipeline
<1>5. CASE \E o \in batch : ProcessOpp(o)
  <2> SUFFICES ASSUME NEW o \in batch, ProcessOpp(o) PROVE Pipeline'
    BY <1>5
  <2>1. NextTurn(batch') \in {"top", "batch"} /\ pc = "batch"
    BY NextTurnTyped DEF ProcessOpp, ExpireOrCool, GateOut, RiskReject, Suppress, Dispatch,
                         ProcessHead
  <2>2. CASE Dispatch(o)
    <3>1. o # NoOpp
      BY OppFields DEF TypeOK
    <3>2. execQ = <<>> /\ running = NoOpp /\ reportQ = <<>> /\ ~busy
      BY <2>2 DEF Dispatch, Pipeline
    <3>3. busy' /\ inFlight' = o /\ pc' = "dispatch" /\ UNCHANGED <<execVars, reportClosed>>
      BY <2>2 DEF Dispatch
    <3>4. QED
      BY <3>1, <3>2, <3>3 DEF Pipeline, execVars
  <2>3. CASE ~Dispatch(o)
    <3>1. /\ pc' \in {"top", "batch"}
          /\ UNCHANGED <<busy, inFlight, reportClosed, execVars>>
      BY <2>1, <2>3 DEF ProcessOpp, ExpireOrCool, GateOut, RiskReject, Suppress
    <3>2. QED
      BY <2>1, <3>1 DEF Pipeline, execVars
  <2>4. QED
    BY <2>2, <2>3
<1>6. CASE SendExec
  <2>1. NextTurn(batch) \in {"top", "batch"}
    BY NextTurnTyped
  <2>2. busy /\ inFlight # NoOpp /\ execQ = <<>> /\ running = NoOpp /\ reportQ = <<>>
    BY <1>6 DEF SendExec, Pipeline
  <2>3. CASE execAlive
    <3>1. /\ execQ' = Append(execQ, inFlight) /\ pc' \in {"top", "batch"}
          /\ UNCHANGED <<busy, inFlight, running, execAlive, reportQ, reportClosed>>
      BY <1>6, <2>1, <2>3 DEF SendExec
    <3>2. execQ' = <<inFlight>>
      BY <2>2, <3>1
    <3>3. QED
      BY <2>2, <2>3, <3>1, <3>2 DEF Pipeline
  <2>4. CASE ~execAlive
    BY <1>6, <2>1, <2>2, <2>4 DEF SendExec, Pipeline, envVars
  <2>5. QED
    BY <2>3, <2>4
<1>7. CASE \E aged \in 0..risk.errors : TakeReport(aged) \/ DrainReport(aged)
  <2> SUFFICES ASSUME NEW aged \in 0..risk.errors, TakeReport(aged) \/ DrainReport(aged)
               PROVE  Pipeline'
    BY <1>7
  <2>1. HandleReport(aged)
    BY DEF TakeReport, DrainReport
  <2>2. /\ reportQ' = <<>> /\ execQ = <<>> /\ running = NoOpp
        /\ ~busy' /\ inFlight' = NoOpp
    BY <2>1, ReportPipeline
  <2>3. /\ pc' \in {"top", "final"}
        /\ UNCHANGED <<reportClosed, execQ, running, execAlive>>
    BY DEF TakeReport, DrainReport
  <2>4. ~reportClosed
    BY <2>1, ReportPipeline
  <2>5. QED
    BY <2>2, <2>3, <2>4 DEF Pipeline
<1>8. CASE ReportClosed
  BY <1>8 DEF ReportClosed, envVars, execVars, Pipeline
<1>9. CASE \E cmd \in Command : HandleCtl(cmd)
  BY <1>9 DEF HandleCtl, envVars, execVars, Pipeline
<1>10. CASE PnlTick
  BY <1>10 DEF PnlTick, Snapshot, envVars, execVars, Pipeline
<1>11. CASE OppsClosed
  BY <1>11 DEF OppsClosed, envVars, execVars, Pipeline
<1>12. CASE DrainClosed
  BY <1>12 DEF DrainClosed, envVars, execVars, Pipeline
<1>13. CASE Finish
  <2>1. ~busy' /\ inFlight' = NoOpp
    BY <1>13 DEF Finish, Pipeline, TypeOK
  <2>2. pc = "final" /\ pc' = "done" /\ UNCHANGED <<reportClosed, execVars>>
    BY <1>13 DEF Finish
  <2>3. QED
    BY <2>1, <2>2 DEF Pipeline, execVars
<1>14. CASE ExecTake
  <2>1. execQ = <<inFlight>> /\ busy /\ reportQ = <<>>
    BY <1>14 DEF ExecTake, Pipeline
  <2>2. execQ' = <<>> /\ running' = inFlight /\ UNCHANGED <<execAlive, reportQ, coordVars>>
    BY <1>14, <2>1 DEF ExecTake
  <2>3. QED
    BY <1>14, <2>1, <2>2 DEF Pipeline, coordVars, ExecTake
<1>15. CASE ExecReport
  <2>1. PICK res \in ExecResult(running) : reportQ' = Append(reportQ, [opp |-> running, res |-> res])
    BY <1>15 DEF ExecReport
  <2>2. running = inFlight /\ busy /\ reportQ = <<>> /\ execAlive /\ execQ = <<>> /\ pc # "dispatch"
        /\ pc \notin {"final", "done"}
    BY <1>15 DEF ExecReport, Pipeline
  <2>3. reportQ' = <<[opp |-> inFlight, res |-> res]>>
    BY <2>1, <2>2
  <2>4. running' = NoOpp /\ UNCHANGED <<execQ, execAlive, coordVars>>
    BY <1>15 DEF ExecReport
  <2>5. QED
    BY <2>1, <2>2, <2>3, <2>4 DEF Pipeline, coordVars
<1>16. CASE ExecPanic
  BY <1>16 DEF ExecPanic, coordVars, envVars, Pipeline
<1>17. CASE UNCHANGED vars \/ Ended
  BY <1>17 DEF vars, Ended, coordVars, envVars, execVars, Pipeline
<1>18. QED
  BY <1>1, <1>2, <1>3, <1>4, <1>5, <1>6, <1>7, <1>8, <1>9, <1>10, <1>11, <1>12, <1>13,
     <1>14, <1>15, <1>16, <1>17
     DEF Next, Environment, CoordinatorStep, ExecStep

-----------------------------------------------------------------------------
(* What a step can do to the exposure: nothing, reserve an approved        *)
(* basket, give the reservation back, or turn it into what a report left.  *)

SameExposure(q, r) ==
  q.global = r.global /\ q.market = r.market /\ q.openOrders = r.openOrders

Quiet ==
  /\ SameExposure(risk', risk)
  /\ book'.held = book.held /\ book'.total = book.total /\ inFlight' = inFlight

Reserves ==
  \E o \in Opp :
    /\ Approved(risk, o) /\ inFlight = NoOpp
    /\ SameExposure(risk', Reserve(risk, o)) /\ inFlight' = o
    /\ book' = book

Releases ==
  /\ inFlight \in Opp /\ inFlight' = NoOpp
  /\ SameExposure(risk', Release(risk, inFlight))
  /\ book' = book

Settles ==
  /\ inFlight \in Opp /\ inFlight' = NoOpp
  /\ \E res \in ExecResult(inFlight) :
       /\ SameExposure(risk', Commit(Release(risk, inFlight), res.left))
       /\ book'.held = [m \in Market |-> book.held[m] + res.left.market[m]]
       /\ book'.total = book.total + res.left.total

LEMMA SnapshotExposure ==
  ASSUME NEW r \in RiskState, NEW b, NEW mark \in Marks, Snapshot(r, b, mark[1], mark[2])
  PROVE  SameExposure(risk', r)
<1>1. mark[1] \in Int /\ mark[2] \in Int
  <2>1. CASE book.flat
    BY <2>1 DEF Marks
  <2>2. CASE ~book.flat
    <3>1. mark \in Equity \X Equity
      BY <2>2 DEF Marks
    <3>2. QED
      BY <3>1
  <2>3. QED
    BY <2>1, <2>2
<1>2. QED
  BY <1>1, ExposureUntouched DEF Snapshot, SameExposure

LEMMA ReportSettlesExactly ==
  ASSUME TypeOK, Pipeline, NEW aged \in 0..risk.errors, HandleReport(aged)
  PROVE  SameExposure(risk', Commit(Release(risk, inFlight), Head(reportQ).res.left))
<1> DEFINE rep == Head(reportQ)
<1>1. /\ rep.opp = inFlight /\ inFlight \in Opp /\ inFlight' = NoOpp
      /\ rep.res \in ExecResult(inFlight)
  BY ReportPipeline
<1>2. rep.res \in ResultRecord /\ inFlight \in OppRecord
  BY <1>1, ResultTyped, OppFields
<1>3. /\ rep.res.left \in [market: [Market -> Nat], total: Nat]
      /\ rep.res.errors \in Nat
  BY <1>2 DEF ResultRecord
<1>4. risk \in RiskState
  BY DEF TypeOK
<1> DEFINE base == Release(risk, rep.opp)
           taken == Commit(base, rep.res.left)
           good == rep.res.outcome \in {"FilledClean", "Repaired"}
           fed == IF good THEN RecordSuccess(taken) ELSE taken
<1>5. base \in RiskState /\ base.errors = risk.errors
  BY <1>1, <1>2, <1>4, RiskTyped DEF Release, RiskState
<1>6. taken \in RiskState /\ taken.errors = risk.errors
  BY <1>3, <1>5, RiskTyped DEF Commit, RiskState
<1>7. fed \in RiskState /\ aged \in 0..fed.errors /\ SameExposure(fed, taken)
  <2> HIDE DEF taken
  <2>1. CASE good
    <3>1. aged = 0 /\ fed = RecordSuccess(taken)
      BY <2>1 DEF HandleReport, MayAge
    <3>2. RecordSuccess(taken) \in RiskState /\ RecordSuccess(taken).errors = 0
      BY <1>6, RiskTyped, ExposureUntouched
    <3>3. SameExposure(RecordSuccess(taken), taken)
      BY <1>6, ExposureUntouched DEF SameExposure
    <3>4. QED
      BY <3>1, <3>2, <3>3
  <2>2. CASE ~good
    BY <2>2, <1>6 DEF SameExposure
  <2>3. QED
    BY <2>1, <2>2
<1>8. ErrorsOf(rep.res) \in Nat
  BY <1>3 DEF ErrorsOf
<1>9. risk' = RecordErrors(fed, ErrorsOf(rep.res), aged)
  BY DEF HandleReport, AfterReport
<1>10. SameExposure(risk', fed)
  <2> HIDE DEF fed
  <2> QED
    BY <1>7, <1>8, <1>9, ExposureUntouched DEF SameExposure
<1>11. SameExposure(risk', Commit(Release(risk, inFlight), rep.res.left))
  BY <1>1, <1>7, <1>10 DEF SameExposure
<1>12. QED
  BY <1>11

LEMMA ReportSettles ==
  ASSUME TypeOK, Pipeline, NEW aged \in 0..risk.errors, HandleReport(aged)
  PROVE  Settles
<1> DEFINE rep == Head(reportQ)
<1>1. /\ rep.opp = inFlight /\ inFlight \in Opp /\ inFlight' = NoOpp
      /\ rep.res \in ExecResult(inFlight)
  BY ReportPipeline
<1>2. /\ book'.held = [m \in Market |-> book.held[m] + rep.res.left.market[m]]
      /\ book'.total = book.total + rep.res.left.total
  BY DEF HandleReport, ApplyBook
<1>3. QED
  BY <1>1, <1>2, ReportSettlesExactly DEF Settles

LEMMA StepKinds ==
  TypeOK /\ Pipeline /\ [Next]_vars => Quiet \/ Reserves \/ Releases \/ Settles
<1> SUFFICES ASSUME TypeOK, Pipeline, [Next]_vars
             PROVE  Quiet \/ Reserves \/ Releases \/ Settles
  OBVIOUS
<1>1. CASE UNCHANGED <<risk, book, inFlight>>
  BY <1>1 DEF Quiet, SameExposure
<1>2. CASE LoopTop
  <2>1. SameExposure([risk EXCEPT !.killed = TRUE], risk)
    BY DEF TypeOK, RiskState, SameExposure
  <2>2. QED
    BY <1>2, <2>1 DEF LoopTop, Quiet, SameExposure
<1>3. ASSUME NEW o \in batch, ProcessOpp(o)
      PROVE  Quiet \/ Reserves \/ Releases \/ Settles
  <2>1. CASE Dispatch(o)
    <3>1. o \in Opp /\ inFlight = NoOpp
      BY <2>1 DEF TypeOK, Pipeline, Dispatch
    <3>2. risk' = Reserve(risk, o) /\ inFlight' = o /\ book' = book /\ Approved(risk, o)
      BY <2>1 DEF Dispatch
    <3>3. Reserves
      BY <3>1, <3>2 DEF Reserves, SameExposure
    <3>4. QED
      BY <3>3
  <2>2. CASE ~Dispatch(o)
    BY <1>1, <1>3, <2>2 DEF ProcessOpp, ExpireOrCool, GateOut, RiskReject, Suppress
  <2>3. QED
    BY <2>1, <2>2
<1>4. CASE SendExec
  <2>1. CASE execAlive
    BY <1>1, <1>4, <2>1 DEF SendExec
  <2>2. CASE ~execAlive
    <3>1. inFlight \in Opp
      BY <1>4 DEF SendExec, Pipeline, TypeOK
    <3>2. risk' = Release(risk, inFlight) /\ inFlight' = NoOpp /\ book' = book
      BY <1>4, <2>2 DEF SendExec
    <3>3. Releases
      BY <3>1, <3>2 DEF Releases, SameExposure
    <3>4. QED
      BY <3>3
  <2>3. QED
    BY <2>1, <2>2
<1>5. ASSUME NEW aged \in 0..risk.errors, TakeReport(aged) \/ DrainReport(aged)
      PROVE  Quiet \/ Reserves \/ Releases \/ Settles
  BY <1>5, ReportSettles DEF TakeReport, DrainReport
<1>6. ASSUME NEW cmd \in Command, HandleCtl(cmd)
      PROVE  Quiet \/ Reserves \/ Releases \/ Settles
  <2>1. SameExposure([risk EXCEPT !.paused = (cmd = "Pause")], risk)
    BY DEF TypeOK, RiskState, SameExposure
  <2>2. QED
    BY <1>6, <2>1 DEF HandleCtl, Quiet, SameExposure
<1>7. CASE PnlTick
  <2>1. PICK mark \in Marks : Snapshot(risk, busy, mark[1], mark[2])
    BY <1>7 DEF PnlTick
  <2>2. SameExposure(risk', risk)
    BY <2>1, SnapshotExposure DEF TypeOK
  <2>3. QED
    BY <1>7, <2>2 DEF PnlTick, Quiet
<1>8. CASE Finish
  <2> DEFINE r == IF inFlight = NoOpp THEN risk ELSE Release(risk, inFlight)
             b == IF inFlight = NoOpp THEN busy ELSE FALSE
  <2>1. r \in RiskState
    BY OppFields, RiskTyped DEF TypeOK
  <2>2. PICK mark \in Marks : Snapshot(r, b, mark[1], mark[2])
    BY <1>8 DEF Finish
  <2>3. SameExposure(risk', r) /\ inFlight' = NoOpp /\ book' = book
    <3> HIDE DEF r, b
    <3>1. SameExposure(risk', r)
      BY <2>1, <2>2, SnapshotExposure
    <3>2. QED
      BY <1>8, <3>1 DEF Finish
  <2>4. CASE inFlight = NoOpp
    BY <2>3, <2>4 DEF Quiet
  <2>5. CASE inFlight # NoOpp
    BY <2>3, <2>5 DEF Releases, TypeOK
  <2>6. QED
    BY <2>4, <2>5
<1>9. QED
  BY <1>1, <1>2, <1>3, <1>4, <1>5, <1>6, <1>7, <1>8
     DEF Next, Environment, CoordinatorStep, ExecStep, CloseOpps, TripKill, CooldownLapses,
         TakeOpps, ReportClosed, OppsClosed, DrainClosed, ExecTake, ExecReport, ExecPanic,
         Ended, vars, coordVars, envVars, execVars

-----------------------------------------------------------------------------
LEMMA AccountStep ==
  TypeOK /\ Pipeline /\ ExposureAccounted /\ [Next]_vars => ExposureAccounted'
<1> SUFFICES ASSUME TypeOK, Pipeline, ExposureAccounted, [Next]_vars
             PROVE  ExposureAccounted'
  OBVIOUS
<1> USE DEF ExposureAccounted, Reserved
<1>1. /\ risk.market \in [Market -> Int] /\ risk.global \in Int /\ risk.openOrders \in Nat
      /\ book.held \in [Market -> Int] /\ book.total \in Int
  BY DEF TypeOK, RiskState
<1>2. CASE Quiet
  BY <1>2 DEF Quiet, SameExposure
<1>3. CASE Reserves
  <2>1. PICK o \in Opp : /\ inFlight = NoOpp /\ inFlight' = o /\ book' = book
                         /\ SameExposure(risk', Reserve(risk, o))
    BY <1>3 DEF Reserves
  <2>2. o \in OppRecord /\ o # NoOpp
    BY OppFields
  <2>3. /\ risk'.global = risk.global + o.cost
        /\ risk'.openOrders = risk.openOrders + o.legs
        /\ risk'.market = [m \in Market |-> risk.market[m] + o.market[m]]
    BY <2>1 DEF SameExposure, Reserve, TypeOK, RiskState
  <2>4. QED
    BY <1>1, <2>1, <2>2, <2>3 DEF OppRecord
<1>4. CASE Releases
  <2>1. inFlight \in OppRecord /\ inFlight # NoOpp /\ inFlight' = NoOpp /\ book' = book
    BY <1>4, OppFields DEF Releases
  <2>2. /\ risk'.global = risk.global - inFlight.cost
        /\ risk'.openOrders = IF risk.openOrders >= inFlight.legs
                              THEN risk.openOrders - inFlight.legs ELSE 0
        /\ risk'.market = [m \in Market |-> risk.market[m] - inFlight.market[m]]
    BY <1>4 DEF Releases, SameExposure, Release, TypeOK, RiskState
  <2>3. QED
    BY <1>1, <2>1, <2>2 DEF OppRecord
<1>5. CASE Settles
  <2>1. inFlight \in OppRecord /\ inFlight # NoOpp /\ inFlight' = NoOpp /\ inFlight \in Opp
    BY <1>5, OppFields DEF Settles
  <2>2. PICK res \in ExecResult(inFlight) :
          /\ SameExposure(risk', Commit(Release(risk, inFlight), res.left))
          /\ book'.held = [m \in Market |-> book.held[m] + res.left.market[m]]
          /\ book'.total = book.total + res.left.total
    BY <1>5 DEF Settles
  <2>3. res.left \in [market: [Market -> Nat], total: Nat]
    BY <2>1, <2>2, ResultTyped DEF ResultRecord
  <2>4. /\ risk'.global = risk.global - inFlight.cost + res.left.total
        /\ risk'.openOrders = IF risk.openOrders >= inFlight.legs
                              THEN risk.openOrders - inFlight.legs ELSE 0
        /\ risk'.market = [m \in Market |->
                             risk.market[m] - inFlight.market[m] + res.left.market[m]]
    BY <2>2 DEF SameExposure, Release, Commit, TypeOK, RiskState
  <2>5. QED
    BY <1>1, <2>1, <2>2, <2>3, <2>4 DEF OppRecord
<1>6. QED
  BY <1>2, <1>3, <1>4, <1>5, StepKinds

LEMMA CapsStep == TypeOK /\ Pipeline /\ Caps /\ [Next]_vars => Caps'
<1> SUFFICES ASSUME TypeOK, Pipeline, Caps, [Next]_vars
             PROVE  Caps'
  OBVIOUS
<1> USE DEF Caps
<1>1. risk.market \in [Market -> Int] /\ risk.global \in Int
  BY DEF TypeOK, RiskState
<1>2. CASE Quiet
  BY <1>2 DEF Quiet, SameExposure
<1>3. CASE Reserves
  <2>1. PICK o \in Opp : /\ Approved(risk, o) /\ inFlight' = o
                         /\ SameExposure(risk', Reserve(risk, o))
    BY <1>3 DEF Reserves
  <2>2. o \in OppRecord
    BY OppFields
  <2>3. /\ risk'.global = risk.global + o.cost
        /\ risk'.market = [m \in Market |-> risk.market[m] + o.market[m]]
    BY <2>1 DEF SameExposure, Reserve, TypeOK, RiskState
  <2>4. /\ risk.global + o.cost <= Bankroll
        /\ \A m \in Market : o.market[m] > 0 => risk.market[m] + o.market[m] <= PerMarketCap
    BY <2>1 DEF Approved, WithinCaps
  <2>5. QED
    BY <1>1, <2>1, <2>2, <2>3, <2>4 DEF OppRecord
<1>4. CASE Releases
  <2>1. inFlight \in OppRecord /\ inFlight # NoOpp /\ inFlight' = NoOpp
    BY <1>4, OppFields DEF Releases
  <2>2. /\ risk'.global = risk.global - inFlight.cost
        /\ risk'.market = [m \in Market |-> risk.market[m] - inFlight.market[m]]
    BY <1>4 DEF Releases, SameExposure, Release, TypeOK, RiskState
  <2>3. QED
    BY <1>1, <2>1, <2>2 DEF OppRecord
<1>5. CASE Settles
  <2>1. inFlight \in OppRecord /\ inFlight # NoOpp /\ inFlight' = NoOpp /\ inFlight \in Opp
    BY <1>5, OppFields DEF Settles
  <2>2. PICK res \in ExecResult(inFlight) :
          SameExposure(risk', Commit(Release(risk, inFlight), res.left))
    BY <1>5 DEF Settles
  <2>3. /\ res.left \in [market: [Market -> Nat], total: Nat]
        /\ res.left.total <= inFlight.cost + Overrun
        /\ \A m \in Market : res.left.market[m] <=
             IF inFlight.market[m] > 0 THEN inFlight.market[m] + Overrun ELSE 0
    BY <2>1, <2>2, ResultTyped DEF ResultRecord
  <2>4. /\ risk'.global = risk.global - inFlight.cost + res.left.total
        /\ risk'.market = [m \in Market |->
                             risk.market[m] - inFlight.market[m] + res.left.market[m]]
    BY <2>2 DEF SameExposure, Release, Commit, TypeOK, RiskState
  <2>5. risk'.global <= Bankroll + Overrun
    BY <1>1, <2>1, <2>3, <2>4 DEF OppRecord
  <2>6. ASSUME NEW m \in Market
        PROVE  risk'.market[m] <= PerMarketCap + Overrun
    BY <1>1, <2>1, <2>3, <2>4 DEF OppRecord
  <2>7. QED
    BY <2>1, <2>5, <2>6
<1>6. QED
  BY <1>2, <1>3, <1>4, <1>5, StepKinds

LEMMA InitIInv == Init => IInv
<1> SUFFICES ASSUME Init PROVE IInv
  OBVIOUS
<1>1. risk.global = 0 /\ risk.openOrders = 0 /\ risk.market = [m \in Market |-> 0]
  BY DEF Init, NoteSessionStarts, NewRisk
<1>2. ExposureAccounted /\ Caps
  BY <1>1 DEF Init, ExposureAccounted, Reserved, Caps
<1>3. QED
  BY <1>2, InitTyped, InitPipeline DEF IInv

THEOREM Invariance == Spec => []IInv
<1>1. IInv /\ [Next]_vars => IInv'
  BY TypeStep, PipelineStep, AccountStep, CapsStep DEF IInv
<1>2. QED
  BY InitIInv, <1>1, PTL DEF Spec

(* Every variable keeps its type, whatever the constants.                  *)
THEOREM TypeCorrect == Spec => []TypeOK
BY Invariance, PTL DEF IInv

(* The risk engine never leaks or doubles a reservation.                   *)
THEOREM ExposureCorrect == Spec => []ExposureAccounted
BY Invariance, PTL DEF IInv

(* At most one basket is in flight, and the reservation is its own.        *)
THEOREM OneBasket == Spec => []SingleInFlight
<1>1. IInv => SingleInFlight
  <2> SUFFICES ASSUME TypeOK, Pipeline PROVE SingleInFlight
    BY DEF IInv
  <2>1. /\ execQ = <<>> \/ (busy /\ execQ = <<inFlight>>)
        /\ reportQ = <<>> \/ (busy /\ Len(reportQ) = 1 /\ reportQ[1].opp = inFlight)
    BY DEF Pipeline
  <2>2. /\ Len(execQ) = IF execQ = <<>> THEN 0 ELSE 1
        /\ Len(reportQ) = IF reportQ = <<>> THEN 0 ELSE 1
    BY <2>1
  <2>3. InPipeline <= 1 /\ (InPipeline = 1 => busy)
    BY <2>1, <2>2 DEF Pipeline, InPipeline
  <2>4. busy /\ InPipeline = 0 => ~execAlive
    BY <2>1, <2>2 DEF Pipeline, InPipeline
  <2>5. QED
    BY <2>1, <2>2, <2>3, <2>4 DEF Pipeline, SingleInFlight
<1>2. QED
  BY Invariance, <1>1, PTL

(* Exposure stays within the bankroll and the market caps plus at most     *)
(* one basket's repair overrun.                                            *)
THEOREM BoundedExposure == Spec => []ExposureBounded
<1>1. IInv => ExposureBounded
  BY DEF IInv, Caps, ExposureBounded
<1>2. QED
  BY Invariance, <1>1, PTL

(* run() returns with nothing executing and no phantom reservation.        *)
THEOREM EndsClean == Spec => []CleanEnd
<1>1. IInv => CleanEnd
  <2> SUFFICES ASSUME TypeOK, Pipeline, ExposureAccounted, pc = "done" PROVE CleanEnd
    BY DEF IInv, CleanEnd
  <2>1. /\ running = NoOpp /\ execQ = <<>> /\ reportQ = <<>>
        /\ ~busy /\ inFlight = NoOpp
    BY DEF Pipeline
  <2>2. book.total \in Int
    BY DEF TypeOK
  <2>3. risk.global = book.total /\ risk.openOrders = 0
    BY <2>1, <2>2 DEF ExposureAccounted
  <2>4. QED
    BY <2>1, <2>3 DEF CleanEnd
<1>2. QED
  BY Invariance, <1>1, PTL

(* No step puts a basket in flight past a kill flag, a halt or a pause.    *)
THEOREM StopsHold == Spec => StopHolds
<1>1. [Next]_vars =>
        [(killFlag \/ risk.halted # NoHalt \/ risk.paused) /\ ~busy => ~busy']_vars
  <2> SUFFICES ASSUME [Next]_vars, killFlag \/ risk.halted # NoHalt \/ risk.paused, ~busy
               PROVE  ~busy' \/ UNCHANGED vars
    OBVIOUS
  <2>1. ASSUME NEW o \in batch, ProcessOpp(o) PROVE ~busy'
    BY <2>1 DEF ProcessOpp, ExpireOrCool, GateOut, RiskReject, Suppress, Dispatch,
                Approved, Stopped
  <2>2. QED
    BY <2>1 DEF Next, Environment, CoordinatorStep, ExecStep, CloseOpps, TripKill,
        CooldownLapses, LoopTop, TakeOpps, SendExec, TakeReport, DrainReport, HandleReport,
        ReportClosed, HandleCtl, PnlTick, OppsClosed, DrainClosed, Finish, ExecTake,
        ExecReport, ExecPanic, Ended, coordVars, envVars, execVars
<1>2. QED
  BY <1>1, PTL DEF Spec, StopHolds

-----------------------------------------------------------------------------
(* No stop is silent.  The row and the published status are kept at every  *)
(* point of the loop, not only where it waits: a stop can only be set by   *)
(* a step that also logs and publishes it.  The one gap is the dispatch    *)
(* under way, whose basket shows with the next publish.                    *)

Spoken ==
  /\ risk.halted # NoHalt <=> haltRow # NoHalt
  /\ status.paused = risk.paused /\ status.killed = risk.killed
  /\ status.busy <=> busy /\ pc # "dispatch"
  /\ status.halted = risk.halted \/ risk.halted = "RestartStorm"

\* a step that leaves the stops and the busy flag as they are
Silent ==
  /\ risk'.halted = risk.halted /\ risk'.paused = risk.paused /\ risk'.killed = risk.killed
  /\ haltRow' = haltRow /\ status' = status
  /\ busy' /\ pc' # "dispatch" <=> busy /\ pc # "dispatch"

\* a step that publishes what it leaves behind
Speaks ==
  /\ risk.halted # NoHalt => risk'.halted # NoHalt
  /\ LogHalt(risk') \/ (risk'.halted = risk.halted /\ haltRow' = haltRow)
  /\ pc' # "dispatch"
  /\ \E rel \in BOOLEAN : status' = StatusOf(risk', busy', rel)

(* No operator of the engine takes a halt back; only record_error and the  *)
(* marks set one.                                                          *)
LEMMA HaltsStay ==
  ASSUME NEW r \in RiskState
  PROVE  /\ \A o \in OppRecord :
              /\ Reserve(r, o).halted = r.halted /\ Release(r, o).halted = r.halted
              /\ Reserve(r, o).paused = r.paused /\ Release(r, o).paused = r.paused
              /\ Reserve(r, o).killed = r.killed /\ Release(r, o).killed = r.killed
         /\ \A left : Commit(r, left).halted = r.halted
         /\ RecordSuccess(r).halted = r.halted
         /\ \A n \in Nat, aged \in 0..r.errors :
              r.halted # NoHalt => RecordErrors(r, n, aged).halted # NoHalt
         /\ \A mid, bid \in Int :
              r.halted # NoHalt => UpdateSessionPnl(UpdateEquity(r, mid), bid).halted # NoHalt
BY DEF RiskState, Reserve, Release, Commit, RecordSuccess, RecordErrors, UpdateEquity,
       UpdateSessionPnl, NoHalt

LEMMA MarkTyped ==
  ASSUME NEW mark \in Marks
  PROVE  mark[1] \in Int /\ mark[2] \in Int
<1>1. CASE book.flat
  BY <1>1 DEF Marks
<1>2. CASE ~book.flat
  <2>1. mark \in Equity \X Equity
    BY <1>2 DEF Marks
  <2>2. QED
    BY <2>1
<1>3. QED
  BY <1>1, <1>2

LEMMA SpokenKept ==
  ASSUME TypeOK, Spoken, Silent \/ Speaks
  PROVE  Spoken'
<1>1. CASE Silent
  BY <1>1 DEF Silent, Spoken
<1>2. CASE Speaks
  <2>1. PICK rel \in BOOLEAN : status' = StatusOf(risk', busy', rel)
    BY <1>2 DEF Speaks
  <2>2. /\ status'.paused = risk'.paused /\ status'.killed = risk'.killed
        /\ status'.busy = busy' /\ pc' # "dispatch" /\ status'.halted = risk'.halted
    BY <1>2, <2>1 DEF StatusOf, Speaks
  <2>3. risk'.halted # NoHalt <=> haltRow' # NoHalt
    BY <1>2 DEF Speaks, Spoken, LogHalt
  <2>4. QED
    BY <2>2, <2>3 DEF Spoken
<1>3. QED
  BY <1>1, <1>2

LEMMA ReportSpeaks ==
  ASSUME TypeOK, Pipeline, NEW aged \in 0..risk.errors, HandleReport(aged),
         pc' # "dispatch"
  PROVE  Speaks
<1> DEFINE rep == Head(reportQ)
<1>1. /\ rep.opp \in OppRecord /\ rep.res.errors \in Nat /\ risk \in RiskState
      /\ rep.res.left \in [market: [Market -> Nat], total: Nat]
  BY ReportPipeline, ResultTyped, OppFields DEF ResultRecord, TypeOK
<1> DEFINE base == Release(risk, rep.opp)
           taken == Commit(base, rep.res.left)
           good == rep.res.outcome \in {"FilledClean", "Repaired"}
           fed == IF good THEN RecordSuccess(taken) ELSE taken
<1>2. /\ base \in RiskState /\ base.errors = risk.errors /\ base.halted = risk.halted
  BY <1>1, RiskTyped, HaltsStay DEF Release, RiskState
<1>3. taken \in RiskState /\ taken.errors = risk.errors /\ taken.halted = risk.halted
  BY <1>1, <1>2, RiskTyped, HaltsStay DEF Commit, RiskState
<1>4. fed \in RiskState /\ aged \in 0..fed.errors /\ fed.halted = risk.halted
  <2> HIDE DEF taken
  <2>1. CASE good
    <3>1. aged = 0 /\ fed = RecordSuccess(taken)
      BY <2>1 DEF HandleReport, MayAge
    <3>2. RecordSuccess(taken) \in RiskState /\ RecordSuccess(taken).errors = 0
      BY <1>3, RiskTyped, ExposureUntouched
    <3>3. RecordSuccess(taken).halted = risk.halted
      BY <1>3, HaltsStay
    <3>4. QED
      BY <3>1, <3>2, <3>3
  <2>2. CASE ~good
    BY <2>2, <1>3
  <2>3. QED
    BY <2>1, <2>2
<1>5. ErrorsOf(rep.res) \in Nat
  BY <1>1 DEF ErrorsOf
<1>6. risk' = RecordErrors(fed, ErrorsOf(rep.res), aged)
  BY DEF HandleReport, AfterReport
<1>7. risk.halted # NoHalt => risk'.halted # NoHalt
  <2> HIDE DEF fed
  <2> QED
    BY <1>4, <1>5, <1>6, HaltsStay
<1>8. LogHalt(risk') /\ busy' = FALSE /\ status' = StatusOf(risk', FALSE, released)
  BY DEF HandleReport
<1>9. QED
  BY <1>7, <1>8 DEF Speaks, TypeOK

LEMMA SnapshotSpeaks ==
  ASSUME TypeOK, NEW r \in RiskState, r.halted = risk.halted, NEW mark \in Marks,
         Snapshot(r, busy', mark[1], mark[2]), pc' # "dispatch"
  PROVE  Speaks
<1>1. mark[1] \in Int /\ mark[2] \in Int
  BY MarkTyped
<1>2. risk' = UpdateSessionPnl(UpdateEquity(r, mark[1]), mark[2]) /\ LogHalt(risk')
      /\ status' = StatusOf(risk', busy', released)
  BY DEF Snapshot
<1>3. risk.halted # NoHalt => risk'.halted # NoHalt
  BY <1>1, <1>2, HaltsStay
<1>4. QED
  BY <1>2, <1>3 DEF Speaks, TypeOK

LEMMA ProcessVoice ==
  ASSUME TypeOK, Pipeline, Spoken, NEW o \in batch, ProcessOpp(o)
  PROVE  Silent \/ Speaks
<1>1. o \in OppRecord /\ pc = "batch" /\ NextTurn(batch') \in {"top", "batch"}
  BY OppFields, NextTurnTyped
     DEF TypeOK, ProcessOpp, ExpireOrCool, GateOut, RiskReject, Suppress, Dispatch, ProcessHead
<1>2. CASE Dispatch(o)
  <2>1. /\ risk'.halted = risk.halted /\ risk'.paused = risk.paused
        /\ risk'.killed = risk.killed
    BY <1>1, <1>2, HaltsStay DEF Dispatch, TypeOK
  <2>2. QED
    BY <1>2, <2>1 DEF Dispatch, Silent
<1>3. CASE RiskReject(o)
  <2>1. risk' = risk /\ busy' = busy /\ LogHalt(risk) /\ pc' # "dispatch"
    BY <1>1, <1>3 DEF RiskReject
  <2>2. CASE HaltNewlyLogged(risk)
    BY <1>3, <2>1, <2>2 DEF RiskReject, Speaks, TypeOK
  <2>3. CASE ~HaltNewlyLogged(risk)
    <3>1. haltRow' = haltRow /\ status' = status
      BY <1>3, <2>1, <2>3 DEF RiskReject, HaltNewlyLogged, LogHalt
    <3>2. QED
      BY <1>1, <2>1, <3>1 DEF Silent
  <2>4. QED
    BY <2>2, <2>3
<1>4. CASE (\E aged \in BOOLEAN : ExpireOrCool(o, aged)) \/ GateOut(o) \/ Suppress(o)
  BY <1>1, <1>4 DEF ExpireOrCool, GateOut, Suppress, Silent
<1>5. QED
  BY <1>2, <1>3, <1>4 DEF ProcessOpp

LEMMA VoiceStep ==
  TypeOK /\ Pipeline /\ Spoken /\ [Next]_vars => Silent \/ Speaks
<1> SUFFICES ASSUME TypeOK, Pipeline, Spoken, [Next]_vars
             PROVE  Silent \/ Speaks
  OBVIOUS
<1>1. CASE \/ Environment \/ ExecStep \/ Ended \/ UNCHANGED vars
           \/ TakeOpps \/ ReportClosed \/ OppsClosed \/ DrainClosed
  BY <1>1 DEF Environment, CloseOpps, TripKill, CooldownLapses, ExecStep, ExecTake,
     ExecReport, ExecPanic, Ended, TakeOpps, ReportClosed, OppsClosed, DrainClosed,
     vars, coordVars, envVars, execVars, Silent
<1>2. CASE LoopTop
  <2>1. CASE killFlag /\ ~risk.killed
    <3>1. /\ risk'.halted = risk.halted /\ haltRow' = haltRow /\ pc' # "dispatch"
          /\ status' = StatusOf(risk', busy', released)
      BY <1>2, <2>1 DEF LoopTop, TypeOK, RiskState
    <3>2. QED
      BY <3>1 DEF Speaks, TypeOK
  <2>2. CASE ~(killFlag /\ ~risk.killed)
    BY <1>2, <2>2 DEF LoopTop, Silent
  <2>3. QED
    BY <2>1, <2>2
<1>3. CASE \E o \in batch : ProcessOpp(o)
  BY <1>3, ProcessVoice
<1>4. CASE SendExec
  <2>1. pc = "dispatch" /\ pc' # "dispatch"
    BY <1>4, NextTurnTyped DEF SendExec
  <2>2. CASE execAlive
    <3>1. /\ UNCHANGED <<risk, busy, haltRow>> /\ status' = StatusOf(risk, busy, released)
      BY <1>4, <2>2 DEF SendExec
    <3>2. QED
      BY <2>1, <3>1 DEF Speaks, TypeOK
  <2>3. CASE ~execAlive
    <3>1. inFlight \in OppRecord
      BY <1>4, OppFields DEF SendExec, Pipeline, TypeOK
    <3>2. /\ risk'.halted = risk.halted /\ risk'.paused = risk.paused
          /\ risk'.killed = risk.killed
      BY <1>4, <2>3, <3>1, HaltsStay DEF SendExec, TypeOK
    <3>3. QED
      BY <1>4, <2>1, <2>3, <3>2 DEF SendExec, Silent
  <2>4. QED
    BY <2>2, <2>3
<1>5. CASE \E aged \in 0..risk.errors : TakeReport(aged) \/ DrainReport(aged)
  BY <1>5, ReportSpeaks DEF TakeReport, DrainReport
<1>6. CASE \E cmd \in Command : HandleCtl(cmd)
  <2>1. PICK cmd \in Command : HandleCtl(cmd)
    BY <1>6
  <2>2. risk'.halted = risk.halted
    BY <2>1 DEF HandleCtl, TypeOK, RiskState
  <2>3. /\ haltRow' = haltRow /\ busy' = busy /\ released' \in BOOLEAN /\ pc' # "dispatch"
        /\ status' = StatusOf(risk', busy, released')
    BY <2>1 DEF HandleCtl, TypeOK
  <2>4. QED
    BY <2>2, <2>3 DEF Speaks
<1>7. CASE PnlTick
  <2>1. PICK mark \in Marks : Snapshot(risk, busy, mark[1], mark[2])
    BY <1>7 DEF PnlTick
  <2>2. busy' = busy /\ pc' # "dispatch" /\ risk \in RiskState
    BY <1>7 DEF PnlTick, TypeOK
  <2>3. QED
    BY <2>1, <2>2, SnapshotSpeaks
<1>8. CASE Finish
  <2> DEFINE r == IF inFlight = NoOpp THEN risk ELSE Release(risk, inFlight)
             b == IF inFlight = NoOpp THEN busy ELSE FALSE
  <2>1. r \in RiskState /\ r.halted = risk.halted
    BY OppFields, RiskTyped, HaltsStay DEF TypeOK
  <2>2. PICK mark \in Marks : Snapshot(r, b, mark[1], mark[2])
    BY <1>8 DEF Finish
  <2>3. busy' = b /\ pc' # "dispatch"
    BY <1>8 DEF Finish
  <2> HIDE DEF r, b
  <2>4. QED
    BY <2>1, <2>2, <2>3, SnapshotSpeaks
<1>9. QED
  BY <1>1, <1>2, <1>3, <1>4, <1>5, <1>6, <1>7, <1>8 DEF Next, CoordinatorStep

(* A halt always has its row, a row always a halted engine, and whenever   *)
(* the loop waits the dashboard shows the stops and the basket as they are *)
(* (maybe_log_halt and the status publishes of every handler).             *)
THEOREM HaltsAreLogged == Spec => []HaltLogged
<1>1. Init => Spoken
  <2> SUFFICES ASSUME Init PROVE Spoken
    OBVIOUS
  <2>1. /\ risk.halted \in {NoHalt, "RestartStorm"} /\ haltRow = risk.halted
        /\ risk.paused = FALSE /\ risk.killed = FALSE /\ busy = FALSE
    BY DEF Init, NoteSessionStarts, NewRisk
  <2>2. /\ status.paused = FALSE /\ status.killed = FALSE /\ status.busy = FALSE
        /\ status.halted = NoHalt
    BY DEF Init, StatusOf, NewRisk
  <2>3. QED
    BY <2>1, <2>2 DEF Spoken
<1>2. TypeOK /\ Pipeline /\ Spoken /\ [Next]_vars => Spoken'
  BY VoiceStep, SpokenKept
<1>3. IInv => TypeOK /\ Pipeline
  BY DEF IInv
<1>4. TypeOK /\ Spoken => HaltLogged
  <2> SUFFICES ASSUME TypeOK, Spoken PROVE HaltLogged
    OBVIOUS
  <2>1. pc = "select" => status.busy = busy
    BY DEF TypeOK, StatusRecord, Spoken
  <2>2. QED
    BY <2>1 DEF Spoken, HaltLogged
<1>5. QED
  BY <1>1, <1>2, <1>3, <1>4, Invariance, PTL DEF Spec

LEMMA BarGrows ==
  ASSUME NEW n \in Nat, NEW m \in Nat, n <= m
  PROVE  Bar(n) \in Int /\ Bar(m) \in Int /\ Bar(n) <= Bar(m) /\ n <= Bar(n)
<1> DEFINE a == n * ImprovementPct
           b == m * ImprovementPct
<1>1. a \in Nat /\ b \in Nat
  OBVIOUS
<1>2. a <= b
  <2>1. PICK d \in Nat : m = n + d
    <3>1. m - n \in Nat /\ m = n + (m - n)
      OBVIOUS
    <3>2. QED
      BY <3>1
  <2>2. b = a + d * ImprovementPct /\ d * ImprovementPct \in Nat
    BY <2>1
  <2>3. QED
    BY <1>1, <2>2
<1> HIDE DEF a, b
<1>3. /\ a \div 100 \in Int /\ b \div 100 \in Int
      /\ a \div 100 <= b \div 100 /\ 0 <= a \div 100
  BY <1>1, <1>2
<1>4. Bar(n) = n + a \div 100 /\ Bar(m) = m + b \div 100
  BY DEF Bar, a, b
<1>5. QED
  BY <1>3, <1>4

\* The net that a dispatch has to beat is never below what was last dispatched.
BarKept == sent # NoNet => seen[Watched] \in Nat /\ sent <= seen[Watched]

LEMMA BarStep == TypeOK /\ BarKept /\ [Next]_vars => BarKept'
<1> SUFFICES ASSUME TypeOK, BarKept, [Next]_vars PROVE BarKept'
  OBVIOUS
<1>1. seen \in [Shape -> Nat \cup {NoNet}] /\ sent \in Nat \cup {NoNet} /\ Watched \in Shape
  BY DEF TypeOK
<1>2. CASE \E s \in Shape : CooldownLapses(s)
  BY <1>1, <1>2 DEF CooldownLapses, BarKept
<1>3. ASSUME NEW o \in batch, ProcessOpp(o) PROVE BarKept'
  <2>1. o.fp \in Shape /\ o.net \in Nat
    BY OppFields DEF TypeOK, OppRecord
  <2>2. CASE UNCHANGED coolVars
    BY <2>2 DEF BarKept
  <2>3. CASE Remember(o) /\ Admits(o) /\ UNCHANGED sent
    <3>1. CASE o.fp = Watched /\ sent # NoNet
      <4>1. /\ seen[Watched] \in Nat /\ sent \in Nat /\ sent <= seen[Watched]
            /\ seen[Watched] # NoNet
        BY <1>1, <3>1 DEF BarKept
      <4>2. o.net > Bar(seen[Watched])
        BY <2>3, <3>1, <4>1 DEF Admits
      <4>3. Bar(seen[Watched]) \in Int /\ seen[Watched] <= Bar(seen[Watched])
        BY <4>1, BarGrows
      <4>4. seen'[Watched] = o.net /\ sent' = sent
        BY <1>1, <2>3, <3>1 DEF Remember
      <4>5. QED
        BY <2>1, <4>1, <4>2, <4>3, <4>4 DEF BarKept
    <3>2. CASE o.fp # Watched \/ sent = NoNet
      BY <1>1, <2>1, <2>3, <3>2 DEF Remember, BarKept
    <3>3. QED
      BY <3>1, <3>2
  <2>4. CASE Send(o)
    BY <1>1, <2>1, <2>4 DEF Remember, BarKept
  <2>5. QED
    BY <1>3, <2>2, <2>3, <2>4
       DEF ProcessOpp, ExpireOrCool, GateOut, RiskReject, Suppress, Dispatch, ProcessHead
<1>4. CASE UNCHANGED coolVars
  BY <1>4 DEF BarKept
<1>5. QED
  BY <1>2, <1>3, <1>4
     DEF Next, Environment, CoordinatorStep, ExecStep, CloseOpps, TripKill, LoopTop,
         TakeOpps, SendExec, TakeReport, DrainReport, ReportClosed, HandleCtl, PnlTick,
         OppsClosed, DrainClosed, Finish, ExecTake, ExecReport, ExecPanic, Ended, vars,
         coordVars

(* Whatever a shape's opportunities met in between (a hold, a gate, the    *)
(* risk engine, a busy slot, the cooldown itself), its next dispatch       *)
(* inside the window pays more than the configured improvement over its    *)
(* last one, for any shape that is watched.                                *)
THEOREM RepeatsAlwaysImprove == Spec => RepeatsImprove
<1>1. Init => BarKept
  BY DEF Init, BarKept
<1>2. TypeOK /\ BarKept /\ [Next]_vars =>
        [~busy /\ busy' /\ inFlight'.fp = Watched /\ sent # NoNet
           => inFlight'.net > Bar(sent)]_vars
  <2> SUFFICES ASSUME TypeOK, BarKept, [Next]_vars, ~busy, busy',
                      inFlight'.fp = Watched, sent # NoNet
               PROVE  inFlight'.net > Bar(sent)
    BY Zenon
  <2>1. PICK o \in batch : Dispatch(o)
    BY DEF Next, Environment, CoordinatorStep, ExecStep, CloseOpps, TripKill,
        CooldownLapses, LoopTop, TakeOpps, ProcessOpp, ExpireOrCool, GateOut, RiskReject,
        Suppress, SendExec, TakeReport, DrainReport, HandleReport, ReportClosed, HandleCtl,
        PnlTick, OppsClosed, DrainClosed, Finish, ExecTake, ExecReport, ExecPanic, Ended,
        vars, coordVars, envVars, execVars
  <2>2. /\ seen[Watched] \in Nat /\ sent \in Nat /\ sent <= seen[Watched]
        /\ seen[Watched] # NoNet
    BY DEF BarKept, TypeOK
  <2>3. inFlight' = o /\ o.net \in Nat /\ o.net > Bar(seen[Watched])
    BY <2>1, <2>2, OppFields DEF Dispatch, Admits, TypeOK, OppRecord
  <2>4. Bar(sent) \in Int /\ Bar(seen[Watched]) \in Int /\ Bar(sent) <= Bar(seen[Watched])
    BY <2>2, BarGrows
  <2>5. QED
    BY <2>3, <2>4
<1>3. QED
  BY <1>1, <1>2, BarStep, TypeCorrect, PTL DEF Spec, RepeatsImprove

-----------------------------------------------------------------------------
(***************************************************************************)
(* The pipeline implements Exposure.  Beside the inductive invariant the   *)
(* argument needs `Death': once the execution task is gone the slot stays  *)
(* taken, so no basket is ever handed to a dead task and none leaves the   *)
(* pipeline without being executed.                                        *)
(***************************************************************************)

Death ==
  ~execAlive => reportQ = <<>> /\ pc # "dispatch" /\ (busy \/ pc = "done")

LEMMA DeathStep == TypeOK /\ Pipeline /\ Death /\ [Next]_vars => Death'
<1> SUFFICES ASSUME TypeOK, Pipeline, Death, [Next]_vars PROVE Death'
  OBVIOUS
<1> USE DEF Death
<1>1. ASSUME NEW o \in batch, ProcessOpp(o) PROVE Death'
  BY <1>1 DEF ProcessOpp, ExpireOrCool, GateOut, RiskReject, Suppress, Dispatch,
              ProcessHead, NextTurn, envVars, execVars
<1>2. ASSUME NEW aged \in 0..risk.errors, TakeReport(aged) \/ DrainReport(aged) PROVE Death'
  BY <1>2 DEF TakeReport, DrainReport, HandleReport
<1>3. CASE ExecStep
  BY <1>3 DEF ExecStep, ExecTake, ExecReport, ExecPanic, Pipeline, coordVars, envVars
<1>4. CASE LoopTop \/ TakeOpps \/ SendExec \/ ReportClosed \/ PnlTick \/ OppsClosed
             \/ DrainClosed \/ Finish
  BY <1>4 DEF LoopTop, TakeOpps, SendExec, ReportClosed, PnlTick, OppsClosed, DrainClosed,
              Finish, NextTurn, envVars, execVars
<1>5. ASSUME NEW cmd \in Command, HandleCtl(cmd) PROVE Death'
  BY <1>5 DEF HandleCtl, envVars, execVars
<1>6. CASE Environment \/ UNCHANGED vars
  BY <1>6 DEF Environment, CloseOpps, TripKill, CooldownLapses, vars, coordVars, envVars,
              execVars
<1>7. QED
  BY <1>1, <1>2, <1>3, <1>4, <1>5, <1>6 DEF Next, CoordinatorStep, Ended

-----------------------------------------------------------------------------
(* A kill, a halt and a tripped engine are never taken back.               *)
LEMMA LatchesStay ==
  ASSUME NEW r \in RiskState
  PROVE  /\ \A n \in Nat, aged \in 0..r.errors :
              /\ r.halted # NoHalt => RecordErrors(r, n, aged).halted # NoHalt
              /\ RecordErrors(r, n, aged).killed = r.killed
         /\ \A e, p : /\ r.halted # NoHalt => UpdateSessionPnl(UpdateEquity(r, e), p).halted # NoHalt
                      /\ UpdateSessionPnl(UpdateEquity(r, e), p).killed = r.killed
BY DEF RiskState, RecordErrors, UpdateEquity, UpdateSessionPnl, NoHalt, HaltReason

LEMMA LatchStep == TypeOK /\ Pipeline /\ [Next]_vars => (Latched => Latched')
<1> SUFFICES ASSUME TypeOK, Pipeline, [Next]_vars, Latched PROVE Latched'
  OBVIOUS
<1>1. CASE UNCHANGED <<killFlag, risk>>
  BY <1>1 DEF Latched
<1>2. CASE TripKill \/ LoopTop
  BY <1>2 DEF TripKill, LoopTop, Latched, envVars, coordVars, TypeOK, RiskState
<1>3. ASSUME NEW o \in batch, ProcessOpp(o) PROVE Latched'
  BY <1>1, <1>3 DEF ProcessOpp, ExpireOrCool, GateOut, RiskReject, Suppress, Dispatch,
                    Reserve, Latched, envVars, TypeOK, RiskState
<1>4. CASE SendExec
  BY <1>4 DEF SendExec, Release, Latched, envVars, TypeOK, RiskState
<1>5. ASSUME NEW aged \in 0..risk.errors, TakeReport(aged) \/ DrainReport(aged) PROVE Latched'
  <2>1. HandleReport(aged) /\ killFlag' = killFlag
    BY <1>5 DEF TakeReport, DrainReport, envVars
  <2> DEFINE rep == Head(reportQ)
             base == Release(risk, rep.opp)
             taken == Commit(base, rep.res.left)
             fed == IF rep.res.outcome \in {"FilledClean", "Repaired"}
                    THEN RecordSuccess(taken) ELSE taken
  <2>2. risk' = RecordErrors(fed, ErrorsOf(rep.res), aged)
    BY <2>1 DEF HandleReport, AfterReport
  <2>3. fed.killed = risk.killed /\ fed.halted = risk.halted
    BY DEF Release, Commit, RecordSuccess, TypeOK, RiskState
  <2>6. "killed" \in DOMAIN fed /\ "halted" \in DOMAIN fed
    BY DEF Release, Commit, RecordSuccess, TypeOK, RiskState
  <2>4. /\ risk'.killed = risk.killed
        /\ risk.halted # NoHalt => risk'.halted # NoHalt
    <3> HIDE DEF fed
    <3> QED
      BY <2>2, <2>3, <2>6 DEF RecordErrors, NoHalt
  <2>5. QED
    BY <2>1, <2>4 DEF Latched
<1>6. ASSUME NEW cmd \in Command, HandleCtl(cmd) PROVE Latched'
  BY <1>6 DEF HandleCtl, Latched, envVars, TypeOK, RiskState
<1>7. CASE PnlTick
  <2>1. PICK mark \in Marks : Snapshot(risk, busy, mark[1], mark[2])
    BY <1>7 DEF PnlTick
  <2>2. QED
    BY <1>7, <2>1, LatchesStay DEF PnlTick, Snapshot, Latched, envVars, TypeOK
<1>8. CASE Finish
  <2> DEFINE r == IF inFlight = NoOpp THEN risk ELSE Release(risk, inFlight)
             b == IF inFlight = NoOpp THEN busy ELSE FALSE
  <2>1. r \in RiskState
    BY OppFields, RiskTyped DEF TypeOK
  <2>2. r.killed = risk.killed /\ r.halted = risk.halted
    BY DEF Release, TypeOK, RiskState
  <2>3. PICK mark \in Marks : Snapshot(r, b, mark[1], mark[2])
    BY <1>8 DEF Finish
  <2>4. killFlag' = killFlag
    BY <1>8 DEF Finish, envVars
  <2>5. QED
    <3> HIDE DEF r
    <3> QED
      BY <2>1, <2>2, <2>3, <2>4, LatchesStay DEF Snapshot, Latched
<1>9. QED
  BY <1>1, <1>2, <1>3, <1>4, <1>5, <1>6, <1>7, <1>8
     DEF Next, Environment, CoordinatorStep, ExecStep, CloseOpps, CooldownLapses,
         TakeOpps, ReportClosed, OppsClosed, DrainClosed, ExecTake, ExecReport, ExecPanic,
         Ended, vars, coordVars, envVars, execVars

-----------------------------------------------------------------------------
(* Steps that leave the basket, the exposure and the queues alone change   *)
(* at most the stops.                                                      *)
Still ==
  /\ inFlight' = inFlight /\ execQ' = execQ /\ running' = running /\ reportQ' = reportQ
  /\ risk'.global = risk.global /\ risk'.market = risk.market
  /\ (pc = "dispatch" <=> pc' = "dispatch") \/ inFlight = NoOpp \/ execQ # <<>>

LEMMA StillStep ==
  ASSUME Still, Latched => Latched' PROVE [Promise!Next]_(Promise!vars)
<1>1. Stage' = Stage /\ LeftBehind' = LeftBehind
  BY DEF Still, Stage, LeftBehind
<1>2. Promise!StopsMayChange
  BY DEF Promise!StopsMayChange, Latched
<1>3. Promise!StopChange
  BY <1>1, <1>2 DEF Promise!StopChange, Still
<1>4. QED
  BY <1>3 DEF Promise!Next

LEMMA AdmitStep ==
  ASSUME TypeOK, Pipeline, Death, NEW o \in batch, Dispatch(o)
  PROVE  Promise!Admit(o)
<1>1. o \in Opp /\ o \in OppRecord /\ o # NoOpp
  BY OppFields DEF TypeOK
<1>2. /\ inFlight = NoOpp /\ inFlight' = o /\ pc' = "dispatch" /\ reportQ = <<>>
      /\ reportQ' = reportQ /\ killFlag' = killFlag /\ ~Latched /\ ~risk.paused
  BY DEF Dispatch, Pipeline, Approved, Stopped, Latched, envVars, execVars
<1>3. risk' = Reserve(risk, o) /\ risk.global + o.cost <= Bankroll
  BY DEF Dispatch, Approved, WithinCaps
<1>4. /\ risk'.global = risk.global + o.cost
      /\ risk'.market = [m \in Market |-> risk.market[m] + o.market[m]]
      /\ risk'.halted = risk.halted /\ risk'.killed = risk.killed /\ risk'.paused = risk.paused
  BY <1>3 DEF Reserve, TypeOK, RiskState
<1>5. Stage = "idle" /\ Stage' = "admitted" /\ LeftBehind' = NoLeft
  BY <1>1, <1>2 DEF Stage, LeftBehind
<1>6. Latched' = Latched
  BY <1>2, <1>4 DEF Latched
<1>7. QED
  BY <1>2, <1>3, <1>4, <1>5, <1>6 DEF Promise!Admit, Promise!Plus, Promise!WorstCase

(* Settling with `left' turns the reservation into it.                     *)
LEMMA SettleStep ==
  ASSUME inFlight # NoOpp, inFlight' = NoOpp, Stage \in {"reported", "lost"},
         risk'.global = risk.global - inFlight.cost + LeftBehind.total,
         risk'.market = [m \in Market |->
                           risk.market[m] - inFlight.market[m] + LeftBehind.market[m]],
         reportQ' = <<>>, Latched => Latched'
  PROVE  Promise!Settle
<1>1. Stage' = "idle" /\ LeftBehind' = NoLeft
  BY DEF Stage, LeftBehind
<1>2. Promise!StopsMayChange
  BY DEF Promise!StopsMayChange, Latched
<1>3. QED
  BY <1>1, <1>2 DEF Promise!Settle, Promise!Plus, Promise!Minus, Promise!WorstCase

LEMMA ReportSettlesAs ==
  ASSUME TypeOK, Pipeline, NEW aged \in 0..risk.errors, HandleReport(aged)
  PROVE  /\ inFlight # NoOpp /\ inFlight' = NoOpp /\ reportQ' = <<>>
         /\ inFlight \in OppRecord
         /\ LeftBehind \in [market: [Market -> Nat], total: Nat]
         /\ risk'.global = risk.global - inFlight.cost + LeftBehind.total
         /\ risk'.market = [m \in Market |->
                              risk.market[m] - inFlight.market[m] + LeftBehind.market[m]]
<1>1. /\ inFlight \in Opp /\ inFlight \in OppRecord /\ inFlight # NoOpp /\ inFlight' = NoOpp
      /\ Head(reportQ).opp = inFlight /\ Head(reportQ).res \in ExecResult(inFlight)
  BY ReportPipeline, OppFields
<1>2. reportQ' = <<>>
  <2>1. PICK res \in ExecResult(inFlight) : reportQ = <<[opp |-> inFlight, res |-> res]>>
    BY DEF HandleReport, Pipeline
  <2>2. QED
    BY <2>1 DEF HandleReport
<1>3. LeftBehind = Head(reportQ).res.left
  BY DEF HandleReport, LeftBehind
<1>4. LeftBehind \in [market: [Market -> Nat], total: Nat]
  BY <1>1, <1>3, ResultTyped DEF ResultRecord
<1>5. SameExposure(risk', Commit(Release(risk, inFlight), LeftBehind))
  BY <1>3, ReportSettlesExactly
<1>6. QED
  BY <1>1, <1>2, <1>4, <1>5 DEF SameExposure, Release, Commit, TypeOK, RiskState, OppRecord

LEMMA FinishSettles ==
  ASSUME TypeOK, Pipeline, Finish, inFlight # NoOpp, Latched => Latched'
  PROVE  Promise!Settle
<1>1. execQ = <<>> /\ running = NoOpp /\ reportQ = <<>> /\ pc = "final"
  BY DEF Finish, Pipeline
<1>2. Stage = "lost" /\ LeftBehind = NoLeft
  BY <1>1 DEF Stage, LeftBehind
<1>3. inFlight \in OppRecord
  BY OppFields DEF TypeOK
<1>4. PICK mark \in Marks : Snapshot(Release(risk, inFlight), FALSE, mark[1], mark[2])
  BY DEF Finish
<1>5. SameExposure(risk', Release(risk, inFlight))
  BY <1>3, <1>4, RiskTyped, SnapshotExposure DEF TypeOK
<1>6. /\ risk'.global = risk.global - inFlight.cost
      /\ risk'.market = [m \in Market |-> risk.market[m] - inFlight.market[m]]
  BY <1>5 DEF SameExposure, Release, TypeOK, RiskState
<1>7. /\ risk.global - inFlight.cost \in Int
      /\ \A m \in Market : risk.market[m] - inFlight.market[m] \in Int
  <2>1. risk.global \in Int /\ risk.market \in [Market -> Int]
    BY DEF TypeOK, RiskState
  <2>2. inFlight.cost \in Nat /\ inFlight.market \in [Market -> Nat]
    BY <1>3, Zenon DEF OppRecord
  <2>3. QED
    BY <2>1, <2>2
<1>8. /\ risk'.global = risk.global - inFlight.cost + NoLeft.total
      /\ risk'.market = [m \in Market |->
                           risk.market[m] - inFlight.market[m] + NoLeft.market[m]]
  BY <1>6, <1>7 DEF NoLeft
<1>9. inFlight' = NoOpp /\ reportQ' = <<>>
  BY <1>1 DEF Finish, execVars
<1>10. QED
  BY <1>2, <1>8, <1>9, SettleStep

LEMMA RefinementStep ==
  TypeOK /\ Pipeline /\ Death /\ [Next]_vars => [Promise!Next]_(Promise!vars)
<1> SUFFICES ASSUME TypeOK, Pipeline, Death, [Next]_vars
             PROVE  [Promise!Next]_(Promise!vars)
  OBVIOUS
<1>0. Latched => Latched'
  BY LatchStep
<1>1. CASE Still
  BY <1>0, <1>1, StillStep
<1>2. ASSUME NEW o \in batch, ProcessOpp(o) PROVE [Promise!Next]_(Promise!vars)
  <2>1. CASE Dispatch(o)
    BY <2>1, AdmitStep DEF Promise!Next, TypeOK
  <2>2. CASE ~Dispatch(o)
    BY <1>1, <1>2, <2>2 DEF ProcessOpp, ExpireOrCool, GateOut, RiskReject, Suppress,
                           ProcessHead, NextTurn, Still, execVars
  <2>3. QED
    BY <2>1, <2>2
<1>3. CASE SendExec
  <2>1. execAlive /\ running = NoOpp /\ reportQ = <<>> /\ inFlight # NoOpp /\ execQ = <<>>
    BY <1>3 DEF SendExec, Death, Pipeline
  <2>2. UNCHANGED <<inFlight, running, reportQ, risk, killFlag>> /\ pc = "dispatch"
    BY <1>3, <2>1 DEF SendExec, envVars
  <2>5. execQ' # <<>>
    <3>1. execQ' = Append(<<>>, inFlight)
      BY <1>3, <2>1 DEF SendExec
    <3>2. QED
      BY <3>1
  <2>3. UNCHANGED <<Stage, LeftBehind, Latched>>
    BY <2>1, <2>2, <2>5 DEF Stage, LeftBehind, Latched
  <2>4. QED
    BY <2>2, <2>3 DEF Promise!vars
<1>4. ASSUME NEW aged \in 0..risk.errors, TakeReport(aged) \/ DrainReport(aged)
      PROVE  [Promise!Next]_(Promise!vars)
  <2>1. HandleReport(aged) /\ pc # "dispatch" /\ execQ = <<>> /\ running = NoOpp /\ reportQ # <<>>
    BY <1>4 DEF TakeReport, DrainReport, HandleReport, Pipeline
  <2>2. inFlight # NoOpp
    BY <2>1, ReportSettlesAs
  <2>3. Stage = "reported"
    BY <2>1, <2>2 DEF Stage
  <2>4. Promise!Settle
    BY <1>0, <2>1, <2>3, ReportSettlesAs, SettleStep
  <2>5. QED
    BY <2>4 DEF Promise!Next
<1>5. CASE LoopTop
  <2>1. risk'.global = risk.global /\ risk'.market = risk.market
    BY <1>5 DEF LoopTop, TypeOK, RiskState
  <2>2. QED
    BY <1>1, <1>5, <2>1 DEF LoopTop, Still, execVars
<1>6. ASSUME NEW cmd \in Command, HandleCtl(cmd) PROVE [Promise!Next]_(Promise!vars)
  <2>1. risk'.global = risk.global /\ risk'.market = risk.market
    BY <1>6 DEF HandleCtl, TypeOK, RiskState
  <2>2. QED
    BY <1>1, <1>6, <2>1 DEF HandleCtl, Still, execVars
<1>7. CASE PnlTick
  <2>1. PICK mark \in Marks : Snapshot(risk, busy, mark[1], mark[2])
    BY <1>7 DEF PnlTick
  <2>2. SameExposure(risk', risk)
    BY <2>1, SnapshotExposure DEF TypeOK
  <2>3. QED
    BY <1>1, <1>7, <2>2 DEF PnlTick, Still, SameExposure, execVars
<1>8. CASE Finish
  <2>1. CASE inFlight # NoOpp
    BY <1>0, <1>8, <2>1, FinishSettles DEF Promise!Next
  <2>2. CASE inFlight = NoOpp
    <3>1. PICK mark \in Marks : Snapshot(risk, busy, mark[1], mark[2])
      BY <1>8, <2>2 DEF Finish
    <3>2. SameExposure(risk', risk)
      BY <3>1, SnapshotExposure DEF TypeOK
    <3>3. QED
      BY <1>1, <1>8, <2>2, <3>2 DEF Finish, Still, SameExposure, execVars
  <2>3. QED
    BY <2>1, <2>2
<1>9. CASE ExecTake
  <2>1. /\ execQ = <<inFlight>> /\ execQ' = <<>> /\ running = NoOpp /\ reportQ = <<>>
        /\ running' = inFlight /\ inFlight # NoOpp /\ pc # "dispatch"
        /\ UNCHANGED <<inFlight, reportQ, risk, killFlag, pc>>
    BY <1>9 DEF ExecTake, Pipeline, coordVars, envVars
  <2>2. Stage = "admitted" /\ Stage' = "executing" /\ UNCHANGED <<LeftBehind, Latched>>
    BY <2>1 DEF Stage, LeftBehind, Latched
  <2>3. QED
    BY <2>1, <2>2 DEF Promise!Execute, Promise!Next
<1>10. CASE ExecReport
  <2>1. /\ running = inFlight /\ inFlight # NoOpp /\ reportQ = <<>> /\ execQ = <<>>
        /\ pc # "dispatch" /\ running' = NoOpp
        /\ UNCHANGED <<inFlight, execQ, risk, killFlag, pc>>
    BY <1>10 DEF ExecReport, Pipeline, coordVars, envVars
  <2>2. PICK res \in ExecResult(inFlight) : reportQ' = <<[opp |-> inFlight, res |-> res]>>
    BY <1>10, <2>1 DEF ExecReport
  <2>3. /\ Stage = "executing" /\ Stage' = "reported" /\ LeftBehind' = res.left
        /\ UNCHANGED Latched
    BY <2>1, <2>2 DEF Stage, LeftBehind, Latched
  <2>4. inFlight \in Opp /\ LeftBehind' \in ResultLeft[inFlight]
    BY <2>1, <2>2, <2>3 DEF ResultLeft, TypeOK
  <2>5. QED
    BY <2>1, <2>3, <2>4 DEF Promise!Report, Promise!Next
<1>11. CASE ExecPanic
  <2>1. /\ running = inFlight /\ inFlight # NoOpp /\ reportQ = <<>> /\ execQ = <<>>
        /\ pc # "dispatch" /\ running' = NoOpp /\ execQ' = <<>>
        /\ UNCHANGED <<inFlight, reportQ, risk, killFlag, pc>>
    BY <1>11 DEF ExecPanic, Pipeline, coordVars, envVars
  <2>2. Stage = "executing" /\ Stage' = "lost" /\ UNCHANGED <<LeftBehind, Latched>>
    BY <2>1 DEF Stage, LeftBehind, Latched
  <2>3. QED
    BY <2>1, <2>2 DEF Promise!Lose, Promise!Next
<1>12. CASE \/ Environment \/ TakeOpps \/ ReportClosed \/ OppsClosed \/ DrainClosed
            \/ UNCHANGED vars
  BY <1>1, <1>12 DEF Environment, CloseOpps, TripKill, CooldownLapses, TakeOpps, ReportClosed,
     OppsClosed, DrainClosed, Still, vars, coordVars, envVars, execVars
<1>13. QED
  BY <1>2, <1>3, <1>4, <1>5, <1>6, <1>7, <1>8, <1>9, <1>10, <1>11, <1>12
     DEF Next, CoordinatorStep, ExecStep, Ended

LEMMA RefinementInit == Init => Promise!Init
BY DEF Init, NoteSessionStarts, NewRisk, Promise!Init, Stage, LeftBehind, Latched, NoLeft,
       NoHalt

(* The pipeline implements the reservation protocol: at most one basket    *)
(* between admission and settlement, admitted under no stop, executed at   *)
(* most once, settled exactly once with what its execution left.           *)
THEOREM Implements == Spec => ImplementsExposure
<1>1. Init => Death
  BY DEF Init, Death
<1>2. TypeOK /\ Pipeline /\ Death /\ [Next]_vars => Death'
  BY DeathStep
<1>3. IInv => TypeOK /\ Pipeline
  BY DEF IInv
<1>4. QED
  BY <1>1, <1>2, <1>3, Invariance, RefinementInit, RefinementStep, PTL
     DEF Spec, ImplementsExposure, Promise!Spec
===============================================================================
