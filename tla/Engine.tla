------------------------------- MODULE Engine -------------------------------
(***************************************************************************)
(* The opportunity engine (crates/engine and the detector of crates/app):  *)
(* from the valid books of a component, the baskets of classes 1 to 3 are  *)
(* sized by walking all legs' ladders in step, and class 4 re-prices the   *)
(* answer of an LP solver.  The solver is external: it may answer any      *)
(* quantities at all; only the code around it is modelled.  Where setup    *)
(* comes from is Universe's.                                               *)
(*                                                                         *)
(* A price is in micro-dollars per share; Dollar of them make a dollar, as *)
(* many micro-shares a share, and BpsDen basis points the whole.  The      *)
(* scaled amounts of the walk are multiples of 1/(BpsDen * Dollar)         *)
(* micro-dollars.                                                          *)
(***************************************************************************)
EXTENDS Worlds, Sequences

CONSTANTS
  Dollar, BpsDen,
  Gas,                 \* GasTable
  Redeem,              \* "Merge" or "Hold"
  MaxBasis, MinProfit,
  FloorC12, FloorC3,
  MaxWorlds,
  Solved,              \* the fee and the books of the jobs the solver takes and answers
  Amounts              \* of one of the columns of its answer, at most three of them

NoBook == [asks |-> <<>>, bids |-> <<>>, valid |-> FALSE]
NoBasket == [class |-> "none"]
NothingFound == [class |-> "none"]

ASSUME EngineAssumption ==
  /\ Dollar \in Nat \ {0} /\ BpsDen \in Nat \ {0}
  /\ Redeem \in {"Merge", "Hold"}
  /\ MaxBasis \in Nat /\ MinProfit \in Nat /\ MaxWorlds \in Nat
  /\ Amounts \subseteq Nat \ {0}

VARIABLES
  setup,               \* a component, its fee rate, and a book or NoBook per token
  basket,              \* the BasketSpec being walked, and then
  cur,                 \* per leg: the level the cursor is at and what remains there
  segs,                \* per leg: (price, filled) of each level touched
  units, used,         \* of the walk: micro-shares, micro-dollars
  opp                  \* what the detection ended in

walking == <<cur, segs, units, used>>
engineVars == <<setup, basket, walking, opp>>

comp == setup.component
Readable(t) == TokenOf(t) \in DOMAIN setup.books /\ setup.books[TokenOf(t)].valid
LadderOf(t, action) ==
  IF action = "Buy" THEN setup.books[TokenOf(t)].asks ELSE setup.books[TokenOf(t)].bids

RoundedUp(a, b) == (a + b - 1) \div b
Lesser(a, b) == IF a < b THEN a ELSE b

FeeBase(px) == setup.fee * Lesser(px, Dollar - px)
Fee(px, q) == RoundedUp(FeeBase(px) * q, BpsDen * Dollar)
BuyCost(px, q) == RoundedUp(px * q, Dollar)
SellProceeds(px, q) == (px * q) \div Dollar
EdgeBps(net, basis) == (net * BpsDen) \div basis

-----------------------------------------------------------------------------
(* Which baskets there are: on_apply and the detect functions of the three *)
(* classes.  Gas is per basket.                                            *)

Buying(tokens) == [t \in tokens |-> "Buy"]
Selling(tokens) == [t \in tokens |-> "Sell"]

SetOf(m) == {YesOf(m), NoOf(m)}

Class1 ==
  UNION {{[class |-> "C1Long", legs |-> Buying(SetOf(m)), payout |-> Dollar, collateral |-> 0,
           gas |-> IF Redeem = "Merge" THEN Gas.merge ELSE Gas.redeem, floor |-> FloorC12],
          [class |-> "C1Short", legs |-> Selling(SetOf(m)), payout |-> 0, collateral |-> Dollar,
           gas |-> Gas.split, floor |-> FloorC12]} :
         m \in {m \in comp.markets : \A t \in SetOf(m) : Readable(t)}}

\* Mutant: an unverified partition is taken for complete.
AnyPartition == {p \in comp.partitions : LengthOf(p.outcomes) >= 2}

Tradable == {p \in comp.partitions : p.exhaustive /\ LengthOf(p.outcomes) >= 2}
LanesOf(p) == Lanes(p.outcomes, "yes") \cup Lanes(p.outcomes, "no")

\* a leg per outcome, which of one listed twice are two
Class2 ==
  UNION {{[class |-> "C2Long", legs |-> Buying(Lanes(p.outcomes, "yes")), payout |-> Dollar,
           collateral |-> 0, gas |-> Gas.redeem, floor |-> FloorC12],
          [class |-> "C2Short", legs |-> Buying(Lanes(p.outcomes, "no")),
           payout |-> (LengthOf(p.outcomes) - 1) * Dollar,
           collateral |-> 0, gas |-> Gas.convert, floor |-> FloorC12]} :
         p \in {p \in Tradable : \A t \in LanesOf(p) : Readable(t)}}

Class3 ==
  {[class |-> "C3", legs |-> Buying(pair), payout |-> Dollar, collateral |-> 0,
    gas |-> Gas.redeem, floor |-> FloorC3] :
   pair \in {pair \in UNION {Pairs(r) : r \in comp.relations} : \A t \in pair : Readable(t)}}

Baskets == Class1 \cup (IF LengthOf(comp.listed) > 1 THEN Class2 \cup Class3 ELSE {})

-----------------------------------------------------------------------------
(* walker.rs *)

Legs == DOMAIN basket.legs

ScaledLegCost(action, px) ==
  IF action = "Buy" THEN BpsDen * px + FeeBase(px) ELSE -(BpsDen * px - FeeBase(px))

AtLevel(t, i) ==
  LET l == LadderOf(t, basket.legs[t])
  IN  [lvl |-> i, rem |-> IF i > Len(l) THEN 0 ELSE l[i].qty]

Exhausted(t) == cur[t].lvl > Len(LadderOf(t, basket.legs[t]))
PxAt(t) == LadderOf(t, basket.legs[t])[cur[t].lvl].px
LegCost == [t \in Legs |-> ScaledLegCost(basket.legs[t], PxAt(t))]
Buys == {t \in Legs : basket.legs[t] = "Buy"}

\* Mutant: the fees are left to the final pricing.
MarginalWithoutFees ==
  BpsDen * (basket.payout - basket.collateral)
    - SumFunctionOnSet([t \in Legs |->
        IF basket.legs[t] = "Buy" THEN BpsDen * PxAt(t) ELSE -(BpsDen * PxAt(t))], Legs)

\* the scaled net of one more share at the levels the cursors are at
Marginal == BpsDen * (basket.payout - basket.collateral) - SumFunctionOnSet(LegCost, Legs)

BasisPerShare == BpsDen * basket.collateral + SumFunctionOnSet(LegCost, Buys)

\* the micro-shares the rest of the basis buys
CapLeft == ((MaxBasis - used) * BpsDen * Dollar) \div BasisPerShare

Chunk ==
  LET depth == Min({cur[t].rem : t \in Legs})
  IN  IF BasisPerShare > 0 THEN Lesser(depth, CapLeft) ELSE depth

Profitable == (\A t \in Legs : ~Exhausted(t)) /\ Marginal > 0 /\ Chunk > 0

Detect ==
  /\ basket = NoBasket /\ opp = NothingFound
  /\ \E b \in Baskets :
       /\ basket' = b
       /\ cur' = [t \in DOMAIN b.legs |->
                    LET l == LadderOf(t, b.legs[t])
                    IN  [lvl |-> 1, rem |-> IF l = <<>> THEN 0 ELSE l[1].qty]]
       /\ segs' = [t \in DOMAIN b.legs |-> <<>>]
       /\ units' = 0 /\ used' = 0
  /\ UNCHANGED <<setup, opp>>

\* the level's segment grows, or a first one is opened
Extended(s, px, q) ==
  IF s # <<>> /\ s[Len(s)].px = px
  THEN [s EXCEPT ![Len(s)].qty = @ + q]
  ELSE Append(s, [px |-> px, qty |-> q])

\* one iteration of the march: the same chunk on every leg
Take ==
  /\ basket # NoBasket /\ opp = NothingFound
  /\ Profitable
  /\ segs' = [t \in Legs |-> Extended(segs[t], PxAt(t), Chunk)]
  /\ cur' = [t \in Legs |-> IF cur[t].rem = Chunk THEN AtLevel(t, cur[t].lvl + 1)
                            ELSE [cur[t] EXCEPT !.rem = @ - Chunk]]
  /\ units' = units + Chunk
  /\ used' = used + RoundedUp(BasisPerShare * Chunk, BpsDen * Dollar)
  /\ UNCHANGED <<setup, basket, opp>>

Trades ==
  UNION {{[token |-> t, action |-> basket.legs[t], px |-> segs[t][i].px, qty |-> segs[t][i].qty] :
          i \in DOMAIN segs[t]} : t \in Legs}

OutlayOf(tr) == BuyCost(tr.px, tr.qty) + Fee(tr.px, tr.qty)
InflowOf(tr) == SellProceeds(tr.px, tr.qty) - Fee(tr.px, tr.qty)
Outlay(trades) ==
  LET bought == {tr \in trades : tr.action = "Buy"}
  IN  SumFunctionOnSet([tr \in bought |-> OutlayOf(tr)], bought)
Inflow(trades) ==
  LET sold == {tr \in trades : tr.action = "Sell"}
  IN  SumFunctionOnSet([tr \in sold |-> InflowOf(tr)], sold)

\* Mutant: the limit allows a tick of slippage.
LimitPxSlipping(s) == s[Len(s)].px + 1

\* a leg is submitted at the price of the worst level it touched
LimitPx(s) == s[Len(s)].px

Clears(net, basis, floor) == net >= MinProfit /\ basis > 0 /\ EdgeBps(net, basis) >= floor

NetOfWalk ==
  Inflow(Trades) - Outlay(Trades) + (basket.payout * units) \div Dollar
    - RoundedUp(basket.collateral * units, Dollar) - basket.gas
BasisOfWalk == Outlay(Trades) + RoundedUp(basket.collateral * units, Dollar)

\* the split leg of class 1 names the market to split first
SplitsOfWalk ==
  IF basket.class = "C1Short" THEN [m \in {t[1] : t \in Legs} |-> units] ELSE <<>>

Dropped ==
  /\ basket' = NoBasket /\ opp' = NothingFound
  /\ cur' = <<>> /\ segs' = <<>> /\ units' = 0 /\ used' = 0

\* the march is over: exact accounting, and the gates
PriceWalk ==
  /\ basket # NoBasket /\ opp = NothingFound
  /\ ~Profitable
  /\ \/ /\ units > 0 /\ Clears(NetOfWalk, BasisOfWalk, basket.floor)
        /\ opp' = [class |-> basket.class, trades |-> Trades, splits |-> SplitsOfWalk,
                   limit |-> [t \in Legs |-> LimitPx(segs[t])],
                   gas |-> basket.gas, net |-> NetOfWalk, basis |-> BasisOfWalk]
        /\ UNCHANGED <<setup, basket, walking>>
     \/ /\ ~(units > 0 /\ Clears(NetOfWalk, BasisOfWalk, basket.floor))
        /\ Dropped
        /\ UNCHANGED setup

-----------------------------------------------------------------------------
(* lp.rs: a column per level of every ladder and one per market to split,  *)
(* as often as the market is listed.                                       *)

TradeColumns ==
  UNION {{[token |-> t, action |-> a, lvl |-> i] : i \in DOMAIN LadderOf(t, a)} :
         t \in Lanes(comp.listed, "yes") \cup Lanes(comp.listed, "no"), a \in {"Buy", "Sell"}}
SplitColumns == {[token |-> t, action |-> "Split", lvl |-> 0] : t \in Lanes(comp.listed, "yes")}
Columns == TradeColumns \cup SplitColumns

LevelOf(col) == LadderOf(col.token, col.action)[col.lvl]

SplitsOn(answer) == {x \in answer : x[1].action = "Split"}
SplitsIn(answer) ==
  [m \in {x[1].token[1] : x \in SplitsOn(answer)} |->
     LET own == {x \in SplitsOn(answer) : x[1].token[1] = m}
     IN  SumFunctionOnSet([x \in own |-> x[2]], own)]

SplitOf(splits, t) == IF t[1] \in DOMAIN splits THEN splits[t[1]] ELSE 0

\* floored and clamped to the book's depth
TradesIn(answer) ==
  {[token |-> x[1].token, action |-> x[1].action, px |-> LevelOf(x[1]).px,
    qty |-> Lesser(x[2], LevelOf(x[1]).qty)] : x \in {x \in answer : x[1].action # "Split"}}

SharesOf(trades) == SumFunctionOnSet([tr \in trades |-> tr.qty], trades)
Bought(trades, t) == SharesOf({tr \in trades : TokenOf(tr.token) = t /\ tr.action = "Buy"})
Sold(trades, t) == SharesOf({tr \in trades : TokenOf(tr.token) = t /\ tr.action = "Sell"})

\* the columns of a listing come before those of the next, its best level first
Listing(t) == IF Len(t) = 3 THEN t[3] ELSE 1
SoldBefore(s, tr) ==
  /\ s.action = "Sell" /\ TokenOf(s.token) = TokenOf(tr.token)
  /\ \/ Listing(s.token) < Listing(tr.token)
     \/ s.token = tr.token /\ s.px > tr.px

\* sells are clamped to what splits and buys provide
Clamped(trades, splits) ==
  LET held(t) == Bought(trades, t) + SplitOf(splits, t)
      earlier(tr) == {s \in trades : SoldBefore(s, tr)}
      left(tr) == held(TokenOf(tr.token)) - Lesser(held(TokenOf(tr.token)), SharesOf(earlier(tr)))
  IN  {tr \in {[tr EXCEPT !.qty = IF tr.action = "Buy" THEN @ ELSE Lesser(@, left(tr))] :
                 tr \in trades} : tr.qty > 0}

Position(trades, splits, t) == SplitOf(splits, t) + Bought(trades, t) - Sold(trades, t)
Payoff(trades, splits, w) ==
  LET paid == {t \in TokensOf(comp.markets) : TokenPays(w, t)}
  IN  SumFunctionOnSet([t \in paid |-> Position(trades, splits, t)], paid)
Collateral(splits) == SumFunctionOnSet(splits, DOMAIN splits)

\* exact_worst_net: in the worst of the worlds, in micro-dollars
WorstNet(trades, splits, gas, worlds) ==
  Min({Inflow(trades) - Outlay(trades) - Collateral(splits) + Payoff(trades, splits, w) - gas :
       w \in worlds})

\* what is made of the quantities of some columns
Answered(answer) ==
  LET splits == SplitsIn(answer)
      trades == Clamped(TradesIn(answer), splits)
      gas == Cardinality(SplitsOn(answer)) * Gas.split + Gas.redeem
      worst == WorstNet(trades, splits, gas, EnumerateWorlds(comp))
      basis == Outlay(trades) + Collateral(splits)
  IN  /\ trades # {} \/ splits # <<>>
      /\ \A t \in TokensOf(comp.markets) : Position(trades, splits, t) >= 0
      /\ Clears(worst, basis, IF comp.relations = {} THEN FloorC12 ELSE FloorC3)
      /\ opp' = [class |-> "C4Lp", trades |-> trades, splits |-> splits, limit |-> <<>>,
                 gas |-> gas, net |-> worst, basis |-> basis]

SolveComponent ==
  /\ basket = NoBasket /\ opp = NothingFound
  /\ LengthOf(comp.listed) > 1
  /\ \A t \in TokensOf(comp.markets) : Readable(t)
  /\ PrePrune(comp) <= MaxWorlds
  /\ EnumerateWorlds(comp) # {}
  /\ [fee |-> setup.fee, books |-> setup.books] \in Solved
  /\ \E cols \in {Range(three) : three \in [1..3 -> Columns]} : \E raw \in [cols -> Amounts] :
       Answered({<<col, raw[col]>> : col \in cols})
  /\ UNCHANGED <<setup, basket, walking>>

\* the detector sends it on and turns to the next basket
Emit == opp # NothingFound /\ Dropped /\ UNCHANGED setup

-----------------------------------------------------------------------------
NothingDetected ==
  /\ basket = NoBasket /\ opp = NothingFound
  /\ cur = <<>> /\ segs = <<>> /\ units = 0 /\ used = 0

Detection == Detect \/ Take \/ PriceWalk \/ SolveComponent \/ Emit

-----------------------------------------------------------------------------
(* What exact rational accounting gives, to compare the rounded one with. *)

ScaledCash(trades) ==
  SumFunctionOnSet([tr \in trades |-> -ScaledLegCost(tr.action, tr.px) * tr.qty], trades)

\* Of the given outcomes, an opportunity pays in every one at least the net
\* it is sent with, and sells no share it does not have.
PaysIn(worlds) ==
  /\ \A t \in TokensOf(comp.markets) : Position(opp.trades, opp.splits, t) >= 0
  /\ \A w \in worlds :
       ScaledCash(opp.trades)
         + BpsDen * Dollar * (Payoff(opp.trades, opp.splits, w) - Collateral(opp.splits) - opp.gas)
         >= BpsDen * Dollar * opp.net

\* Each leg of a walked basket goes out as one order for all the units at
\* the price of its worst level.  If the books slip and every leg fills at
\* its limit, the basket still gains before gas: no order licenses a price
\* at which the last share was not worth taking.
LimitsStillPay ==
  opp # NothingFound /\ opp.class # "C4Lp" =>
    BpsDen * (basket.payout - basket.collateral)
      > SumFunctionOnSet([t \in Legs |-> ScaledLegCost(basket.legs[t], opp.limit[t])], Legs)

\* the scaled cost of the first u micro-shares of a ladder
Cumulated(t, u) ==
  LET l == LadderOf(t, basket.legs[t])
      before(i) == SumFunctionOnSet([j \in 1..(i - 1) |-> l[j].qty], 1..(i - 1))
      part == [i \in DOMAIN l |->
                 ScaledLegCost(basket.legs[t], l[i].px)
                   * Lesser(l[i].qty, IF u > before(i) THEN u - before(i) ELSE 0)]
  IN  SumFunctionOnSet(part, DOMAIN l)
Depth(t) ==
  LET l == LadderOf(t, basket.legs[t])
  IN  SumFunctionOnSet([i \in DOMAIN l |-> l[i].qty], DOMAIN l)
ScaledNet(u) ==
  BpsDen * (basket.payout - basket.collateral) * u
    - SumFunctionOnSet([t \in Legs |-> Cumulated(t, u)], Legs)
ScaledBasis(u) ==
  BpsDen * basket.collateral * u + SumFunctionOnSet([t \in Buys |-> Cumulated(t, u)], Buys)

\* The greedy march stops at the best size there is: no other number of
\* units that the depth of every leg and the cap allow nets more, but for
\* the micro-dollar per chunk by which the cap is over-charged.
BestSize ==
  basket # NoBasket /\ opp = NothingFound /\ ~Profitable =>
    LET chunks == Max({Len(segs[t]) : t \in Legs}) * Cardinality(Legs) + 1
    IN  \A u \in 0..Min({Depth(t) : t \in Legs}) :
          ScaledBasis(u) <= (MaxBasis - chunks) * BpsDen * Dollar => ScaledNet(u) <= ScaledNet(units)
=============================================================================
