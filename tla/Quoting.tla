------------------------------ MODULE Quoting -------------------------------
(***************************************************************************)
(* What the market maker offers on a book (crates/app/src/strategy/mm.rs   *)
(* and quote_policy.rs), before vetoes, inventory and caps have a say.     *)
(* SpreadCapture quotes around a mid leaned against the inventory,         *)
(* RewardFarm as tight as it may around the size-weighted price, within    *)
(* the band that earns rewards.                                            *)
(*                                                                         *)
(* A tick is a number of Price, Unit micro-dollars wide.  RewardFarm       *)
(* computes in doubles, here in fractions [num, den]; that a price on a    *)
(* tick may come out a tick off when divided by the tick is the choice     *)
(* `slip'.  How RewardFarm leans its sizes is left out.                    *)
(***************************************************************************)
EXTENDS Ladder, Inventory

CONSTANTS
  One,                 \* micro-dollars to the dollar, micro-shares to the share
  Unit,                \* ts.unit_microusdc()
  Bp,                  \* micro-dollars to a basis point of a dollar
  ShareGrain,          \* the venue takes shares in hundredths,
  CashGrain,           \* money in hundredths of a cent,
  MinOrder             \* and no less than MM_MIN_ORDER_SHARES_MICRO

\* an order in whole grains at any tick is worth whole cash grains
Grain ==
  LET g == (One * CashGrain) \div Unit IN IF g > ShareGrain THEN g ELSE ShareGrain

ASSUME QuotingAssumption ==
  /\ Unit \in Nat \ {0} /\ Levels * Unit = One
  /\ Bp \in Nat /\ ShareGrain \in Nat \ {0} /\ CashGrain \in Nat \ {0} /\ MinOrder \in Nat \ {0}
  /\ Grain % ShareGrain = 0 /\ (Unit * Grain) % (One * CashGrain) = 0

Lower(x, y) == IF x < y THEN x ELSE y
Upper(x, y) == IF x > y THEN x ELSE y

NoQuotes == [bid |-> NoPx, ask |-> NoPx]

-----------------------------------------------------------------------------
(* SpreadCapture. *)

Mid(bb, ba) == (bb * Unit + ba * Unit) \div 2

\* the fair price, lowered when long and raised when short: by all of the
\* skew when the inventory is as large as its cap in money buys at `fair'
SkewFair(fair, net, cap, skew) ==
  LET most == (cap * One) \div fair
      held == Upper(-most, Lower(net, most))
  IN  IF skew = 0 \/ net = 0 \/ cap <= 0 \/ fair <= 0 \/ most <= 0 THEN fair
      ELSE fair - Quot(skew * Bp * held, most)

\* Mutant: the bid is not kept under the best ask.
SpreadTicksUnclamped(bb, ba, fair, half) ==
  LET bid == (fair - half) \div Unit
      ask == Upper((fair + half + Unit - 1) \div Unit, bb + 1)
      apart == IF ask <= bid THEN bid + 1 ELSE ask
  IN  IF bid < 1 \/ apart > Levels - 1 THEN NoQuotes ELSE [bid |-> bid, ask |-> apart]

\* half a spread around `fair', rounded outwards, clamped to the book, apart
SpreadTicks(bb, ba, fair, half) ==
  LET bid == Lower((fair - half) \div Unit, ba - 1)
      ask == Upper((fair + half + Unit - 1) \div Unit, bb + 1)
      apart == IF ask <= bid THEN bid + 1 ELSE ask
  IN  IF bid < 1 \/ apart > Levels - 1 THEN NoQuotes ELSE [bid |-> bid, ask |-> apart]

SpreadQuotes(bb, ba, net, cap, spread, skew) ==
  IF bb = NoPx \/ ba = NoPx THEN NoQuotes
  ELSE SpreadTicks(bb, ba, SkewFair(Mid(bb, ba), net, cap, skew), (spread * Bp) \div 2)

-----------------------------------------------------------------------------
(* RewardFarm. *)

Counted(qty, least) == IF qty < least THEN 0 ELSE qty

\* each side is weighted by the size of the other; levels too small to earn
\* a reward do not count
Microprice(bb, ba, bq, aq, least) ==
  LET b == Counted(bq, least)
      a == Counted(aq, least)
  IN  IF b + a = 0 THEN [num |-> (bb + ba) * Unit, den |-> 2]
      ELSE [num |-> (bb * a + ba * b) * Unit, den |-> a + b]

\* dividing a price that is the tick `clamp' or sits on one may miss it by `slip'
Short(fair, px, clamp, slip) ==
  IF px = clamp \/ fair.num % (fair.den * Unit) = 0 THEN slip ELSE 0

\* as tight as does not cross the book or the other quote; in the band or not at all
RewardQuotes(bb, ba, fair, band, slip) ==
  LET tick == fair.den * Unit
      down == Lower(ba - 1, fair.num \div tick)
      up == Upper(bb + 1, (fair.num + tick - 1) \div tick)
      bid == down - Short(fair, down, ba - 1, slip.bid)
      ask == up + Short(fair, up, bb + 1, slip.ask)
      apart == IF bid >= ask THEN bid + 1 ELSE ask
      bidOk == bid > 0 /\ fair.num - bid * tick <= band * fair.den /\ bid < ba
      askOk == apart < Levels /\ apart * tick - fair.num <= band * fair.den /\ apart > bb
  IN  IF bb = NoPx \/ ba = NoPx \/ band <= 0 THEN NoQuotes
      ELSE [bid |-> IF bidOk THEN bid ELSE NoPx, ask |-> IF askOk THEN apart ELSE NoPx]

-----------------------------------------------------------------------------
(* Sizes: what `notional' buys at px, in whole grains, or nothing. *)

QuoteSize(px, notional) ==
  LET raw == (notional * One) \div (px * Unit)
      size == raw - (raw % Grain)
  IN  IF size < MinOrder THEN 0 ELSE size

-----------------------------------------------------------------------------
\* a post-only venue takes them: each stays off the other side's levels, and
\* they off each other
Resting(q, bids, asks) ==
  /\ q.bid # NoPx => q.bid \in Price /\ \A p \in asks : q.bid < p
  /\ q.ask # NoPx => q.ask \in Price /\ \A p \in bids : p < q.ask
  /\ q.bid # NoPx /\ q.ask # NoPx => q.bid < q.ask
=============================================================================
