---------------------------- MODULE PricingProofs ----------------------------
(***************************************************************************)
(* The arithmetic the market maker prices with, for every input.  on_fill: *)
(* the books balance to the last micro whatever the divisions round, and   *)
(* the basis keeps the sign of the net.  Quotes: both policies stay off    *)
(* the book and off each other, on their side of the fair price, in sizes  *)
(* the venue takes.  The best-level cache of the ladder they read is       *)
(* always the best of its levels: what Ladder::set writes without a full   *)
(* scan is what a full scan would find.  The feed the prices come from: no *)
(* change of the venue's is lost on the way into a ladder, so what is      *)
(* quoted on is the venue's book.  And the store the fills go to: FIFO     *)
(* lots, average-cost inventory and cash agree at every moment, and no     *)
(* sale of the arb strategy lacks lots.                                    *)
(***************************************************************************)
EXTENDS QuotedFeed, Ledger, FiniteSums, TLAPS

\* truncating division of a non-zero divisor is an integer
LEMMA QuotType ==
  ASSUME NEW a \in Int, NEW b \in Int, b # 0
  PROVE  Quot(a, b) \in Int
<1>1. Abs(a) \in Nat /\ Abs(b) \in Nat \ {0}
  BY DEF Abs
<1>2. Abs(a) \div Abs(b) \in Int
  BY <1>1
<1> QED
  BY <1>2 DEF Quot

LEMMA MinusMinus ==
  ASSUME NEW a \in Int, NEW b \in Int
  PROVE  (-a) * (-b) = a * b
OBVIOUS

\* a part of a non-negative amount is between nothing and all of it
LEMMA PartBounds ==
  ASSUME NEW x \in Nat, NEW k \in Nat, NEW n \in Nat \ {0}, k <= n
  PROVE  0 <= (x * k) \div n /\ (x * k) \div n <= x
<1> DEFINE q == (x * k) \div n
<1>1. x * k \in Nat /\ q \in Nat
  OBVIOUS
<1>2. x * k <= x * n
  OBVIOUS
<1>3. n * q <= x * k
  BY <1>1
<1>4. n * q <= n * x
  BY <1>1, <1>2, <1>3
<1>5. q <= x
  <2>1. SUFFICES ASSUME q >= x + 1 PROVE FALSE
    BY <1>1
  <2>2. n * q >= n * (x + 1)
    BY <2>1, <1>1
  <2>3. n * (x + 1) = n * x + n
    OBVIOUS
  <2> QED
    BY <2>2, <2>3, <1>4, <1>1
<1> QED
  BY <1>1, <1>5

(* realized - basis moves by exactly the cash of the fill: no rounding     *)
(* mistake can create or lose money in the inventory's books.              *)
THEOREM OnFillConserves ==
  ASSUME NEW i \in InventoryRecord, NEW q \in Int, q # 0, NEW c \in Int
  PROVE  /\ OnFill(i, q, c) \in InventoryRecord
         /\ OnFill(i, q, c).net = i.net + q
         /\ OnFill(i, q, c).realized - OnFill(i, q, c).basis
              = i.realized - i.basis + c
<1>0. i.net \in Int /\ i.basis \in Int /\ i.realized \in Int
  BY DEF InventoryRecord
<1>1. CASE i.net = 0 \/ (i.net > 0) = (q > 0)
  <2>1. OnFill(i, q, c) = Opened(i, q, c)
    BY <1>1 DEF OnFill
  <2>2. Opened(i, q, c) = [net |-> i.net + q, basis |-> i.basis - c, realized |-> i.realized]
    BY DEF Opened, InventoryRecord
  <2> QED
    BY <1>0, <2>1, <2>2 DEF InventoryRecord
<1>2. CASE ~(i.net = 0 \/ (i.net > 0) = (q > 0)) /\ Abs(q) <= Abs(i.net)
  <2> DEFINE left == Quot(i.basis * (i.net + q), i.net)
  <2>1. OnFill(i, q, c) = Reduced(i, q, c)
    BY <1>2 DEF OnFill
  <2>2. left \in Int
    <3>1. i.basis * (i.net + q) \in Int /\ i.net # 0
      BY <1>0, <1>2
    <3> QED
      BY <3>1, <1>0, QuotType
  <2>3. Reduced(i, q, c)
          = [net |-> i.net + q, basis |-> left, realized |-> i.realized + (c - (i.basis - left))]
    BY DEF Reduced
  <2> HIDE DEF left
  <2> QED
    BY <1>0, <2>1, <2>2, <2>3 DEF InventoryRecord
<1>3. CASE ~(i.net = 0 \/ (i.net > 0) = (q > 0)) /\ ~(Abs(q) <= Abs(i.net))
  <2> DEFINE close == Quot(c * Abs(i.net), Abs(q))
  <2>1. OnFill(i, q, c) = Flipped(i, q, c)
    BY <1>3 DEF OnFill
  <2>2. close \in Int
    <3>1. c * Abs(i.net) \in Int /\ Abs(q) \in Int /\ Abs(q) # 0
      BY <1>0 DEF Abs
    <3> QED
      BY <3>1, QuotType
  <2>3. Flipped(i, q, c)
          = [net |-> i.net + q, basis |-> -(c - close), realized |-> i.realized + (close - i.basis)]
    BY DEF Flipped
  <2> HIDE DEF close
  <2> QED
    BY <1>0, <2>1, <2>2, <2>3 DEF InventoryRecord
<1> QED
  BY <1>1, <1>2, <1>3

SignAgrees(i) == (i.net >= 0 => i.basis >= 0) /\ (i.net <= 0 => i.basis <= 0)

(* A long is never carried at a negative cost nor a short at a positive    *)
(* one: buys pay, sells receive, and closing or flipping keeps the side.   *)
THEOREM OnFillKeepsSign ==
  ASSUME NEW i \in InventoryRecord, SignAgrees(i), NEW q \in Int, q # 0,
         NEW c \in Int, q > 0 => c <= 0, q < 0 => c >= 0
  PROVE  SignAgrees(OnFill(i, q, c))
<1>0. i.net \in Int /\ i.basis \in Int /\ i.realized \in Int
  BY DEF InventoryRecord
<1>1. CASE i.net = 0 \/ (i.net > 0) = (q > 0)
  <2>1. OnFill(i, q, c) = [net |-> i.net + q, basis |-> i.basis - c, realized |-> i.realized]
    BY <1>1 DEF OnFill, Opened, InventoryRecord
  <2>2. i.net >= 0 => i.basis >= 0
    BY DEF SignAgrees
  <2>3. i.net <= 0 => i.basis <= 0
    BY DEF SignAgrees
  <2> QED
    BY <1>0, <1>1, <2>1, <2>2, <2>3 DEF SignAgrees
<1>2. CASE ~(i.net = 0 \/ (i.net > 0) = (q > 0)) /\ Abs(q) <= Abs(i.net)
  <2> DEFINE left == Quot(i.basis * (i.net + q), i.net)
  <2>1. OnFill(i, q, c)
          = [net |-> i.net + q, basis |-> left, realized |-> i.realized + (c - (i.basis - left))]
    BY <1>2 DEF OnFill, Reduced
  <2>2. CASE i.net > 0
    <3>1. i.basis \in Nat /\ i.net + q \in Nat /\ i.net \in Nat \ {0} /\ i.net + q <= i.net
      BY <1>0, <1>2, <2>2 DEF SignAgrees, Abs
    <3>2. i.basis * (i.net + q) \in Nat
      BY <3>1
    <3>3. left = (i.basis * (i.net + q)) \div i.net
      BY <3>1, <3>2 DEF Quot, Abs
    <3>4. 0 <= left /\ left <= i.basis
      BY <3>1, <3>3, PartBounds
    <3>5. i.net + q = 0 => left = 0
      BY <3>1, <3>3
    <3> HIDE DEF left
    <3>6. left \in Int
      BY <3>1, <3>2, <3>3
    <3> QED
      BY <2>1, <3>1, <3>4, <3>5, <3>6 DEF SignAgrees
  <2>3. CASE i.net < 0
    <3> DEFINE x == -i.basis
               k == -(i.net + q)
               n == -i.net
    <3>1. x \in Nat /\ k \in Nat /\ n \in Nat \ {0} /\ k <= n
      BY <1>0, <1>2, <2>3 DEF SignAgrees, Abs
    <3>2. i.basis * (i.net + q) = x * k /\ x * k \in Nat
      <4>1. i.net + q \in Int
        BY <1>0
      <4>2. x * k = i.basis * (i.net + q)
        BY <1>0, <4>1, MinusMinus
      <4>3. x * k \in Nat
        BY <3>1
      <4> QED
        BY <4>2, <4>3
    <3>3. Quot(x * k, -n) = -((x * k) \div n)
      BY <3>1, <3>2 DEF Quot, Abs
    <3>4. left = -((x * k) \div n)
      BY <1>0, <3>2, <3>3
    <3>5. 0 <= (x * k) \div n
      BY <3>1, PartBounds
    <3>6. k = 0 => (x * k) \div n = 0
      BY <3>1
    <3>7. (x * k) \div n \in Int
      BY <3>1, <3>2
    <3> QED
      BY <1>0, <2>1, <3>1, <3>4, <3>5, <3>6, <3>7 DEF SignAgrees
  <2> QED
    BY <1>0, <1>2, <2>2, <2>3
<1>3. CASE ~(i.net = 0 \/ (i.net > 0) = (q > 0)) /\ ~(Abs(q) <= Abs(i.net))
  <2> DEFINE close == Quot(c * Abs(i.net), Abs(q))
  <2>1. OnFill(i, q, c)
          = [net |-> i.net + q, basis |-> -(c - close), realized |-> i.realized + (close - i.basis)]
    BY <1>3 DEF OnFill, Flipped
  <2>2. Abs(i.net) \in Nat /\ Abs(q) \in Nat \ {0} /\ Abs(i.net) <= Abs(q) /\ Abs(q) > 0
    BY <1>0, <1>3 DEF Abs
  <2>3. CASE q < 0
    <3>1. c \in Nat /\ c * Abs(i.net) \in Nat
      BY <2>2, <2>3
    <3>2. close = (c * Abs(i.net)) \div Abs(q)
      BY <3>1, <2>2 DEF Quot, Abs
    <3>3. 0 <= close /\ close <= c
      BY <3>1, <3>2, <2>2, PartBounds
    <3>4. close \in Int
      BY <3>1, <3>2, <2>2
    <3>5. i.net + q < 0
      BY <1>0, <1>3, <2>3 DEF Abs
    <3> HIDE DEF close
    <3> QED
      BY <1>0, <2>1, <3>1, <3>3, <3>4, <3>5 DEF SignAgrees
  <2>4. CASE q > 0
    <3> DEFINE x == -c
    <3>1. x \in Nat /\ x * Abs(i.net) \in Nat /\ c * Abs(i.net) = -(x * Abs(i.net))
      BY <2>2, <2>4
    <3>2. close = -((x * Abs(i.net)) \div Abs(q))
      <4>1. CASE x * Abs(i.net) = 0
        BY <3>1, <2>2, <4>1 DEF Quot, Abs
      <4>2. CASE x * Abs(i.net) > 0
        BY <3>1, <2>2, <4>2 DEF Quot, Abs
      <4> QED
        BY <3>1, <4>1, <4>2
    <3>3. (x * Abs(i.net)) \div Abs(q) <= x
      BY <3>1, <2>2, PartBounds
    <3>4. (x * Abs(i.net)) \div Abs(q) \in Int
      BY <3>1, <2>2
    <3>5. i.net + q > 0
      BY <1>0, <1>3, <2>4 DEF Abs
    <3> QED
      BY <1>0, <2>1, <3>1, <3>2, <3>3, <3>4, <3>5 DEF SignAgrees
  <2> QED
    BY <2>3, <2>4
<1> QED
  BY <1>1, <1>2, <1>3

-----------------------------------------------------------------------------
(* Quotes. *)

LEMMA Units ==
  /\ Levels \in Nat /\ Unit \in Nat \ {0} /\ Bp \in Nat /\ NoPx = 0
  /\ Price = 1..(Levels - 1)
BY LevelsAssumption, QuotingAssumption DEF Price, NoPx

\* rounding down to a multiple of u and up to one
LEMMA Rounding ==
  ASSUME NEW x \in Int, NEW u \in Nat \ {0}
  PROVE  /\ x \div u \in Int /\ (x \div u) * u <= x
         /\ (x + u - 1) \div u \in Int /\ x <= ((x + u - 1) \div u) * u
<1>1. x \div u \in Int /\ (x \div u) * u <= x
  OBVIOUS
<1> DEFINE y == x + u - 1
           k == y \div u
<1>2. y \in Int /\ k \in Int /\ y < (k + 1) * u
  OBVIOUS
<1>3. (k + 1) * u = k * u + u /\ k * u \in Int
  BY <1>2
<1>4. x <= k * u
  BY <1>2, <1>3
<1> QED
  BY <1>1, <1>2, <1>4

LEMMA Steeper ==
  ASSUME NEW a \in Int, NEW b \in Int, a <= b, NEW u \in Nat
  PROVE  a * u <= b * u
OBVIOUS

(* SpreadCapture, whatever its spread and the fair price after the skew:   *)
(* its quotes stay below the asks and above the bids of the book and       *)
(* apart, and are never nearer the fair price than half the spread.        *)
(* compute_quotes.                                                         *)
THEOREM SpreadRests ==
  ASSUME NEW bb \in Price, NEW ba \in Price, NEW fair \in Int, NEW half \in Nat,
         NEW bids \in SUBSET Price, \A p \in bids : p <= bb,
         NEW asks \in SUBSET Price, \A p \in asks : ba <= p
  PROVE  LET q == SpreadTicks(bb, ba, fair, half)
         IN  /\ Resting(q, bids, asks)
             /\ q.bid # NoPx => q.bid * Unit <= fair - half
             /\ q.ask # NoPx => fair + half <= q.ask * Unit
<1> DEFINE down == (fair - half) \div Unit
           up == (fair + half + Unit - 1) \div Unit
           bid == Lower(down, ba - 1)
           ask == Upper(up, bb + 1)
           apart == IF ask <= bid THEN bid + 1 ELSE ask
           q == SpreadTicks(bb, ba, fair, half)
<1>1. bb \in 1..(Levels - 1) /\ ba \in 1..(Levels - 1)
  BY Units
<1>2. /\ down \in Int /\ down * Unit <= fair - half
      /\ up \in Int /\ fair + half <= up * Unit
  <2>1. fair - half \in Int /\ fair + half \in Int /\ Unit \in Nat \ {0}
    BY Units
  <2> QED
    BY <2>1, Rounding
<1>3. q = IF bid < 1 \/ apart > Levels - 1 THEN NoQuotes ELSE [bid |-> bid, ask |-> apart]
  BY DEF SpreadTicks
<1> HIDE DEF down, up, q
<1>4. /\ bid \in Int /\ bid <= ba - 1 /\ bid <= down
      /\ apart \in Int /\ apart >= bb + 1 /\ apart >= up /\ bid < apart
  BY <1>1, <1>2, Units DEF Lower, Upper
<1> HIDE DEF bid, ask, apart
<1>5. CASE bid < 1 \/ apart > Levels - 1
  BY <1>3, <1>5 DEF NoQuotes, Resting, q
<1>6. CASE ~(bid < 1 \/ apart > Levels - 1)
  <2>1. q.bid = bid /\ q.ask = apart
    BY <1>3, <1>6
  <2>2. bid \in Price /\ apart \in Price
    BY <1>1, <1>4, <1>6, Units
  <2>3. (\A p \in asks : bid < p) /\ (\A p \in bids : p < apart)
    BY <1>1, <1>4, Units
  <2>4. bid * Unit <= fair - half /\ fair + half <= apart * Unit
    <3>1. bid * Unit <= down * Unit /\ up * Unit <= apart * Unit
      BY <1>2, <1>4, Units, Steeper
    <3>2. bid * Unit \in Int /\ down * Unit \in Int /\ up * Unit \in Int /\ apart * Unit \in Int
      BY <1>2, <1>4, Units
    <3> QED
      BY <1>2, <3>1, <3>2
  <2>5. Resting(q, bids, asks)
    BY <1>4, <2>1, <2>2, <2>3 DEF Resting
  <2> QED
    BY <2>1, <2>4, <2>5 DEF q
<1> QED
  BY <1>5, <1>6

(* RewardFarm, wherever its fair price lies and though a division in       *)
(* doubles may miss by a tick: its quotes stay below the asks and above    *)
(* the bids of the book and apart, the bid not above the fair price nor    *)
(* the ask below it, and both inside the band.  reward_quote_prices.       *)
THEOREM RewardRests ==
  ASSUME NEW bb \in Price, NEW ba \in Price, NEW band \in Int,
         NEW fair \in [num: Int, den: Nat \ {0}], NEW slip \in [bid: Nat, ask: Nat],
         NEW bids \in SUBSET Price, \A p \in bids : p <= bb,
         NEW asks \in SUBSET Price, \A p \in asks : ba <= p
  PROVE  LET q == RewardQuotes(bb, ba, fair, band, slip)
             tick == fair.den * Unit
         IN  /\ Resting(q, bids, asks)
             /\ q.bid # NoPx => /\ q.bid * tick <= fair.num
                                /\ fair.num - q.bid * tick <= band * fair.den
             /\ q.ask # NoPx => /\ fair.num <= q.ask * tick
                                /\ q.ask * tick - fair.num <= band * fair.den
<1> DEFINE tick == fair.den * Unit
           low == fair.num \div tick
           high == (fair.num + tick - 1) \div tick
           down == Lower(ba - 1, low)
           up == Upper(bb + 1, high)
           below == Short(fair, down, ba - 1, slip.bid)
           above == Short(fair, up, bb + 1, slip.ask)
           bid == down - below
           ask == up + above
           apart == IF bid >= ask THEN bid + 1 ELSE ask
           bidOk == bid > 0 /\ fair.num - bid * tick <= band * fair.den /\ bid < ba
           askOk == apart < Levels /\ apart * tick - fair.num <= band * fair.den /\ apart > bb
           q == RewardQuotes(bb, ba, fair, band, slip)
<1>1. bb \in 1..(Levels - 1) /\ ba \in 1..(Levels - 1)
  BY Units
<1>2. fair.num \in Int /\ fair.den \in Nat \ {0} /\ slip.bid \in Nat /\ slip.ask \in Nat
  OBVIOUS
<1>3. tick \in Nat \ {0}
  BY <1>2, Units
<1>4. q = IF bb = NoPx \/ ba = NoPx \/ band <= 0 THEN NoQuotes
          ELSE [bid |-> IF bidOk THEN bid ELSE NoPx, ask |-> IF askOk THEN apart ELSE NoPx]
  BY DEF RewardQuotes
<1>5. below \in Nat /\ above \in Nat
  BY <1>2 DEF Short
<1> HIDE DEF tick, below, above, q
<1>6. low \in Int /\ low * tick <= fair.num /\ high \in Int /\ fair.num <= high * tick
  BY <1>2, <1>3, Rounding
<1> HIDE DEF low, high
<1>7. /\ bid \in Int /\ bid <= ba - 1 /\ bid <= low
      /\ apart \in Int /\ apart >= bb + 1 /\ apart >= high /\ bid < apart
  BY <1>1, <1>5, <1>6 DEF Lower, Upper
<1> HIDE DEF bid, ask, apart, down, up
<1>8. bid * tick <= fair.num /\ fair.num <= apart * tick
  <2>1. bid * tick <= low * tick /\ high * tick <= apart * tick
    BY <1>3, <1>6, <1>7, Steeper
  <2>2. bid * tick \in Int /\ low * tick \in Int /\ high * tick \in Int /\ apart * tick \in Int
    BY <1>3, <1>6, <1>7
  <2> QED
    BY <1>2, <1>6, <2>1, <2>2
<1>9. CASE bb = NoPx \/ ba = NoPx \/ band <= 0
  BY <1>4, <1>9 DEF NoQuotes, Resting, q
<1>10. CASE ~(bb = NoPx \/ ba = NoPx \/ band <= 0)
  <2>1. q.bid = (IF bidOk THEN bid ELSE NoPx) /\ q.ask = (IF askOk THEN apart ELSE NoPx)
    BY <1>4, <1>10
  <2>2. q.bid # NoPx => bidOk /\ q.bid = bid /\ bid \in Price /\ \A p \in asks : bid < p
    BY <1>1, <1>7, <2>1, Units
  <2>3. q.ask # NoPx => askOk /\ q.ask = apart /\ apart \in Price /\ \A p \in bids : p < apart
    BY <1>1, <1>7, <2>1, Units
  <2>4. Resting(q, bids, asks)
    BY <1>7, <2>2, <2>3 DEF Resting
  <2> QED
    BY <1>8, <2>2, <2>3, <2>4 DEF q, tick
<1> QED
  BY <1>9, <1>10

(* The size-weighted price lies between the best bid and the best ask,     *)
(* whichever of the two levels is too small to count.  reward_fair_value,  *)
(* microprice.                                                             *)
THEOREM MicropriceInside ==
  ASSUME NEW bb \in Price, NEW ba \in Price, bb <= ba,
         NEW bq \in Nat, NEW aq \in Nat, NEW least \in Nat
  PROVE  LET fair == Microprice(bb, ba, bq, aq, least)
         IN  /\ fair \in [num: Int, den: Nat \ {0}]
             /\ bb * Unit * fair.den <= fair.num
             /\ fair.num <= ba * Unit * fair.den
<1> DEFINE b == Counted(bq, least)
           a == Counted(aq, least)
           fair == Microprice(bb, ba, bq, aq, least)
<1>1. bb \in Nat /\ ba \in Nat /\ Unit \in Nat
  BY Units
<1>2. a \in Nat /\ b \in Nat
  BY DEF Counted
<1>3. fair = IF b + a = 0 THEN [num |-> (bb + ba) * Unit, den |-> 2]
             ELSE [num |-> (bb * a + ba * b) * Unit, den |-> a + b]
  BY DEF Microprice
<1> HIDE DEF a, b, fair
<1>4. CASE b + a = 0
  <2>1. fair.num = (bb + ba) * Unit /\ fair.den = 2 /\ (bb + ba) * Unit \in Int
    BY <1>1, <1>3, <1>4
  <2>2. bb * Unit * 2 = (bb + bb) * Unit /\ ba * Unit * 2 = (ba + ba) * Unit
    BY <1>1
  <2>3. (bb + bb) * Unit <= (bb + ba) * Unit /\ (bb + ba) * Unit <= (ba + ba) * Unit
    BY <1>1, Steeper
  <2>4. fair \in [num: Int, den: Nat \ {0}]
    BY <1>3, <1>4, <2>1
  <2> QED
    BY <2>1, <2>2, <2>3, <2>4 DEF fair
<1>5. CASE b + a # 0
  <2>1. fair.num = (bb * a + ba * b) * Unit /\ fair.den = a + b
    BY <1>3, <1>5
  <2>2. a + b \in Nat \ {0} /\ bb * a + ba * b \in Nat
    BY <1>1, <1>2, <1>5
  <2>3. bb * (a + b) = bb * a + bb * b /\ ba * (a + b) = ba * a + ba * b
    BY <1>1, <1>2
  <2>4. bb * b <= ba * b /\ bb * a <= ba * a
    BY <1>1, <1>2, Steeper
  <2>5. bb * (a + b) <= bb * a + ba * b /\ bb * a + ba * b <= ba * (a + b)
    BY <1>1, <1>2, <2>3, <2>4
  <2>6. /\ bb * (a + b) * Unit <= (bb * a + ba * b) * Unit
        /\ (bb * a + ba * b) * Unit <= ba * (a + b) * Unit
    <3>1. bb * (a + b) \in Int /\ ba * (a + b) \in Int
      BY <1>1, <1>2
    <3> QED
      BY <1>1, <2>2, <2>5, <3>1, Steeper
  <2>7. bb * (a + b) * Unit = bb * Unit * (a + b) /\ ba * (a + b) * Unit = ba * Unit * (a + b)
    BY <1>1, <1>2
  <2>8. (bb * a + ba * b) * Unit \in Int
    BY <1>1, <2>2
  <2>9. fair \in [num: Int, den: Nat \ {0}]
    BY <1>3, <1>5, <2>2, <2>8
  <2> QED
    BY <2>1, <2>6, <2>7, <2>9 DEF fair
<1> QED
  BY <1>1, <1>2, <1>4, <1>5

(* The skew moves the fair price against the inventory - down when long,   *)
(* up when short - and by no more than its basis points, however large the *)
(* inventory or small the cap.  skew_fair.                                 *)
THEOREM SkewBounded ==
  ASSUME NEW fair \in Int, NEW net \in Int, NEW cap \in Int, NEW skew \in Nat
  PROVE  /\ SkewFair(fair, net, cap, skew) \in Int
         /\ net >= 0 => /\ fair - skew * Bp <= SkewFair(fair, net, cap, skew)
                        /\ SkewFair(fair, net, cap, skew) <= fair
         /\ net <= 0 => /\ fair <= SkewFair(fair, net, cap, skew)
                        /\ SkewFair(fair, net, cap, skew) <= fair + skew * Bp
<1> DEFINE most == (cap * One) \div fair
           kept == Upper(-most, Lower(net, most))
           s == skew * Bp
           shift == Quot(s * kept, most)
           skewed == SkewFair(fair, net, cap, skew)
<1>1. s \in Nat
  BY Units
<1>2. skewed = IF skew = 0 \/ net = 0 \/ cap <= 0 \/ fair <= 0 \/ most <= 0 THEN fair
               ELSE fair - shift
  BY DEF SkewFair
<1>3. CASE skew = 0 \/ net = 0 \/ cap <= 0 \/ fair <= 0 \/ most <= 0
  <2>1. skewed = fair
    BY <1>2, <1>3
  <2> HIDE DEF s, skewed
  <2> QED
    BY <1>1, <2>1 DEF skewed, s
<1>4. CASE ~(skew = 0 \/ net = 0 \/ cap <= 0 \/ fair <= 0 \/ most <= 0)
  <2>1. most \in Nat \ {0}
    <3>1. One \in Int
      BY QuotingAssumption, Units
    <3>2. cap * One \in Int /\ fair \in Nat \ {0}
      BY <1>4, <3>1
    <3> QED
      BY <1>4, <3>2
  <2>2. skewed = fair - shift
    BY <1>2, <1>4
  <2> HIDE DEF most, s
  <2>3. kept \in Int /\ (net > 0 => kept > 0) /\ (net < 0 => kept < 0) /\ -most <= kept /\ kept <= most
    BY <1>4, <2>1 DEF Lower, Upper
  <2> HIDE DEF kept
  <2>4. CASE net > 0
    <3>1. kept \in Nat /\ kept <= most /\ s * kept \in Nat
      BY <1>1, <2>1, <2>3, <2>4
    <3>2. shift = (s * kept) \div most
      BY <2>1, <3>1 DEF Quot, Abs
    <3>3. 0 <= shift /\ shift <= s /\ shift \in Int
      BY <1>1, <2>1, <3>1, <3>2, PartBounds
    <3> HIDE DEF shift, skewed
    <3>4. skewed \in Int /\ fair - s <= skewed /\ skewed <= fair
      BY <1>1, <2>2, <3>3
    <3> QED
      BY <2>4, <3>4 DEF skewed, s
  <2>5. CASE net < 0
    <3> DEFINE k == -kept
    <3>1. k \in Nat \ {0} /\ k <= most /\ s * k \in Nat /\ s * kept = -(s * k)
      BY <1>1, <2>1, <2>3, <2>5
    <3>2. shift = -((s * k) \div most)
      <4>1. CASE s * k = 0
        BY <2>1, <3>1, <4>1 DEF Quot, Abs
      <4>2. CASE s * k > 0
        BY <2>1, <3>1, <4>2 DEF Quot, Abs
      <4> QED
        BY <3>1, <4>1, <4>2
    <3>3. 0 <= (s * k) \div most /\ (s * k) \div most <= s /\ (s * k) \div most \in Int
      BY <1>1, <2>1, <3>1, PartBounds, SMTT(30)
    <3> HIDE DEF shift, skewed
    <3>4. skewed \in Int /\ fair <= skewed /\ skewed <= fair + s
      BY <1>1, <2>2, <3>2, <3>3
    <3> QED
      BY <2>5, <3>4 DEF skewed, s
  <2> QED
    BY <1>4, <2>4, <2>5
<1> QED
  BY <1>3, <1>4

\* a multiple of a multiple
LEMMA MultipleOf ==
  ASSUME NEW n \in Int, NEW u \in Nat \ {0}, n % u = 0, NEW k \in Int
  PROVE  (k * n) % u = 0
<1> DEFINE m == n \div u
<1>1. m \in Int /\ n = m * u
  OBVIOUS
<1>2. k * n = (k * m) * u /\ k * m \in Int
  BY <1>1
<1>3. \A j \in Int : (j * u) % u = 0
  OBVIOUS
<1> QED
  BY <1>2, <1>3

(* What is offered is nothing or at least the venue's minimum, in whole    *)
(* share grains, worth whole cash grains at its price, and worth no more   *)
(* than the notional it was sized for.  quote_order.                       *)
THEOREM QuoteSizeFits ==
  ASSUME NEW px \in Price, NEW notional \in Nat
  PROVE  LET size == QuoteSize(px, notional)
         IN  /\ size \in Nat /\ (size = 0 \/ size >= MinOrder)
             /\ size % ShareGrain = 0
             /\ (px * Unit * size) % (One * CashGrain) = 0
             /\ px * Unit * size <= notional * One
<1> DEFINE price == px * Unit
           raw == (notional * One) \div price
           whole == raw - (raw % Grain)
           size == QuoteSize(px, notional)
<1>1. /\ px \in Nat \ {0} /\ Unit \in Nat \ {0} /\ One = Levels * Unit /\ Levels \in Nat
      /\ ShareGrain \in Nat \ {0} /\ CashGrain \in Nat \ {0} /\ MinOrder \in Nat \ {0}
      /\ Levels > 0
  BY Units, QuotingAssumption
<1>2. One \in Nat \ {0} /\ One * CashGrain \in Nat \ {0}
  BY <1>1
<1>3. Grain \in Nat \ {0}
  <2>1. (One * CashGrain) \div Unit \in Int
    BY <1>1, <1>2
  <2> QED
    BY <1>1, <2>1 DEF Grain
<1>4. price \in Nat \ {0} /\ notional * One \in Nat
  BY <1>1, <1>2
<1>5. raw \in Nat /\ raw * price <= notional * One
  <2>1. raw \in Int /\ raw >= 0
    BY <1>4
  <2> QED
    BY <1>4, <2>1, Rounding, SMTT(30)
<1>6. size = IF whole < MinOrder THEN 0 ELSE whole
  BY DEF QuoteSize
<1> HIDE DEF price, raw, size
<1>7. PICK k \in Nat : whole = k * Grain
  <2> DEFINE k == raw \div Grain
  <2>1. k \in Nat /\ raw = k * Grain + (raw % Grain)
    BY <1>3, <1>5
  <2>2. raw % Grain \in Nat /\ k * Grain \in Nat
    BY <1>3, <1>5, <2>1
  <2> HIDE DEF k
  <2> QED
    BY <1>5, <2>1, <2>2
<1>8. whole \in Nat /\ whole <= raw
  BY <1>3, <1>5
<1> HIDE DEF whole
<1>9. whole % ShareGrain = 0 /\ (price * whole) % (One * CashGrain) = 0
  <2>1. Grain % ShareGrain = 0 /\ (Unit * Grain) % (One * CashGrain) = 0
    BY QuotingAssumption
  <2>2. whole % ShareGrain = 0
    <3>1. Grain \in Int /\ ShareGrain \in Nat \ {0} /\ Grain % ShareGrain = 0 /\ k \in Int
      BY <1>1, <1>3, <2>1
    <3>2. (k * Grain) % ShareGrain = 0
      BY ONLY <3>1, MultipleOf, Zenon
    <3> QED
      BY <1>7, <3>2
  <2>3. price * whole = (px * k) * (Unit * Grain)
    BY <1>1, <1>3, <1>7 DEF price
  <2>4. px * k \in Int /\ Unit * Grain \in Int
    BY <1>1, <1>3, <1>7
  <2> QED
    BY <1>2, <2>1, <2>2, <2>3, <2>4, MultipleOf
<1>10. price * whole <= notional * One
  <2>1. whole * price <= raw * price
    BY <1>4, <1>5, <1>8, Steeper
  <2>2. whole * price = price * whole /\ whole * price \in Int /\ raw * price \in Int
    BY <1>4, <1>5, <1>8
  <2> QED
    BY <1>4, <1>5, <2>1, <2>2
<1>11. CASE whole < MinOrder
  <2>1. size = 0
    BY <1>6, <1>11
  <2>2. price * 0 = 0 /\ 0 % ShareGrain = 0 /\ 0 % (One * CashGrain) = 0
    BY <1>1, <1>2, <1>4
  <2> QED
    BY <1>4, <2>1, <2>2 DEF size, price
<1>12. CASE ~(whole < MinOrder)
  <2>1. size = whole
    BY <1>6, <1>12
  <2> QED
    BY <1>1, <1>8, <1>9, <1>10, <1>12, <2>1 DEF size, price
<1> QED
  BY <1>11, <1>12

-----------------------------------------------------------------------------
(* The ladder.                                                             *)

USE LevelsAssumption
USE DEF LevelsAssumption

(* A set of prices that has any has one that no other improves on.         *)
LEMMA BestExists ==
  ASSUME NEW side \in Side, NEW S \in SUBSET Price, S # {}
  PROVE  \E p \in S : \A q \in S : ~Improves(side, q, p)
<1>1. CASE side = "Ask"
  <2>0. S \subseteq Nat
    BY DEF Price
  <2>1. PICK p \in S : \A q \in S : p <= q
    BY <2>0, LeastExists
  <2>2. QED
    BY <1>1, <2>0, <2>1 DEF Improves
<1>2. CASE side = "Bid"
  <2> DEFINE T == {Levels - p : p \in S}
  <2>1. T \subseteq Nat /\ T # {}
    <3>1. \A p \in S : Levels - p \in Nat
      BY DEF Price
    <3>2. QED
      BY <3>1
  <2>2. PICK n \in T : \A m \in T : n <= m
    BY <2>1, LeastExists
  <2>3. PICK p \in S : n = Levels - p
    BY <2>2
  <2>4. \A q \in S : q <= p
    BY <2>2, <2>3 DEF Price
  <2>5. QED
    BY <1>2, <2>4 DEF Improves, Price
<1>3. QED
  BY <1>1, <1>2 DEF Side

LEMMA BestInIs ==
  ASSUME NEW side \in Side, NEW S \in SUBSET Price, NEW p \in S,
         \A q \in S : ~Improves(side, q, p)
  PROVE  BestIn(side, S) = p
<1> DEFINE b == BestIn(side, S)
<1>1. b \in S /\ \A q \in S : ~Improves(side, q, b)
  <2>1. S # {}
    OBVIOUS
  <2>2. QED
    BY <2>1, BestExists DEF BestIn
<1>2. ~Improves(side, b, p) /\ ~Improves(side, p, b)
  BY <1>1
<1> HIDE DEF b
<1>3. b \in Int /\ p \in Int
  <2>1. b \in Price /\ p \in Price
    BY <1>1
  <2>2. QED
    BY <2>1 DEF Price
<1>4. b = p
  <2>1. CASE side = "Bid"
    BY <2>1, <1>2, <1>3 DEF Improves
  <2>2. CASE side = "Ask"
    BY <2>2, <1>2, <1>3 DEF Improves
  <2>3. QED
    BY <2>1, <2>2 DEF Side
<1>5. QED
  BY <1>4 DEF b

LEMMA BestInTyped ==
  ASSUME NEW side \in Side, NEW S \in SUBSET Price
  PROVE  /\ BestIn(side, S) \in Price \cup {NoPx}
         /\ S # {} => /\ BestIn(side, S) \in S
                      /\ \A q \in S : ~Improves(side, q, BestIn(side, S))
         /\ S = {} <=> BestIn(side, S) = NoPx
<1>1. CASE S = {}
  BY <1>1 DEF BestIn
<1>2. CASE S # {}
  <2>1. BestIn(side, S) \in S /\ \A q \in S : ~Improves(side, q, BestIn(side, S))
    BY <1>2, BestExists DEF BestIn
  <2>2. NoPx \notin Price
    BY DEF Price, NoPx
  <2>3. QED
    BY <1>2, <2>1, <2>2
<1>3. QED
  BY <1>1, <1>2

(* Setting a level keeps the cache true: the new level improves on the old *)
(* best, or it does not, or the best was emptied and the scan from it      *)
(* finds the next (Ladder::set, rescan_from).                              *)
THEOREM SetKeepsBest ==
  ASSUME NEW l \in LadderRecord, NEW side \in Side, BestTrue(l, side),
         NEW px \in Price, NEW qty \in Nat
  PROVE  BestTrue(Set(l, side, px, qty), side) /\ Set(l, side, px, qty) \in LadderRecord
<1> DEFINE new == Set(l, side, px, qty)
           old == Occupied(l)
           occ == Occupied(new)
<1>1. l.lvls \in [Price -> Nat] /\ l.best = BestIn(side, old) /\ old \in SUBSET Price
  BY DEF LadderRecord, BestTrue, Occupied
<1>2. new.lvls = [l.lvls EXCEPT ![px] = qty]
  BY DEF Set
<1>3. /\ new.lvls \in [Price -> Nat] /\ occ \in SUBSET Price
      /\ \A p \in Price : p # px => (p \in occ <=> p \in old)
      /\ px \in occ <=> qty > 0
  BY <1>1, <1>2 DEF Occupied
<1>4. CASE qty > 0 /\ (l.best = NoPx \/ Improves(side, px, l.best))
  <2>1. new.best = px
    BY <1>4 DEF Set
  <2>2. ASSUME NEW q \in old PROVE ~Improves(side, q, px)
    <3>1. l.best \in old /\ ~Improves(side, q, l.best) /\ l.best # NoPx
      BY <1>1, BestInTyped
    <3>2. Improves(side, px, l.best)
      BY <1>4, <3>1
    <3>3. q \in Int /\ l.best \in Int /\ px \in Int
      BY <1>1, <3>1 DEF Price
    <3>4. QED
      BY <3>1, <3>2, <3>3 DEF Improves
  <2>3. \A q \in occ : ~Improves(side, q, px)
    BY <1>3, <2>2 DEF Improves, Price
  <2>4. QED
    BY <1>3, <1>4, <2>1, <2>3, BestInIs DEF BestTrue, LadderRecord, Set
<1>5. CASE qty > 0 /\ l.best # NoPx /\ ~Improves(side, px, l.best)
  <2>1. new.best = l.best
    BY <1>5 DEF Set
  <2>5. l.best \in old /\ l.best \in Price
    <3>1. old # {}
      BY <1>1, <1>5, BestInTyped
    <3>2. QED
      BY <1>1, <3>1, BestInTyped
  <2>2. \A q \in occ : ~Improves(side, q, l.best)
    BY <1>1, <1>3, <1>5, BestInTyped
  <2>3. l.best \in occ
    BY <1>3, <1>5, <2>5
  <2>4. QED
    BY <1>3, <2>1, <2>2, <2>3, <2>5, BestInIs DEF BestTrue, LadderRecord, Set
<1>6. CASE qty = 0 /\ l.best = px
  <2> DEFINE rest == {p \in Price : new.lvls[p] > 0 /\ Improves(side, px, p)}
  <2>1. new.best = BestIn(side, rest)
    BY <1>2, <1>6 DEF Set, RescanFrom
  <2>2. px \in old /\ \A q \in old : ~Improves(side, q, px)
    <3>1. NoPx \notin Price
      BY DEF Price, NoPx
    <3>2. old # {}
      BY <1>1, <1>6, <3>1, BestInTyped
    <3>3. BestIn(side, old) = px
      BY <1>1, <1>6
    <3>4. BestIn(side, old) \in old /\ \A q \in old : ~Improves(side, q, BestIn(side, old))
      BY <1>1, <3>2, BestInTyped
    <3>5. QED
      BY <3>3, <3>4
  <2>3. rest = occ
    <3>1. ASSUME NEW p \in occ PROVE Improves(side, px, p)
      <4>1. p \in old /\ p # px
        BY <1>3, <1>6, <3>1
      <4>2. QED
        BY <1>1, <2>2, <4>1 DEF Improves, Side, Price
    <3>2. QED
      BY <3>1 DEF Occupied
  <2>4. QED
    BY <1>3, <2>1, <2>3, BestInTyped DEF BestTrue, LadderRecord, Set
<1>7. CASE qty = 0 /\ l.best # px
  <2>1. new.best = l.best
    BY <1>7 DEF Set
  <2>2. CASE px \in old
    <3>1. l.best \in occ
      BY <1>1, <1>3, <1>7, <2>2, BestInTyped
    <3>2. \A q \in occ : ~Improves(side, q, l.best)
      BY <1>1, <1>3, <1>7, <2>2, BestInTyped
    <3>3. QED
      BY <1>1, <1>3, <2>1, <3>1, <3>2, BestInIs DEF BestTrue, LadderRecord, Set
  <2>3. CASE px \notin old
    <3>1. occ = old
      BY <1>1, <1>3, <1>7, <2>3
    <3>2. QED
      BY <1>1, <1>3, <2>1, <3>1, BestInTyped DEF BestTrue, LadderRecord, Set
  <2>4. QED
    BY <2>2, <2>3
<1>8. QED
  BY <1>4, <1>5, <1>6, <1>7

-----------------------------------------------------------------------------
(* The live books of the feed. *)

LiveBook == {b \in [side : [Side -> LadderRecord], valid : BOOLEAN, offTick : Nat] :
               \A s \in Side : BestTrue(b.side[s], s)}

\* what the changes leave of the level s, p of b
Leaves(cs, b, s, p) ==
  IF \E c \in cs : c.side = s /\ c.px = p THEN [side |-> s, px |-> p, qty |-> 1] \in cs
  ELSE p \in Occupied(b.side[s])

LEMMA PriceType == Price \in SUBSET Int /\ NoPx \notin Price /\ IsFiniteSet(Price)
BY LevelsAssumption, FS_Interval DEF Price, NoPx

\* A book takes a change: its ladders stay true, and only the level changes.
LEMMA ApplyChangeIs ==
  ASSUME NEW b \in LiveBook, NEW c \in Change
  PROVE  /\ ApplyChange(b, c) \in LiveBook
         /\ \A s \in Side, p \in Price :
              p \in Occupied(ApplyChange(b, c).side[s]) <=>
                IF c.side = s /\ c.px = p THEN c.qty = 1 ELSE p \in Occupied(b.side[s])
<1>1. /\ b \in [side : [Side -> LadderRecord], valid : BOOLEAN, offTick : Nat]
      /\ \A s \in Side : BestTrue(b.side[s], s)
      /\ c.side \in Side /\ c.px \in Price \cup OffTick /\ c.qty \in {0, 1}
  BY DEF LiveBook, Change, RawPrice
<1>2. CASE c.px \in OffTick
  <2>1. ApplyChange(b, c) = [b EXCEPT !.offTick = @ + 1]
    BY <1>2 DEF ApplyChange
  <2>2. c.px \notin Price
    BY <1>2, FeedAssumption
  <2> QED BY <1>1, <2>1, <2>2 DEF LiveBook
<1>3. CASE c.px \notin OffTick
  <2> DEFINE old == b.side[c.side]
             new == Set(old, c.side, c.px, c.qty)
  <2>1. ApplyChange(b, c) = [b EXCEPT !.side[c.side] = new]
    BY <1>3 DEF ApplyChange
  <2>2. old \in LadderRecord /\ BestTrue(old, c.side) /\ c.px \in Price /\ c.qty \in Nat
    BY <1>1, <1>3
  <2>3. BestTrue(new, c.side) /\ new \in LadderRecord
    BY <1>1, <2>2, SetKeepsBest
  <2>4. new.lvls = [old.lvls EXCEPT ![c.px] = c.qty] /\ old.lvls \in [Price -> Nat]
    BY <2>2 DEF Set, LadderRecord
  <2>5. \A p \in Price : p \in Occupied(new) <=> IF c.px = p THEN c.qty = 1 ELSE p \in Occupied(old)
    BY <1>1, <2>4 DEF Occupied
  <2> HIDE DEF new
  <2>6. /\ ApplyChange(b, c) \in [side : [Side -> LadderRecord], valid : BOOLEAN, offTick : Nat]
        /\ \A s \in Side : ApplyChange(b, c).side[s] = IF s = c.side THEN new ELSE b.side[s]
    BY <1>1, <2>1, <2>3
  <2> QED BY <1>1, <2>3, <2>5, <2>6 DEF LiveBook
<1> QED BY <1>2, <1>3

\* An event's changes in whatever order they are applied.
LEMMA ChangesAre ==
  ASSUME NEW b \in LiveBook, NEW cs \in Changes, IsFiniteSet(cs)
  PROVE  LET new == FoldSet(LAMBDA c, acc : ApplyChange(acc, c), b, cs)
         IN  /\ new \in LiveBook
             /\ \A s \in Side, p \in Price : p \in Occupied(new.side[s]) <=> Leaves(cs, b, s, p)
<1> DEFINE Folds(g) == g = [x \in SUBSET cs |-> IF x = {} THEN b ELSE ApplyChange(g[x \ {Pick(x)}], Pick(x))]
           Right(x, new) == /\ new \in LiveBook
                            /\ \A s \in Side, p \in Price : p \in Occupied(new.side[s]) <=> Leaves(x, b, s, p)
<1>1. FoldSet(LAMBDA c, acc : ApplyChange(acc, c), b, cs) = (CHOOSE g : Folds(g))[cs]
  BY Zenon DEF FoldSet, MapThenFoldSet, Pick
<1>2. \A x \in SUBSET cs : x # {} => Pick(x) \in x /\ Pick(x) \in Change /\ x \ {Pick(x)} \in SUBSET cs
  BY DEF Pick, Changes
<1>3. \E g : Folds(g)
  <2> DEFINE f == [z \in Change \X LiveBook |-> ApplyChange(z[2], z[1])]
             first == [x \in SUBSET cs |-> Pick(x)]
  <2>1. PICK g : FoldsWith(g, f, b, first, SUBSET cs)
    <3>1. \A x \in SUBSET cs : x # {} => first[x] \in x
      BY <1>2
    <3> HIDE DEF first, f
    <3> QED BY <3>1, FoldsExist
  <2>2. g = [x \in SUBSET cs |-> IF x = {} THEN b ELSE f[<<Pick(x), g[x \ {Pick(x)}]>>]]
    <3>1. \A x \in SUBSET cs : first[x] = Pick(x)
      OBVIOUS
    <3> HIDE DEF f, first
    <3> QED BY <2>1, <3>1 DEF FoldsWith
  <2>3. \A z \in Change \X LiveBook : f[z] \in LiveBook
    BY ApplyChangeIs
  <2> DEFINE Good == {x \in SUBSET cs : g[x] \in LiveBook}
  <2>4. ASSUME NEW x \in SUBSET cs, \A c \in x : x \ {c} \in Good PROVE x \in Good
    <3>1. CASE x = {}
      BY <2>2, <3>1
    <3>2. CASE x # {}
      <4>1. g[x] = f[<<Pick(x), g[x \ {Pick(x)}]>>]
        BY <2>2, <3>2
      <4>2. Pick(x) \in Change /\ g[x \ {Pick(x)}] \in LiveBook
        BY <1>2, <2>4, <3>2
      <4> HIDE DEF f
      <4> QED BY <2>3, <4>1, <4>2
    <3> QED BY <3>1, <3>2
  <2> HIDE DEF Good
  <2>5. SUBSET cs \subseteq Good
    BY <2>4, SubsetInduction
  <2>6. \A x \in SUBSET cs : x # {} => g[x] = ApplyChange(g[x \ {Pick(x)}], Pick(x))
    <3> TAKE x \in SUBSET cs
    <3> HAVE x # {}
    <3>1. Pick(x) \in Change /\ g[x \ {Pick(x)}] \in LiveBook
      BY <1>2, <2>5 DEF Good
    <3>2. g[x] = f[<<Pick(x), g[x \ {Pick(x)}]>>]
      BY <2>2
    <3> QED BY <3>1, <3>2
  <2>7. \A x \in SUBSET cs : g[x] = IF x = {} THEN b ELSE ApplyChange(g[x \ {Pick(x)}], Pick(x))
    BY <2>2, <2>6
  <2>8. g = [x \in SUBSET cs |-> g[x]]
    BY <2>2, Zenon
  <2> QED BY <2>7, <2>8
<1>4. PICK g : Folds(g) /\ FoldSet(LAMBDA c, acc : ApplyChange(acc, c), b, cs) = g[cs]
  BY <1>1, <1>3, Zenon
<1> DEFINE Good == {x \in SUBSET cs : Right(x, g[x])}
<1>5. ASSUME NEW x \in SUBSET cs, \A c \in x : x \ {c} \in Good PROVE x \in Good
  <2>1. CASE x = {}
    <3>1. g[x] = b
      BY <1>4, <2>1
    <3>2. Right(x, b)
      BY <2>1 DEF Leaves
    <3> QED BY <3>1, <3>2
  <2>2. CASE x # {}
    <3> DEFINE c == Pick(x)
               rest == x \ {c}
    <3>1. g[x] = ApplyChange(g[rest], c)
      BY <1>4, <2>2
    <3>2. c \in x /\ c \in Change /\ Right(rest, g[rest])
      BY <1>2, <1>5, <2>2
    <3>3. \A d \in x : d.side = c.side /\ d.px = c.px => d = c
      BY <3>2 DEF Changes
    <3>4. x \subseteq Change
      BY DEF Changes
    <3> HIDE DEF c
    <3>5. \A s \in Side, p \in Price :
            (IF c.side = s /\ c.px = p THEN c.qty = 1 ELSE Leaves(rest, b, s, p)) <=> Leaves(x, b, s, p)
      <4> TAKE s \in Side, p \in Price
      <4>1. CASE c.side = s /\ c.px = p
        <5>1. [side |-> s, px |-> p, qty |-> 1] \in x <=> c.qty = 1
          BY <3>2, <3>3, <4>1 DEF Change
        <5> QED BY <3>2, <4>1, <5>1 DEF Leaves
      <4>2. CASE ~(c.side = s /\ c.px = p)
        <5>1. (\E d \in x : d.side = s /\ d.px = p) <=> \E d \in rest : d.side = s /\ d.px = p
          BY <4>2
        <5>2. [side |-> s, px |-> p, qty |-> 1] \in x <=> [side |-> s, px |-> p, qty |-> 1] \in rest
          BY <4>2
        <5> QED BY <4>2, <5>1, <5>2 DEF Leaves
      <4> QED BY <4>1, <4>2
    <3> HIDE DEF rest
    <3>6. Right(x, g[x])
      BY <3>1, <3>2, <3>5, ApplyChangeIs
    <3> QED BY <3>6
  <2> QED BY <2>1, <2>2
<1> HIDE DEF Good
<1>6. SUBSET cs \subseteq Good
  BY <1>5, SubsetInduction
<1>7. Right(cs, g[cs])
  BY <1>6 DEF Good
<1> QED BY <1>4, <1>7, Zenon

\* What a snapshot or a group of changes can hold is finite.
LEMMA ChangesFinite ==
  ASSUME NEW cs, cs \subseteq Change
  PROVE  IsFiniteSet(cs)
<1> DEFINE Two == Side \X RawPrice
           Three == Two \X {0, 1}
<1>1. IsFiniteSet(Side) /\ IsFiniteSet(RawPrice) /\ IsFiniteSet({0, 1})
  <2>1. IsFiniteSet(Side)
    <3>1. Side = {"Bid"} \cup {"Ask"}
      BY DEF Side
    <3> QED BY <3>1, FS_Singleton, FS_Union
  <2>2. IsFiniteSet(RawPrice)
    BY PriceType, FeedAssumption, FS_Union DEF RawPrice
  <2>3. IsFiniteSet({0, 1})
    <3>1. {0, 1} = {0} \cup {1}
      OBVIOUS
    <3>2. IsFiniteSet({0}) /\ IsFiniteSet({1})
      BY FS_Singleton, Zenon
    <3>3. IsFiniteSet({0} \cup {1})
      BY <3>2, FS_Union, Zenon
    <3> QED BY <3>1, <3>3, Zenon
  <2> QED BY <2>1, <2>2, <2>3
<1>2. IsFiniteSet(Two)
  BY <1>1, FS_Product
<1>3. IsFiniteSet(Three)
  BY <1>1, <1>2, FS_Product
<1> DEFINE f == [z \in Three |-> [side |-> z[1][1], px |-> z[1][2], qty |-> z[2]]]
<1>4. f \in Surjection(Three, Change)
  <2>1. f \in [Three -> Change]
    BY DEF Change
  <2>2. \A c \in Change : \E z \in Three : f[z] = c
    <3> TAKE c \in Change
    <3> DEFINE z == <<<<c.side, c.px>>, c.qty>>
    <3>1. z \in Three
      BY DEF Change
    <3>2. f[z] = [side |-> c.side, px |-> c.px, qty |-> c.qty]
      BY <3>1
    <3>3. f[z] = c
      BY <3>2 DEF Change
    <3> QED BY <3>1, <3>3
  <2> QED BY <2>1, <2>2 DEF Surjection
<1>5. IsFiniteSet(Change)
  BY <1>3, <1>4, FS_Surjection
<1> QED BY <1>5, FS_Subset

\* The difference of two books names the levels that differ, once each.
LEMMA DiffIs ==
  ASSUME NEW from \in RawBook, NEW to \in RawBook
  PROVE  /\ Diff(from, to) \in Changes
         /\ \A s \in Side, p \in RawPrice :
              /\ (\E c \in Diff(from, to) : c.side = s /\ c.px = p) <=> ~(p \in to[s] <=> p \in from[s])
              /\ [side |-> s, px |-> p, qty |-> 1] \in Diff(from, to) <=> p \in to[s] /\ p \notin from[s]
<1> DEFINE Level(b, s, p) == [side |-> s, px |-> p, qty |-> IF p \in b[s] THEN 1 ELSE 0]
<1>1. \A c : c \in Diff(from, to) <=> /\ \E s \in Side, p \in RawPrice : c = Level(to, s, p)
                                      /\ ~ \E s \in Side, p \in RawPrice : c = Level(from, s, p)
  BY DEF Diff
<1>2. \A s \in Side, p \in RawPrice : \A q \in {0, 1} :
        [side |-> s, px |-> p, qty |-> q] \in Diff(from, to)
           <=> (q = 1 <=> p \in to[s]) /\ ~(q = 1 <=> p \in from[s])
  BY <1>1
<1>3. Diff(from, to) \subseteq Change
  BY <1>1 DEF Change
<1>4. \A c \in Diff(from, to) : /\ c = [side |-> c.side, px |-> c.px, qty |-> c.qty]
                                /\ c.side \in Side /\ c.px \in RawPrice /\ c.qty \in {0, 1}
  BY <1>3 DEF Change
<1> HIDE DEF Level
<1> DEFINE D == Diff(from, to)
<1> HIDE DEF D
<1>5. \A c \in D : (c.qty = 1 <=> c.px \in to[c.side]) /\ ~(c.qty = 1 <=> c.px \in from[c.side])
  <2> TAKE c \in D
  <2>1. /\ c = [side |-> c.side, px |-> c.px, qty |-> c.qty]
        /\ c.side \in Side /\ c.px \in RawPrice /\ c.qty \in {0, 1}
    BY <1>4 DEF D
  <2>2. [side |-> c.side, px |-> c.px, qty |-> c.qty] \in D
    BY <2>1
  <2> QED BY <1>2, <2>1, <2>2 DEF D
<1>6. \A c, d \in D : c.side = d.side /\ c.px = d.px => c = d
  <2> TAKE c, d \in D
  <2> HAVE c.side = d.side /\ c.px = d.px
  <2>1. c.qty = 1 <=> d.qty = 1
    BY <1>5
  <2>2. c.qty = d.qty
    BY <1>4, <2>1 DEF D
  <2> QED BY <1>4, <2>2 DEF D
<1>7. \A s \in Side, p \in RawPrice :
        (\E c \in D : c.side = s /\ c.px = p) <=> ~(p \in to[s] <=> p \in from[s])
  <2> TAKE s \in Side, p \in RawPrice
  <2>1. ASSUME NEW c \in D, c.side = s, c.px = p PROVE ~(p \in to[s] <=> p \in from[s])
    BY <1>5, <2>1
  <2>2. ASSUME ~(p \in to[s] <=> p \in from[s]) PROVE \E c \in D : c.side = s /\ c.px = p
    <3>1. CASE p \in to[s]
      <4>1. [side |-> s, px |-> p, qty |-> 1] \in D
        BY <1>2, <2>2, <3>1 DEF D
      <4> QED BY <4>1
    <3>2. CASE p \notin to[s]
      <4>1. 0 \in {0, 1} /\ ~(0 = 1)
        OBVIOUS
      <4>2. [side |-> s, px |-> p, qty |-> 0] \in D
        BY <1>2, <2>2, <3>2, <4>1, Zenon DEF D
      <4> QED BY <4>2
    <3> QED BY <3>1, <3>2
  <2> QED BY <2>1, <2>2
<1>8. \A s \in Side, p \in RawPrice :
        [side |-> s, px |-> p, qty |-> 1] \in D <=> p \in to[s] /\ p \notin from[s]
  BY <1>2 DEF D
<1> QED BY <1>3, <1>6, <1>7, <1>8 DEF Changes, D

LEMMA NewBookIs == NewBook \in LiveBook /\ ~NewBook.valid /\ \A s \in Side : Occupied(NewBook.side[s]) = {}
<1>1. NewLadder \in LadderRecord /\ Occupied(NewLadder) = {}
  BY DEF NewLadder, LadderRecord, Occupied
<1>2. \A s \in Side : BestTrue(NewLadder, s)
  BY <1>1 DEF BestTrue, BestIn, NewLadder
<1> QED BY <1>1, <1>2 DEF NewBook, LiveBook

\* Only one side has to be wrong to be seen: a level at or above one of the other.
LEMMA CrossedIs ==
  ASSUME NEW b \in LiveBook,
         NEW x \in Occupied(b.side["Bid"]), NEW a \in Occupied(b.side["Ask"]), a <= x
  PROVE  Crossed(b)
<1> DEFINE bid == b.side["Bid"]
           ask == b.side["Ask"]
<1>1. "Bid" \in Side /\ "Ask" \in Side
  BY DEF Side
<1>2. /\ bid.best = BestIn("Bid", Occupied(bid)) /\ ask.best = BestIn("Ask", Occupied(ask))
      /\ Occupied(bid) \in SUBSET Price /\ Occupied(ask) \in SUBSET Price
  BY <1>1 DEF LiveBook, BestTrue, Occupied
<1>3. bid.best \in Price /\ ~Improves("Bid", x, bid.best)
  BY <1>1, <1>2, BestInTyped
<1>4. ask.best \in Price /\ ~Improves("Ask", a, ask.best)
  BY <1>1, <1>2, BestInTyped
<1>5. x \in Int /\ a \in Int /\ bid.best \in Int /\ ask.best \in Int
  BY <1>2, <1>3, <1>4, PriceType
<1>6. bid.best >= x /\ ask.best <= a
  BY <1>3, <1>4, <1>5 DEF Improves
<1>7. bid.best >= ask.best
  BY <1>5, <1>6
<1> QED BY <1>3, <1>4, <1>7, PriceType DEF Crossed

\* A snapshot that is kept is the book it was made from, and it is not crossed.
LEMMA SnapshotIs ==
  ASSUME NEW b \in LiveBook, NEW raw \in RawBook
  PROVE  LET new == Snapshot(b, raw)
         IN  /\ new \in LiveBook
             /\ new.valid => /\ ~Crossed(new) /\ raw # CrossedBook
                             /\ \A s \in Side, p \in Price : p \in Occupied(new.side[s]) <=> p \in raw[s]
<1> DEFINE none == [s \in Side |-> {}]
           full == FoldSet(LAMBDA c, acc : ApplyChange(acc, c), NewBook, Diff(none, raw))
<1>1. none \in RawBook
  BY DEF RawBook
<1>2. /\ Diff(none, raw) \in Changes
      /\ \A s \in Side, p \in RawPrice :
           /\ (\E c \in Diff(none, raw) : c.side = s /\ c.px = p) <=> p \in raw[s]
           /\ [side |-> s, px |-> p, qty |-> 1] \in Diff(none, raw) <=> p \in raw[s]
  <2>1. \A s \in Side, p \in RawPrice : p \notin none[s]
    OBVIOUS
  <2> HIDE DEF none
  <2> QED BY <1>1, <2>1, DiffIs
<1>3. IsFiniteSet(Diff(none, raw))
  BY <1>2, ChangesFinite DEF Changes
<1>4. /\ full \in LiveBook
      /\ \A s \in Side, p \in Price : p \in Occupied(full.side[s]) <=> Leaves(Diff(none, raw), NewBook, s, p)
  BY <1>2, <1>3, NewBookIs, ChangesAre
<1>5. Snapshot(b, raw) = IF Crossed(full) THEN [NewBook EXCEPT !.offTick = b.offTick]
                         ELSE [full EXCEPT !.valid = TRUE]
  BY Zenon DEF Snapshot
<1> HIDE DEF full, none
<1>6. \A s \in Side, p \in Price : p \in Occupied(full.side[s]) <=> p \in raw[s]
  <2> TAKE s \in Side, p \in Price
  <2>1. p \in RawPrice /\ p \notin Occupied(NewBook.side[s])
    BY NewBookIs DEF RawPrice
  <2>2. Leaves(Diff(none, raw), NewBook, s, p) <=> p \in raw[s]
    BY <1>2, <2>1 DEF Leaves
  <2> QED BY <1>4, <2>2
<1>7. CASE Crossed(full)
  <2>1. Snapshot(b, raw) = [NewBook EXCEPT !.offTick = b.offTick]
    BY <1>5, <1>7
  <2>2. b.offTick \in Nat
    BY DEF LiveBook
  <2> QED BY <2>1, <2>2, NewBookIs DEF LiveBook
<1>8. CASE ~Crossed(full)
  <2> DEFINE new == Snapshot(b, raw)
  <2>1. new = [full EXCEPT !.valid = TRUE]
    BY <1>5, <1>8
  <2>2. new \in LiveBook /\ new.side = full.side
    BY <1>4, <2>1 DEF LiveBook
  <2>3. ~Crossed(new)
    BY <1>8, <2>2 DEF Crossed
  <2>4. raw # CrossedBook
    <3> SUFFICES ASSUME raw = CrossedBook PROVE FALSE
      OBVIOUS
    <3>1. PICK x \in CrossedBook["Bid"] \cap Price, a \in CrossedBook["Ask"] \cap Price : a <= x
      BY FeedAssumption
    <3>2. x \in Occupied(full.side["Bid"]) /\ a \in Occupied(full.side["Ask"])
      BY <1>6, <3>1 DEF Side
    <3> QED BY <1>4, <1>8, <3>1, <3>2, CrossedIs
  <2> QED BY <1>6, <2>2, <2>3, <2>4
<1> QED BY <1>7, <1>8

\* Changes that leave a book valid leave it uncrossed, and the other levels alone.
LEMMA ChangedIs ==
  ASSUME NEW b \in LiveBook, NEW cs \in Changes
  PROVE  LET new == Changed(b, cs)
         IN  /\ new \in LiveBook
             /\ new.valid => ~Crossed(new)
             /\ \A s \in Side, p \in Price : p \in Occupied(new.side[s]) <=> Leaves(cs, b, s, p)
<1> DEFINE next == FoldSet(LAMBDA c, acc : ApplyChange(acc, c), b, cs)
<1>1. /\ next \in LiveBook
      /\ \A s \in Side, p \in Price : p \in Occupied(next.side[s]) <=> Leaves(cs, b, s, p)
  BY ChangesFinite, ChangesAre DEF Changes
<1>2. Changed(b, cs) = [next EXCEPT !.valid = next.offTick < OffTickThreshold /\ ~Crossed(next)]
  BY Zenon DEF Changed
<1> HIDE DEF next
<1>3. Crossed(next) \in BOOLEAN
  BY DEF Crossed
<1>4. (next.offTick < OffTickThreshold /\ ~Crossed(next)) \in BOOLEAN
  OBVIOUS
<1> DEFINE ok == next.offTick < OffTickThreshold /\ ~Crossed(next)
<1>5. Changed(b, cs) = [next EXCEPT !.valid = ok] /\ ok \in BOOLEAN /\ (ok => ~Crossed(next))
  BY <1>2
<1> HIDE DEF ok
<1>6. /\ Changed(b, cs) \in LiveBook /\ Changed(b, cs).side = next.side
      /\ Changed(b, cs).valid = ok
  BY <1>1, <1>5 DEF LiveBook
<1>7. Crossed(Changed(b, cs)) <=> Crossed(next)
  BY <1>6 DEF Crossed
<1> QED BY <1>1, <1>5, <1>6, <1>7

-----------------------------------------------------------------------------
(* The queue: what an action does to the events that set a level last.     *)

\* A set listed as a sequence.
LEMMA ListedIs ==
  ASSUME NEW S, IsFiniteSet(S)
  PROVE  LET q == SetToSeq(S)
         IN  /\ q \in Seq(S)
             /\ \A i, j \in DOMAIN q : q[i] = q[j] => i = j
             /\ \A e \in S : \E i \in DOMAIN q : q[i] = e
<1> DEFINE n == Cardinality(S)
<1>1. n \in Nat /\ ExistsBijection(1..n, S)
  BY FS_CardinalityType
<1>2. PICK b : b \in Bijection(1..n, S)
  BY <1>1 DEF ExistsBijection
<1>3. b \in [1..n -> S] /\ IsInjective(b)
  BY <1>2, Zenon DEF Bijection, Injection
<1> DEFINE q == SetToSeq(S)
<1>4. q \in [1..n -> S] /\ IsInjective(q)
  BY <1>3, Zenon DEF SetToSeq
<1> HIDE DEF q, n
<1>5. q \in Injection(1..n, S) /\ IsFiniteSet(1..n) /\ Cardinality(1..n) = n
  BY <1>1, <1>4, FS_Interval DEF Injection
<1>6. q \in Surjection(1..n, S)
  <2>1. n = Cardinality(S)
    BY DEF n
  <2> QED BY <1>5, <2>1, FS_Injection, Zenon
<1>7. \A e \in S : \E i \in 1..n : q[i] = e
  BY <1>6 DEF Surjection
<1>8. q \in Seq(S) /\ DOMAIN q = 1..n
  BY <1>1, <1>4
<1> QED BY <1>4, <1>7, <1>8 DEF IsInjective, q

Queue(wk, wr) == [k \in 0..Len(wr) |-> IF k = 0 THEN wk ELSE wr[k]]

LEMMA PlacesAre ==
  ASSUME NEW q
  PROVE  /\ \A x \in Places(q) : x = <<x[1], x[2]>> /\ x[1] \in DOMAIN q /\ x[2] \in DOMAIN q[x[1]]
         /\ \A k \in DOMAIN q : \A i \in DOMAIN q[k] : <<k, i>> \in Places(q)
BY DEF Places

LEMMA SettingIs ==
  ASSUME NEW q, NEW t, NEW s, NEW p
  PROVE  /\ \A x \in Setting(q, t, s, p) :
              /\ x = <<x[1], x[2]>> /\ x[1] \in DOMAIN q /\ x[2] \in DOMAIN q[x[1]]
              /\ Event(q, x) = q[x[1]][x[2]] /\ Sets(Event(q, x), t, s, p)
         /\ \A k \in DOMAIN q : \A i \in DOMAIN q[k] :
              Sets(q[k][i], t, s, p) => <<k, i>> \in Setting(q, t, s, p)
BY PlacesAre DEF Setting, Event

\* An event sets a level last: nothing after it does.
LEMMA LastIs ==
  ASSUME NEW q, NEW t, NEW s, NEW p
  PROVE  \A x : x \in LastSetting(q, t, s, p) <=>
                  /\ x \in Setting(q, t, s, p)
                  /\ \A y \in Setting(q, t, s, p) : ~(x[1] < y[1] \/ (x[1] = y[1] /\ x[2] < y[2]))
BY DEF LastSetting, Before

\* of the events E, or last in q before
FromLast(q, r, t, s, p, E) ==
  \A x \in LastSetting(r, t, s, p) :
    Event(r, x) \in E \/ \E y \in LastSetting(q, t, s, p) : Event(q, y) = Event(r, x)

\* A frame f comes in: it sets the level last, or it leaves it to what was there.
LEMMA Appended ==
  ASSUME NEW E, NEW wk \in Seq(E), NEW wr \in Seq(Seq(E)), NEW f \in Seq(E),
         NEW t, NEW s, NEW p
  PROVE  LET q == Queue(wk, wr)
             r == Queue(wk, Append(wr, f))
             own == {f[i] : i \in {j \in DOMAIN f : Sets(f[j], t, s, p)}}
         IN  /\ own # {} => /\ Setting(r, t, s, p) # {}
                            /\ \A x \in LastSetting(r, t, s, p) : Event(r, x) \in own
             /\ own = {} => /\ Setting(r, t, s, p) = {} => Setting(q, t, s, p) = {}
                            /\ FromLast(q, r, t, s, p, {})
<1> DEFINE q == Queue(wk, wr)
           r == Queue(wk, Append(wr, f))
           n == Len(wr)
           own == {f[i] : i \in {j \in DOMAIN f : Sets(f[j], t, s, p)}}
<1>1. /\ n \in Nat /\ DOMAIN q = 0..n /\ DOMAIN r = 0..(n + 1) /\ r[n + 1] = f
      /\ \A k \in 0..n : r[k] = q[k]
  BY DEF Queue
<1>2. \A k \in 0..n : q[k] \in Seq(E)
  BY DEF Queue
<1> HIDE DEF q, r
<1>3. ASSUME NEW j \in DOMAIN f, Sets(f[j], t, s, p)
      PROVE  <<n + 1, j>> \in Setting(r, t, s, p)
  <2>1. n + 1 \in DOMAIN r
    BY <1>1
  <2>2. j \in DOMAIN r[n + 1] /\ Sets(r[n + 1][j], t, s, p)
    BY <1>1, <1>3
  <2> QED BY <2>1, <2>2, SettingIs
<1>4. ASSUME NEW x \in Setting(q, t, s, p)
      PROVE  x \in Setting(r, t, s, p) /\ Event(r, x) = Event(q, x) /\ x[1] \in 0..n
  <2>1. /\ x = <<x[1], x[2]>> /\ x[1] \in 0..n /\ x[2] \in DOMAIN q[x[1]]
        /\ Event(q, x) = q[x[1]][x[2]] /\ Sets(Event(q, x), t, s, p)
    BY <1>1, SettingIs
  <2>2. x[1] \in DOMAIN r /\ r[x[1]] = q[x[1]]
    BY <1>1, <2>1
  <2>3. <<x[1], x[2]>> \in Setting(r, t, s, p)
    BY <2>1, <2>2, SettingIs
  <2> QED BY <2>1, <2>2, <2>3, SettingIs
<1>5. ASSUME NEW x \in Setting(r, t, s, p)
      PROVE  \/ x[1] = n + 1 /\ x[2] \in DOMAIN f /\ Event(r, x) = f[x[2]] /\ Sets(f[x[2]], t, s, p)
             \/ x \in Setting(q, t, s, p)
  <2>1. /\ x = <<x[1], x[2]>> /\ x[1] \in 0..(n + 1) /\ x[2] \in DOMAIN r[x[1]]
        /\ Event(r, x) = r[x[1]][x[2]] /\ Sets(Event(r, x), t, s, p)
    BY <1>1, SettingIs
  <2>2. CASE x[1] = n + 1
    BY <1>1, <2>1, <2>2
  <2>3. CASE x[1] # n + 1
    <3>1. x[1] \in DOMAIN q /\ r[x[1]] = q[x[1]]
      BY <1>1, <2>1, <2>3
    <3>2. <<x[1], x[2]>> \in Setting(q, t, s, p)
      BY <2>1, <3>1, SettingIs
    <3> QED BY <2>1, <3>2
  <2> QED BY <2>2, <2>3
<1>6. ASSUME own # {}
      PROVE  /\ Setting(r, t, s, p) # {}
             /\ \A x \in LastSetting(r, t, s, p) : Event(r, x) \in own
  <2>1. PICK j \in DOMAIN f : Sets(f[j], t, s, p)
    BY <1>6
  <2>2. <<n + 1, j>> \in Setting(r, t, s, p)
    BY <1>3, <2>1
  <2>3. ASSUME NEW x \in LastSetting(r, t, s, p) PROVE Event(r, x) \in own
    <3>1. x \in Setting(r, t, s, p) /\ ~(x[1] < n + 1)
      BY <2>2, LastIs
    <3>2. x \notin Setting(q, t, s, p)
      BY <1>1, <1>4, <3>1
    <3> QED BY <1>5, <3>1, <3>2
  <2> QED BY <2>2, <2>3
<1>7. ASSUME own = {}
      PROVE  /\ Setting(r, t, s, p) = {} => Setting(q, t, s, p) = {}
             /\ FromLast(q, r, t, s, p, {})
  <2>1. \A j \in DOMAIN f : ~Sets(f[j], t, s, p)
    BY <1>7
  <2> HIDE DEF own
  <2>2. Setting(r, t, s, p) = Setting(q, t, s, p)
    BY <1>4, <1>5, <2>1
  <2>3. LastSetting(r, t, s, p) = LastSetting(q, t, s, p)
    BY <2>2 DEF LastSetting
  <2>4. \A x \in LastSetting(r, t, s, p) : Event(r, x) = Event(q, x)
    BY <1>4, <2>2 DEF LastSetting
  <2> QED BY <2>2, <2>3, <2>4 DEF FromLast
<1> HIDE DEF own
<1> QED BY <1>6, <1>7 DEF q, r, own

\* The first frame is taken, or dropped.
LEMMA Popped ==
  ASSUME NEW E, NEW wr \in Seq(Seq(E)), wr # <<>>, NEW wk \in {<<>>, Head(wr)},
         NEW t, NEW s, NEW p
  PROVE  LET q == Queue(<<>>, wr)
             r == Queue(wk, Tail(wr))
         IN  /\ FromLast(q, r, t, s, p, {})
             /\ /\ Setting(r, t, s, p) = {}
                /\ wk = Head(wr) \/ \A i \in DOMAIN Head(wr) : ~Sets(Head(wr)[i], t, s, p)
                => Setting(q, t, s, p) = {}
<1> DEFINE q == Queue(<<>>, wr)
           r == Queue(wk, Tail(wr))
           n == Len(wr)
<1>1. /\ n \in Nat \ {0} /\ DOMAIN q = 0..n /\ DOMAIN r = 0..(n - 1)
      /\ q[0] = <<>> /\ r[0] = wk /\ q[1] = Head(wr) /\ \A k \in 1..(n - 1) : r[k] = q[k + 1]
  BY DEF Queue
<1> HIDE DEF q, r, n
<1>2. ASSUME NEW x \in Setting(r, t, s, p)
      PROVE  <<x[1] + 1, x[2]>> \in Setting(q, t, s, p) /\ Event(q, <<x[1] + 1, x[2]>>) = Event(r, x)
  <2>1. /\ x[1] \in 0..(n - 1) /\ x[2] \in DOMAIN r[x[1]]
        /\ Event(r, x) = r[x[1]][x[2]] /\ Sets(Event(r, x), t, s, p)
    BY <1>1, SettingIs
  <2>2. r[x[1]] = q[x[1] + 1]
    <3>1. CASE x[1] = 0
      <4>1. wk = Head(wr)
        BY <1>1, <2>1, <3>1
      <4> QED BY <1>1, <3>1, <4>1
    <3>2. CASE x[1] # 0
      BY <1>1, <2>1, <3>2
    <3> QED BY <3>1, <3>2
  <2>3. x[1] + 1 \in DOMAIN q
    BY <1>1, <2>1
  <2> QED BY <2>1, <2>2, <2>3, SettingIs DEF Event
<1>3. ASSUME NEW y \in Setting(q, t, s, p), y[1] # 1 \/ wk = Head(wr)
      PROVE  <<y[1] - 1, y[2]>> \in Setting(r, t, s, p)
  <2>1. /\ y[1] \in 0..n /\ y[2] \in DOMAIN q[y[1]]
        /\ Event(q, y) = q[y[1]][y[2]] /\ Sets(Event(q, y), t, s, p)
    BY <1>1, SettingIs
  <2>2. y[1] # 0
    BY <1>1, <2>1
  <2>3. y[1] - 1 \in DOMAIN r /\ r[y[1] - 1] = q[y[1]]
    <3>1. CASE y[1] = 1
      BY <1>1, <1>3, <3>1
    <3>2. CASE y[1] # 1
      <4>1. y[1] - 1 \in 1..(n - 1) /\ (y[1] - 1) + 1 = y[1]
        <5>1. n \in Nat /\ y[1] \in 0..n
          BY <1>1, <2>1
        <5> QED BY <2>2, <3>2, <5>1, SMTT(30)
      <4> QED BY <1>1, <4>1
    <3> QED BY <3>1, <3>2
  <2> QED BY <2>1, <2>3, SettingIs
<1>4. FromLast(q, r, t, s, p, {})
  <2> SUFFICES ASSUME NEW x \in LastSetting(r, t, s, p)
               PROVE  \E y \in LastSetting(q, t, s, p) : Event(q, y) = Event(r, x)
    BY DEF FromLast
  <2> DEFINE m == <<x[1] + 1, x[2]>>
  <2>1. x \in Setting(r, t, s, p) /\ x[1] \in 0..(n - 1)
    BY <1>1, LastIs, SettingIs
  <2>2. m \in Setting(q, t, s, p) /\ Event(q, m) = Event(r, x)
    BY <1>2, <2>1
  <2>3. ASSUME NEW y \in Setting(q, t, s, p), m[1] < y[1] \/ (m[1] = y[1] /\ m[2] < y[2]) PROVE FALSE
    <3>1. y[1] \in 0..n
      BY <1>1, SettingIs
    <3>2. y[1] # 1 \/ wk = Head(wr)
      <4> SUFFICES ASSUME y[1] = 1 PROVE wk = Head(wr)
        OBVIOUS
      <4>1. x[1] = 0
        BY <1>1, <2>1, <2>3
      <4>2. x[2] \in DOMAIN wk
        BY <1>1, <2>1, <4>1, SettingIs
      <4> QED BY <4>2
    <3>3. <<y[1] - 1, y[2]>> \in Setting(r, t, s, p)
      BY <1>3, <3>2
    <3>4. ~(x[1] < y[1] - 1 \/ (x[1] = y[1] - 1 /\ x[2] < y[2]))
      BY <3>3, LastIs
    <3> QED BY <1>1, <2>1, <2>3, <3>1, <3>4
  <2>4. m \in LastSetting(q, t, s, p)
    BY <2>2, <2>3, LastIs
  <2> QED BY <2>2, <2>4
<1>5. ASSUME Setting(r, t, s, p) = {},
             wk = Head(wr) \/ \A i \in DOMAIN Head(wr) : ~Sets(Head(wr)[i], t, s, p),
             NEW y \in Setting(q, t, s, p)
      PROVE  FALSE
  <2>1. /\ y[1] \in 0..n /\ y[2] \in DOMAIN q[y[1]]
        /\ Event(q, y) = q[y[1]][y[2]] /\ Sets(Event(q, y), t, s, p)
    BY <1>1, SettingIs
  <2>2. y[1] # 1 \/ wk = Head(wr)
    BY <1>1, <1>5, <2>1
  <2> QED BY <1>3, <1>5, <2>2
<1> QED BY <1>4, <1>5 DEF q, r

\* what set the level and no longer does was the event h at the head
OnlyHead(q, r, h, t, s, p) ==
  /\ Event(q, <<0, 1>>) = h
  /\ Setting(r, t, s, p) = {} /\ Setting(q, t, s, p) # {} =>
       Sets(h, t, s, p) /\ <<0, 1>> \in LastSetting(q, t, s, p)

\* The event in hand is done, and e takes its place, if anything.
LEMMA HeadDone ==
  ASSUME NEW S, NEW wk \in Seq(S), wk # <<>>, NEW wr \in Seq(Seq(S)),
         NEW e \in S, NEW wn, wn = Tail(wk) \/ wn = <<e>> \o Tail(wk),
         NEW t, NEW s, NEW p
  PROVE  LET q == Queue(wk, wr)
             r == Queue(wn, wr)
         IN  /\ FromLast(q, r, t, s, p, {x \in {e} : Sets(x, t, s, p)})
             /\ OnlyHead(q, r, Head(wk), t, s, p)
<1> DEFINE q == Queue(wk, wr)
           r == Queue(wn, wr)
           n == Len(wr)
           d == IF wn = Tail(wk) THEN 1 ELSE 0
           m(x) == IF x[1] = 0 THEN <<0, x[2] + d>> ELSE x
           len == Len(wk)
<1>0. /\ len \in Nat \ {0} /\ DOMAIN wk = 1..len /\ d \in 0..1
      /\ Len(Tail(wk)) = len - 1 /\ Tail(wk) \in Seq(S)
      /\ \A i \in 1..(len - 1) : Tail(wk)[i] = wk[i + 1]
  OBVIOUS
<1> HIDE DEF len
<1>1. /\ n \in Nat /\ DOMAIN q = 0..n /\ DOMAIN r = 0..n
      /\ q[0] = wk /\ r[0] = wn /\ \A k \in 1..n : r[k] = q[k]
      /\ \A k \in 0..n : DOMAIN q[k] \subseteq Nat \ {0}
  <2>1. \A k \in 1..n : wr[k] \in Seq(S)
    OBVIOUS
  <2>2. \A k \in 1..n : DOMAIN wr[k] = 1..Len(wr[k]) /\ Len(wr[k]) \in Nat
    BY <2>1
  <2>3. n \in Nat /\ 0 \in 0..n
    OBVIOUS
  <2>4. /\ q = [k \in 0..n |-> IF k = 0 THEN wk ELSE wr[k]]
        /\ r = [k \in 0..n |-> IF k = 0 THEN wn ELSE wr[k]]
    BY DEF Queue
  <2> HIDE DEF q, r, n
  <2>5. q[0] = wk /\ r[0] = wn /\ \A k \in 1..n : q[k] = wr[k] /\ r[k] = wr[k]
    BY <2>3, <2>4
  <2>6. \A k \in 0..n : DOMAIN q[k] \subseteq Nat \ {0}
    <3>1. DOMAIN wk \subseteq Nat \ {0}
      OBVIOUS
    <3>2. \A k \in 1..n : DOMAIN wr[k] \subseteq Nat \ {0}
      BY <2>2 DEF n
    <3>3. ASSUME NEW k \in 0..n PROVE k = 0 \/ k \in 1..n
      BY <2>3
    <3> QED BY <2>5, <3>1, <3>2, <3>3
  <2> QED BY <2>3, <2>4, <2>5, <2>6
<1>2. DOMAIN wn = 1..(len - d)
  <2>1. CASE wn = Tail(wk)
    BY <1>0, <2>1
  <2>2. CASE wn # Tail(wk)
    <3>1. wn = <<e>> \o Tail(wk) /\ d = 0
      BY <2>2
    <3>2. <<e>> \in Seq(S) /\ Len(<<e>>) = 1
      OBVIOUS
    <3>3. Len(<<e>> \o Tail(wk)) = 1 + (len - 1) /\ <<e>> \o Tail(wk) \in Seq(S)
      BY <1>0, <3>2
    <3>4. DOMAIN wn = 1..(1 + (len - 1))
      BY <3>1, <3>3
    <3>5. 1 + (len - 1) = len - d
      BY <1>0, <3>1
    <3> QED BY <3>4, <3>5
  <2> QED BY <2>1, <2>2
<1>3. \A i \in DOMAIN wn : wn[i] = IF d = 0 /\ i = 1 THEN e ELSE wk[i + d]
  <2>1. CASE wn = Tail(wk)
    <3>1. d = 1
      BY <2>1
    <3> HIDE DEF d
    <3> QED BY <1>0, <1>2, <2>1, <3>1
  <2>2. CASE wn # Tail(wk)
    <3>1. wn = <<e>> \o Tail(wk) /\ d = 0
      BY <2>2
    <3> HIDE DEF d
    <3>2. DOMAIN wn = 1..len
      BY <1>0, <1>2, <3>1
    <3>5. len \in Nat \ {0}
      BY <1>0
    <3>3. \A i \in 2..len : (<<e>> \o Tail(wk))[i] = Tail(wk)[i - 1] /\ Tail(wk)[i - 1] = wk[i]
      BY <1>0
    <3>4. (<<e>> \o Tail(wk))[1] = e
      BY <1>0
    <3> QED BY <1>0, <3>1, <3>2, <3>3, <3>4
  <2> QED BY <2>1, <2>2
<1>4. d = 1 => wn = Tail(wk)
  OBVIOUS
<1>5. d = 0 => wn = <<e>> \o Tail(wk)
  OBVIOUS
<1> HIDE DEF q, r, n, d
<1>6. ASSUME NEW x \in Setting(r, t, s, p)
      PROVE  \/ d = 0 /\ x[1] = 0 /\ x[2] = 1 /\ Event(r, x) = e /\ Sets(e, t, s, p)
             \/ m(x) \in Setting(q, t, s, p) /\ Event(q, m(x)) = Event(r, x)
  <2>1. /\ x = <<x[1], x[2]>> /\ x[1] \in 0..n /\ x[2] \in DOMAIN r[x[1]]
        /\ Event(r, x) = r[x[1]][x[2]] /\ Sets(Event(r, x), t, s, p)
    BY <1>1, SettingIs
  <2>2. CASE x[1] # 0
    <3>1. r[x[1]] = q[x[1]] /\ m(x) = x
      BY <1>1, <2>1, <2>2
    <3>2. <<x[1], x[2]>> \in Setting(q, t, s, p)
      BY <1>1, <2>1, <3>1, SettingIs
    <3> QED BY <2>1, <3>1, <3>2 DEF Event
  <2>3. CASE x[1] = 0
    <3>1. x[2] \in DOMAIN wn /\ Event(r, x) = wn[x[2]] /\ m(x) = <<0, x[2] + d>>
      BY <1>1, <2>1, <2>3
    <3>2. CASE d = 0 /\ x[2] = 1
      <4>1. wn[x[2]] = e
        BY <1>3, <3>1, <3>2
      <4> QED BY <2>1, <2>3, <3>1, <3>2, <4>1
    <3>3. CASE ~(d = 0 /\ x[2] = 1)
      <4>1. wn[x[2]] = wk[x[2] + d] /\ x[2] + d \in DOMAIN wk
        <5>1. x[2] \in 1..(len - d)
          BY <1>2, <3>1
        <5>2. x[2] + d \in 1..len
          BY <1>0, <5>1
        <5> QED BY <1>0, <1>3, <3>1, <3>3, <5>2
      <4>2. <<0, x[2] + d>> \in Setting(q, t, s, p)
        BY <1>1, <2>1, <3>1, <4>1, SettingIs
      <4>3. Event(q, <<0, x[2] + d>>) = Event(r, x)
        BY <1>1, <3>1, <4>1 DEF Event
      <4> QED BY <3>1, <4>2, <4>3
    <3> QED BY <3>2, <3>3
  <2> QED BY <2>2, <2>3
<1>7. ASSUME NEW y \in Setting(q, t, s, p)
      PROVE  \/ y[1] = 0 /\ y[2] = 1
             \/ y[1] = 0 /\ <<0, y[2] - d>> \in Setting(r, t, s, p)
             \/ y[1] # 0 /\ y \in Setting(r, t, s, p)
  <2>1. /\ y = <<y[1], y[2]>> /\ y[1] \in 0..n /\ y[2] \in DOMAIN q[y[1]]
        /\ Event(q, y) = q[y[1]][y[2]] /\ Sets(Event(q, y), t, s, p)
    BY <1>1, SettingIs
  <2>2. CASE y[1] # 0
    <3>1. r[y[1]] = q[y[1]]
      BY <1>1, <2>1, <2>2
    <3>2. <<y[1], y[2]>> \in Setting(r, t, s, p)
      BY <1>1, <2>1, <3>1, SettingIs
    <3> QED BY <2>1, <2>2, <3>2
  <2>3. CASE y[1] = 0 /\ y[2] # 1
    <3>1. y[2] \in 2..len
      BY <1>0, <1>1, <2>1, <2>3
    <3>2. y[2] - d \in DOMAIN wn /\ ~(d = 0 /\ y[2] - d = 1) /\ (y[2] - d) + d = y[2]
      <4>1. y[2] - d \in 1..(len - d) /\ ~(d = 0 /\ y[2] - d = 1) /\ (y[2] - d) + d = y[2]
        BY <1>0, <3>1
      <4> QED BY <1>2, <4>1
    <3>3. wn[y[2] - d] = wk[y[2]]
      BY <1>3, <3>2
    <3>4. <<0, y[2] - d>> \in Setting(r, t, s, p)
      BY <1>1, <2>1, <2>3, <3>2, <3>3, SettingIs
    <3> QED BY <2>3, <3>4
  <2> QED BY <2>2, <2>3
<1>8. ASSUME NEW x \in LastSetting(r, t, s, p), ~(d = 0 /\ x[1] = 0 /\ x[2] = 1)
      PROVE  m(x) \in LastSetting(q, t, s, p) /\ Event(q, m(x)) = Event(r, x)
  <2>1. x \in Setting(r, t, s, p) /\ x[1] \in 0..n /\ x[2] \in DOMAIN r[x[1]]
    BY <1>1, LastIs, SettingIs
  <2>2. m(x) \in Setting(q, t, s, p) /\ Event(q, m(x)) = Event(r, x)
    BY <1>6, <1>8, <2>1
  <2>3. x[2] \in Nat \ {0}
    <3>1. CASE x[1] = 0
      <4>1. x[2] \in 1..(len - d)
        BY <1>1, <1>2, <2>1, <3>1
      <4> QED BY <1>0, <4>1
    <3>2. CASE x[1] # 0
      <4>1. r[x[1]] = q[x[1]]
        BY <1>1, <2>1, <3>2
      <4> QED BY <1>1, <2>1, <4>1
    <3> QED BY <3>1, <3>2
  <2>4. ASSUME NEW y \in Setting(q, t, s, p), m(x)[1] < y[1] \/ (m(x)[1] = y[1] /\ m(x)[2] < y[2])
        PROVE  FALSE
    <3>1. y[1] \in 0..n /\ y[2] \in Nat \ {0} /\ m(x)[1] = x[1]
      <4>1. y[1] \in DOMAIN q /\ y[2] \in DOMAIN q[y[1]]
        BY SettingIs
      <4>2. m(x)[1] = x[1]
        OBVIOUS
      <4> QED BY <1>1, <4>1, <4>2
    <3>2. m(x)[2] = IF x[1] = 0 THEN x[2] + d ELSE x[2]
      OBVIOUS
    <3> HIDE DEF m
    <3>3. CASE y[1] # 0
      <4>1. y \in Setting(r, t, s, p)
        BY <1>7, <3>3
      <4>2. ~(x[1] < y[1] \/ (x[1] = y[1] /\ x[2] < y[2]))
        BY <4>1, LastIs
      <4> QED BY <2>4, <3>1, <3>2, <3>3, <4>2
    <3>4. CASE y[1] = 0
      <4>1. x[1] = 0 /\ x[2] + d < y[2]
        BY <2>1, <2>4, <3>1, <3>2, <3>4
      <4>2. y[2] # 1
        BY <1>0, <2>3, <3>1, <4>1
      <4>3. <<0, y[2] - d>> \in Setting(r, t, s, p)
        BY <1>7, <3>4, <4>2
      <4>4. ~(x[2] < y[2] - d)
        BY <4>1, <4>3, LastIs
      <4> QED BY <1>0, <2>3, <3>1, <4>1, <4>4
    <3> QED BY <3>3, <3>4
  <2>5. m(x) \in LastSetting(q, t, s, p)
    <3> HIDE DEF m
    <3> QED BY <2>2, <2>4, LastIs
  <2> QED BY <2>2, <2>5
<1>9. ASSUME NEW x \in LastSetting(r, t, s, p)
      PROVE  \/ Event(r, x) = e /\ Sets(e, t, s, p)
             \/ \E y \in LastSetting(q, t, s, p) : Event(q, y) = Event(r, x)
  <2>1. CASE ~(d = 0 /\ x[1] = 0 /\ x[2] = 1)
    BY <1>8, <2>1
  <2>2. CASE d = 0 /\ x[1] = 0 /\ x[2] = 1
    <3>1. x \in Setting(r, t, s, p)
      BY LastIs
    <3>2. Event(r, x) = wn[1] /\ 1 \in DOMAIN wn
      BY <1>1, <2>2, <3>1, SettingIs
    <3>3. wn[1] = e
      BY <1>3, <2>2, <3>2
    <3> QED BY <3>1, <3>2, <3>3, SettingIs
  <2> QED BY <2>1, <2>2
<1>10. ASSUME Setting(r, t, s, p) = {}, Setting(q, t, s, p) # {}
       PROVE  Sets(Head(wk), t, s, p) /\ <<0, 1>> \in LastSetting(q, t, s, p)
  <2>1. \A y \in Setting(q, t, s, p) : y[1] = 0 /\ y[2] = 1
    BY <1>7, <1>10
  <2>2. PICK y \in Setting(q, t, s, p) : TRUE
    BY <1>10
  <2>3. y = <<0, 1>> /\ Sets(q[0][1], t, s, p)
    BY <2>1, SettingIs
  <2>4. q[0][1] = Head(wk)
    BY <1>0, <1>1
  <2>5. \A z \in Setting(q, t, s, p) : ~(0 < z[1] \/ (0 = z[1] /\ 1 < z[2]))
    BY <2>1
  <2> QED BY <2>3, <2>4, <2>5, LastIs
<1>11. Event(q, <<0, 1>>) = Head(wk)
  BY <1>0, <1>1 DEF Event
<1>12. FromLast(q, r, t, s, p, {x \in {e} : Sets(x, t, s, p)})
  BY <1>9 DEF FromLast
<1> QED BY <1>10, <1>11, <1>12 DEF OnlyHead, q, r

\* Of the events that set a level one is the last.
LEMMA LastExists ==
  ASSUME NEW E, NEW wk \in Seq(E), NEW wr \in Seq(Seq(E)), NEW t, NEW s, NEW p,
         Setting(Queue(wk, wr), t, s, p) # {}
  PROVE  LastSetting(Queue(wk, wr), t, s, p) # {}
<1> DEFINE q == Queue(wk, wr)
           n == Len(wr)
<1>1. n \in Nat /\ DOMAIN q = 0..n /\ \A k \in 0..n : q[k] \in Seq(E)
  BY DEF Queue
<1> HIDE DEF q, n
<1> DEFINE Set1 == Setting(q, t, s, p)
<1>2. \A x \in Set1 : x = <<x[1], x[2]>> /\ x[1] \in 0..n /\ x[2] \in 1..Len(q[x[1]]) /\ Len(q[x[1]]) \in Nat
  <2> TAKE x \in Set1
  <2>1. x = <<x[1], x[2]>> /\ x[1] \in 0..n /\ x[2] \in DOMAIN q[x[1]]
    BY <1>1, SettingIs
  <2>2. q[x[1]] \in Seq(E)
    BY <1>1, <2>1
  <2> QED BY <2>1, <2>2
<1>3. Set1 # {}
  BY DEF q
<1> HIDE DEF Set1
<1>4. PICK x \in Set1 : \A y \in Set1 : y[1] <= x[1]
  <2> DEFINE K == {y[1] : y \in Set1}
  <2>1. K \subseteq Nat /\ K # {} /\ \A k \in K : k <= n
    BY <1>1, <1>2, <1>3
  <2>2. PICK k \in K : \A j \in K : j <= k
    <3>1. IsFiniteSet(K)
      BY <1>1, <2>1, FS_BoundedSetOfNaturals
    <3> HIDE DEF K
    <3> QED BY <2>1, <3>1, GreatestExists
  <2> QED BY <2>2
<1>5. PICK z \in Set1 : z[1] = x[1] /\ \A y \in Set1 : y[1] = x[1] => y[2] <= z[2]
  <2> DEFINE I == {y[2] : y \in {w \in Set1 : w[1] = x[1]}}
  <2>1. I \subseteq Nat /\ I # {} /\ \A i \in I : i <= Len(q[x[1]])
    BY <1>2
  <2>2. Len(q[x[1]]) \in Nat
    BY <1>2
  <2>3. PICK i \in I : \A j \in I : j <= i
    <3>1. IsFiniteSet(I)
      BY <2>1, <2>2, FS_BoundedSetOfNaturals
    <3> HIDE DEF I
    <3> QED BY <2>1, <3>1, GreatestExists
  <2> QED BY <2>3
<1>6. ASSUME NEW y \in Set1, z[1] < y[1] \/ (z[1] = y[1] /\ z[2] < y[2]) PROVE FALSE
  <2>1. y[1] \in Nat /\ y[2] \in Nat /\ z[1] \in Nat /\ z[2] \in Nat
    BY <1>2
  <2> QED BY <1>4, <1>5, <1>6, <2>1
<1>7. z \in LastSetting(q, t, s, p)
  BY <1>5, <1>6, LastIs DEF Set1
<1> QED BY <1>7 DEF q

-----------------------------------------------------------------------------
(* The feed's types. *)

WorkEvent == FrameEvent \cup CallEvent

LEMMA EventsAre ==
  /\ \A t \in Token : Rest(t) \in CallEvent
  /\ \A t \in Token, b \in RawBook : BookEvent(t, b) \in FrameEvent /\ Snap(t, b) \in CallEvent
  /\ \A t \in Token, cs \in Changes : ChangeEvent(t, cs) \in FrameEvent
  /\ \A e \in WorkEvent :
       /\ e.token \in Token /\ e.kind \in {"book", "change", "snap", "rest"}
       /\ e.kind \in {"book", "snap"} => e.book \in RawBook
       /\ e.kind = "change" => e.changes \in Changes
  /\ \A e \in FrameEvent : e.kind \in {"book", "change"} /\ e \in WorkEvent
  /\ CallEvent \subseteq WorkEvent
<1>1. /\ \A t \in Token : Rest(t) \in CallEvent
      /\ \A t \in Token, b \in RawBook : BookEvent(t, b) \in FrameEvent /\ Snap(t, b) \in CallEvent
      /\ \A t \in Token, cs \in Changes : ChangeEvent(t, cs) \in FrameEvent
  BY DEF Rest, CallEvent, BookEvent, FrameEvent, Snap, ChangeEvent
<1>2. \A e \in FrameEvent :
        /\ e.token \in Token /\ e.kind \in {"book", "change"}
        /\ e.kind = "book" => e.book \in RawBook
        /\ e.kind = "change" => e.changes \in Changes
  BY DEF FrameEvent
<1>3. \A e \in CallEvent :
        e.token \in Token /\ e.kind \in {"snap", "rest"} /\ (e.kind = "snap" => e.book \in RawBook)
  BY DEF CallEvent
<1> QED BY <1>1, <1>2, <1>3 DEF WorkEvent

LEMMA VenueTyped ==
  ASSUME NEW v \in VenueBooks
  PROVE  v \in [Token -> RawBook]
BY DEF VenueBooks

\* A function of finitely many tokens has finitely many values.
LEMMA ImageFinite ==
  ASSUME NEW T \in SUBSET Token, NEW f,
         NEW S, \A e \in S : \E t \in T : e = f[t], \A t \in T : f[t] \in S
  PROVE  IsFiniteSet(S)
<1> DEFINE g == [t \in T |-> f[t]]
<1>1. IsFiniteSet(T)
  BY FeedAssumption, FS_Subset
<1>2. g \in Surjection(T, S)
  BY DEF Surjection
<1> QED BY <1>1, <1>2, FS_Surjection

\* The three lists the feed makes: changes, books, and REST calls.
LEMMA ListsAre ==
  /\ \A v \in VenueBooks, w \in VenueBooks :
       LET changed == {t \in Token : w[t] # v[t]}
           q == SetToSeq({ChangeEvent(t, Diff(v[t], w[t])) : t \in changed})
       IN  /\ q \in Seq(FrameEvent)
           /\ \A i \in DOMAIN q : \E t \in changed : q[i] = ChangeEvent(t, Diff(v[t], w[t]))
           /\ \A t \in changed : \E i \in DOMAIN q : q[i] = ChangeEvent(t, Diff(v[t], w[t]))
  /\ \A v \in VenueBooks :
       LET q == SetToSeq({BookEvent(t, v[t]) : t \in Token})
       IN  /\ q \in Seq(FrameEvent)
           /\ \A i \in DOMAIN q : \E t \in Token : q[i] = BookEvent(t, v[t])
           /\ \A t \in Token : \E i \in DOMAIN q : q[i] = BookEvent(t, v[t])
  /\ LET q == SetToSeq({Rest(t) : t \in Token})
     IN  /\ q \in Seq(CallEvent)
         /\ \A i \in DOMAIN q : \E t \in Token : q[i] = Rest(t)
         /\ \A i, j \in DOMAIN q : q[i] = q[j] => i = j
  /\ \A T \in SUBSET Token : \A q \in SetToSeqs({Rest(t) : t \in T}) :
       /\ q \in Seq(CallEvent)
       /\ \A i \in DOMAIN q : \E t \in T : q[i] = Rest(t)
       /\ \A i, j \in DOMAIN q : q[i] = q[j] => i = j
<1>1. ASSUME NEW v \in VenueBooks, NEW w \in VenueBooks
      PROVE  LET changed == {t \in Token : w[t] # v[t]}
                 q == SetToSeq({ChangeEvent(t, Diff(v[t], w[t])) : t \in changed})
             IN  /\ q \in Seq(FrameEvent)
                 /\ \A i \in DOMAIN q : \E t \in changed : q[i] = ChangeEvent(t, Diff(v[t], w[t]))
                 /\ \A t \in changed : \E i \in DOMAIN q : q[i] = ChangeEvent(t, Diff(v[t], w[t]))
  <2> DEFINE changed == {t \in Token : w[t] # v[t]}
             f == [t \in changed |-> ChangeEvent(t, Diff(v[t], w[t]))]
             S == {f[t] : t \in changed}
             q == SetToSeq(S)
  <2>1. S = {ChangeEvent(t, Diff(v[t], w[t])) : t \in changed}
    OBVIOUS
  <2>2. \A t \in changed : f[t] \in FrameEvent
    BY VenueTyped, DiffIs, EventsAre
  <2>3. /\ q \in Seq(S)
        /\ \A t \in changed : \E i \in DOMAIN q : q[i] = f[t]
    <3>1. /\ changed \in SUBSET Token /\ \A e \in S : \E t \in changed : e = f[t]
          /\ \A t \in changed : f[t] \in S
      OBVIOUS
    <3> HIDE DEF f, S, changed
    <3>2. IsFiniteSet(S)
      BY <3>1, ImageFinite
    <3> QED BY <3>1, <3>2, ListedIs
  <2>4. S \subseteq FrameEvent
    BY <2>2
  <2> HIDE DEF q
  <2>5. q \in Seq(FrameEvent) /\ \A i \in DOMAIN q : q[i] \in S
    <3> HIDE DEF S
    <3> QED BY <2>3, <2>4
  <2>6. /\ \A i \in DOMAIN q : \E t \in changed : q[i] = f[t]
        /\ \A t \in changed : f[t] = ChangeEvent(t, Diff(v[t], w[t]))
    BY <2>5
  <2>7. q = SetToSeq({ChangeEvent(t, Diff(v[t], w[t])) : t \in changed})
    BY <2>1 DEF q
  <2>8. /\ q \in Seq(FrameEvent)
        /\ \A i \in DOMAIN q : \E t \in changed : q[i] = ChangeEvent(t, Diff(v[t], w[t]))
        /\ \A t \in changed : \E i \in DOMAIN q : q[i] = ChangeEvent(t, Diff(v[t], w[t]))
    <3> HIDE DEF f, S, changed
    <3> QED BY <2>3, <2>5, <2>6
  <2> HIDE DEF f, S
  <2> QED BY <2>7, <2>8, Zenon
<1>2. ASSUME NEW v \in VenueBooks
      PROVE  LET q == SetToSeq({BookEvent(t, v[t]) : t \in Token})
             IN  /\ q \in Seq(FrameEvent)
                 /\ \A i \in DOMAIN q : \E t \in Token : q[i] = BookEvent(t, v[t])
                 /\ \A t \in Token : \E i \in DOMAIN q : q[i] = BookEvent(t, v[t])
  <2> DEFINE f == [t \in Token |-> BookEvent(t, v[t])]
             S == {f[t] : t \in Token}
             q == SetToSeq(S)
  <2>1. S = {BookEvent(t, v[t]) : t \in Token}
    OBVIOUS
  <2>2. \A t \in Token : f[t] \in FrameEvent
    BY VenueTyped, EventsAre
  <2>3. /\ q \in Seq(S)
        /\ \A t \in Token : \E i \in DOMAIN q : q[i] = f[t]
    <3>1. /\ Token \in SUBSET Token /\ \A e \in S : \E t \in Token : e = f[t]
          /\ \A t \in Token : f[t] \in S
      OBVIOUS
    <3> HIDE DEF f, S
    <3>2. IsFiniteSet(S)
      BY <3>1, ImageFinite
    <3> QED BY <3>1, <3>2, ListedIs
  <2>4. S \subseteq FrameEvent
    BY <2>2
  <2> HIDE DEF q
  <2>5. q \in Seq(FrameEvent) /\ \A i \in DOMAIN q : q[i] \in S
    <3> HIDE DEF S
    <3> QED BY <2>3, <2>4
  <2>6. /\ \A i \in DOMAIN q : \E t \in Token : q[i] = f[t]
        /\ \A t \in Token : f[t] = BookEvent(t, v[t])
    BY <2>5
  <2>7. q = SetToSeq({BookEvent(t, v[t]) : t \in Token})
    BY <2>1 DEF q
  <2>8. /\ q \in Seq(FrameEvent)
        /\ \A i \in DOMAIN q : \E t \in Token : q[i] = BookEvent(t, v[t])
        /\ \A t \in Token : \E i \in DOMAIN q : q[i] = BookEvent(t, v[t])
    <3> HIDE DEF f, S
    <3> QED BY <2>3, <2>5, <2>6
  <2> HIDE DEF f, S
  <2> QED BY <2>7, <2>8, Zenon
<1>3. LET q == SetToSeq({Rest(t) : t \in Token})
      IN  /\ q \in Seq(CallEvent)
          /\ \A i \in DOMAIN q : \E t \in Token : q[i] = Rest(t)
          /\ \A i, j \in DOMAIN q : q[i] = q[j] => i = j
  <2> DEFINE f == [t \in Token |-> Rest(t)]
             S == {f[t] : t \in Token}
             q == SetToSeq(S)
  <2>1. S = {Rest(t) : t \in Token}
    OBVIOUS
  <2>2. S \subseteq CallEvent
    BY EventsAre
  <2>3. q \in Seq(S) /\ \A i, j \in DOMAIN q : q[i] = q[j] => i = j
    <3>1. /\ Token \in SUBSET Token /\ \A e \in S : \E t \in Token : e = f[t]
          /\ \A t \in Token : f[t] \in S
      OBVIOUS
    <3> HIDE DEF f, S
    <3>2. IsFiniteSet(S)
      BY <3>1, ImageFinite
    <3> QED BY <3>1, <3>2, ListedIs
  <2> HIDE DEF q
  <2>4. q \in Seq(CallEvent) /\ \A i \in DOMAIN q : q[i] \in S
    <3> HIDE DEF S
    <3> QED BY <2>2, <2>3
  <2> QED BY <2>1, <2>3, <2>4 DEF q
<1>4. ASSUME NEW T \in SUBSET Token, NEW q \in SetToSeqs({Rest(t) : t \in T})
      PROVE  /\ q \in Seq(CallEvent)
             /\ \A i \in DOMAIN q : \E t \in T : q[i] = Rest(t)
             /\ \A i, j \in DOMAIN q : q[i] = q[j] => i = j
  <2> DEFINE S == {Rest(t) : t \in T}
             n == Cardinality(S)
  <2>1. n \in Nat
    <3>1. IsFiniteSet(T)
      BY FeedAssumption, FS_Subset
    <3> DEFINE f == [t \in T |-> Rest(t)]
    <3>2. f \in Surjection(T, S)
      BY DEF Surjection
    <3>3. IsFiniteSet(S)
      BY <3>1, <3>2, FS_Surjection
    <3> QED BY <3>3, FS_CardinalityType
  <2>2. q \in [1..n -> S] /\ \A i, j \in 1..n : i # j => q[i] # q[j]
    BY DEF SetToSeqs
  <2>3. S \subseteq CallEvent
    BY EventsAre
  <2> HIDE DEF n
  <2> QED BY <2>1, <2>2, <2>3
<1> QED BY <1>1, <1>2, <1>3, <1>4

\* What the running arm has in hand.
LEMMA InHand ==
  ASSUME NEW wk \in Seq(WorkEvent), wk # <<>>
  PROVE  /\ Head(wk) \in WorkEvent /\ Tail(wk) \in Seq(WorkEvent) /\ 1 \in DOMAIN wk /\ Head(wk) = wk[1]
         /\ DOMAIN Tail(wk) = 1..(Len(wk) - 1) /\ \A i \in 1..(Len(wk) - 1) : Tail(wk)[i] = wk[i + 1]
         /\ \A e \in WorkEvent :
              /\ <<e>> \o Tail(wk) \in Seq(WorkEvent) /\ DOMAIN (<<e>> \o Tail(wk)) = DOMAIN wk
              /\ (<<e>> \o Tail(wk))[1] = e
              /\ \A i \in DOMAIN wk \ {1} : (<<e>> \o Tail(wk))[i] = wk[i]
<1>1. /\ Head(wk) \in WorkEvent /\ Tail(wk) \in Seq(WorkEvent) /\ 1 \in DOMAIN wk /\ Head(wk) = wk[1]
      /\ DOMAIN Tail(wk) = 1..(Len(wk) - 1) /\ \A i \in 1..(Len(wk) - 1) : Tail(wk)[i] = wk[i + 1]
      /\ Len(wk) \in Nat \ {0} /\ DOMAIN wk = 1..Len(wk) /\ Len(Tail(wk)) = Len(wk) - 1
  OBVIOUS
<1>2. ASSUME NEW e \in WorkEvent
      PROVE  /\ <<e>> \o Tail(wk) \in Seq(WorkEvent) /\ DOMAIN (<<e>> \o Tail(wk)) = DOMAIN wk
             /\ (<<e>> \o Tail(wk))[1] = e
             /\ \A i \in DOMAIN wk \ {1} : (<<e>> \o Tail(wk))[i] = wk[i]
  <2> DEFINE w == <<e>> \o Tail(wk)
             len == Len(wk)
  <2>1. <<e>> \in Seq(WorkEvent) /\ Len(<<e>>) = 1
    OBVIOUS
  <2>2. w \in Seq(WorkEvent) /\ Len(w) = 1 + (len - 1)
    BY <1>1, <2>1
  <2>3. DOMAIN w = 1..len
    BY <1>1, <2>2
  <2>4. w[1] = e
    BY <1>1
  <2>5. ASSUME NEW i \in 2..len PROVE w[i] = wk[i]
    <3>1. i - 1 \in 1..(len - 1) /\ (i - 1) + 1 = i
      BY <1>1
    <3>2. w[i] = Tail(wk)[i - 1]
      BY <1>1
    <3> QED BY <1>1, <3>1, <3>2
  <2> QED BY <1>1, <2>2, <2>3, <2>4, <2>5
<1> QED BY <1>1, <1>2

-----------------------------------------------------------------------------
(* The invariant of the feed. *)

\* live books keep their caches; one in use is not crossed, and a session is up
Books ==
  \A t \in Token :
    /\ book[t].live \in LiveBook
    /\ Valid(t) => link = "up" /\ ~Crossed(book[t].live)

\* REST is asked, and answered, for a book that is not in use, and only once
Calls ==
  \A i \in DOMAIN work : work[i].kind \in {"rest", "snap"} =>
    /\ ~Valid(work[i].token)
    /\ \A j \in 1..(i - 1) : work[j].token # work[i].token

\* what the venue does not know of it does not send
Unsubscribed == link = "up" /\ sub # "on" => wire = <<>>

\* a snapshot that comes out crossed, and is not used
Stray(e) == e.kind = "snap" /\ e.book = CrossedBook

\* the last event to set a level sets it to the venue's; with none to come
\* the book b, if it is in use and missed nothing, has the venue's v
Follows(q, b, miss, v, t, s, p) ==
  /\ \A x \in LastSetting(q, t, s, p) :
       Stray(Event(q, x)) \/ (Shows(Event(q, x), s, p) <=> p \in v[s])
  /\ b.valid /\ ~miss /\ Setting(q, t, s, p) = {} => (p \in Occupied(b.side[s]) <=> p \in v[s])

InStep ==
  Listening => \A t \in Token, s \in Side, p \in Price :
                 Follows(Frames, book[t].live, missed[t], venue[t], t, s, p)

FeedInv == TypeOK /\ Books /\ Calls /\ Unsubscribed /\ InStep

-----------------------------------------------------------------------------
(* Types, and books. *)

LEMMA TypedInHand ==
  ASSUME TypeOK, work # <<>>
  PROVE  /\ Head(work) \in WorkEvent /\ Tail(work) \in Seq(WorkEvent) /\ Head(work).token \in Token
         /\ Head(work).kind = "change" => Head(work).changes \in Changes
         /\ Head(work).kind \in {"book", "snap"} => Head(work).book \in RawBook
         /\ \A e \in WorkEvent : <<e>> \o Tail(work) \in Seq(WorkEvent)
<1>1. work \in Seq(WorkEvent)
  BY DEF TypeOK, WorkEvent
<1>2. /\ Head(work) \in WorkEvent /\ Tail(work) \in Seq(WorkEvent)
      /\ \A e \in WorkEvent : <<e>> \o Tail(work) \in Seq(WorkEvent)
  BY <1>1, InHand
<1> QED BY <1>2, EventsAre

\* A snapshot is taken.
LEMMA SnapshotTaken ==
  ASSUME TypeOK, Books, NEW e \in WorkEvent, e.kind \in {"book", "snap"}, TakeSnapshot(e)
  PROVE  /\ book' \in [Token -> BookRecord] /\ missed' \in [Token -> BOOLEAN]
         /\ \A t \in Token \ {e.token} : book'[t] = book[t] /\ missed'[t] = missed[t]
         /\ book'[e.token] = [slot |-> TRUE, live |-> Snapshot(book[e.token].live, e.book)]
         /\ missed'[e.token] = FALSE
         /\ LET new == book'[e.token].live
            IN  /\ new \in LiveBook
                /\ new.valid => /\ ~Crossed(new) /\ e.book # CrossedBook
                                /\ \A s \in Side, p \in Price :
                                     p \in Occupied(new.side[s]) <=> p \in e.book[s]
<1> DEFINE new == Snapshot(book[e.token].live, e.book)
<1>1. e.token \in Token /\ e.book \in RawBook
  BY EventsAre
<1>2. book[e.token].live \in LiveBook
  BY <1>1 DEF Books
<1>3. /\ new \in LiveBook
      /\ new.valid => /\ ~Crossed(new) /\ e.book # CrossedBook
                      /\ \A s \in Side, p \in Price : p \in Occupied(new.side[s]) <=> p \in e.book[s]
  BY <1>1, <1>2, SnapshotIs
<1>4. book' = [book EXCEPT ![e.token] = [slot |-> TRUE, live |-> new]]
  BY <1>1 DEF TakeSnapshot, TypeOK
<1>5. missed' = [missed EXCEPT ![e.token] = FALSE]
  BY DEF TakeSnapshot
<1> HIDE DEF new
<1>6. new \in [side: [Side -> LadderRecord], valid: BOOLEAN, offTick: Nat]
  BY <1>3 DEF LiveBook
<1>7. [slot |-> TRUE, live |-> new] \in BookRecord
  BY <1>6 DEF BookRecord
<1>8. book \in [Token -> BookRecord] /\ missed \in [Token -> BOOLEAN]
  BY DEF TypeOK
<1>9. book'[e.token] = [slot |-> TRUE, live |-> new]
  BY <1>1, <1>4, <1>8
<1>10. book'[e.token].live = new
  BY <1>9
<1>11. /\ book' \in [Token -> BookRecord] /\ missed' \in [Token -> BOOLEAN]
       /\ \A t \in Token \ {e.token} : book'[t] = book[t] /\ missed'[t] = missed[t]
       /\ missed'[e.token] = FALSE
  BY <1>1, <1>4, <1>5, <1>7, <1>8
<1> QED BY <1>3, <1>9, <1>10, <1>11 DEF new

\* The head of `work', a change, is applied or not.
LEMMA ChangeDone ==
  ASSUME TypeOK, Books, ChangeApplied
  PROVE  /\ book' \in [Token -> BookRecord]
         /\ \A t \in Token : ~book'[t].slot => book'[t].live = NewBook
         /\ \A t \in Token \ {Head(work).token} : book'[t] = book[t]
         /\ LET t == Head(work).token
                cs == Head(work).changes
            IN  /\ t \in Token /\ cs \in Changes
                /\ book'[t].live \in LiveBook
                /\ book'[t].live.valid =>
                     /\ Valid(t) /\ ~Crossed(book'[t].live)
                     /\ \A s \in Side, p \in Price :
                          p \in Occupied(book'[t].live.side[s]) <=> Leaves(cs, book[t].live, s, p)
<1> DEFINE t == Head(work).token
           cs == Head(work).changes
           new == Changed(book[t].live, cs)
<1>1. t \in Token /\ cs \in Changes
  BY TypedInHand DEF ChangeApplied, Doing
<1>2. book[t].live \in LiveBook
  BY <1>1 DEF Books
<1>3. /\ new \in LiveBook
      /\ new.valid => ~Crossed(new)
      /\ \A s \in Side, p \in Price : p \in Occupied(new.side[s]) <=> Leaves(cs, book[t].live, s, p)
  BY <1>1, <1>2, ChangedIs
<1>4. book' = IF Valid(t) THEN [book EXCEPT ![t].live = new] ELSE book
  BY <1>1 DEF ChangeApplied, TypeOK
<1>5. book \in [Token -> BookRecord] /\ \A u \in Token : ~book[u].slot => book[u].live = NewBook
  BY DEF TypeOK
<1> HIDE DEF new, t, cs
<1>6. CASE ~Valid(t)
  <2>1. book' = book
    BY <1>4, <1>6
  <2>2. ~book'[t].live.valid
    BY <1>6, <2>1 DEF Valid
  <2> QED BY <1>1, <1>2, <1>5, <2>1, <2>2 DEF t, cs
<1>7. CASE Valid(t)
  <2>1. book' = [book EXCEPT ![t].live = new]
    BY <1>4, <1>7
  <2>2. new \in [side: [Side -> LadderRecord], valid: BOOLEAN, offTick: Nat]
    BY <1>3 DEF LiveBook
  <2>3. book[t].slot
    BY <1>1, <1>5, <1>7, NewBookIs DEF Valid
  <2>4. /\ book' \in [Token -> BookRecord]
        /\ \A u \in Token \ {t} : book'[u] = book[u]
        /\ book'[t].live = new /\ book'[t].slot = book[t].slot
    BY <1>1, <1>5, <2>1, <2>2 DEF BookRecord
  <2>5. \A u \in Token : ~book'[u].slot => book'[u].live = NewBook
    BY <1>5, <2>3, <2>4
  <2> QED BY <1>1, <1>3, <1>7, <2>4, <2>5 DEF t, cs
<1> QED BY <1>6, <1>7

\* The books between sessions.
LEMMA StaleIs ==
  ASSUME TypeOK, Books
  PROVE  /\ AllStale \in [Token -> BookRecord]
         /\ \A t \in Token : /\ AllStale[t].slot = book[t].slot /\ AllStale[t].live \in LiveBook
                             /\ ~AllStale[t].live.valid
                             /\ ~AllStale[t].slot => AllStale[t].live = NewBook
<1> SUFFICES ASSUME NEW t \in Token
             PROVE  /\ AllStale[t] \in BookRecord
                    /\ AllStale[t].slot = book[t].slot /\ AllStale[t].live \in LiveBook
                    /\ ~AllStale[t].live.valid
                    /\ ~AllStale[t].slot => AllStale[t].live = NewBook
  BY DEF AllStale
<1>1. /\ book[t] \in BookRecord /\ book[t].live \in LiveBook
      /\ ~book[t].slot => book[t].live = NewBook
  BY DEF TypeOK, Books
<1>2. AllStale[t] = [book[t] EXCEPT !.live.valid = FALSE]
  BY DEF AllStale
<1>3. AllStale[t].slot = book[t].slot /\ AllStale[t].live = [book[t].live EXCEPT !.valid = FALSE]
  BY <1>1, <1>2 DEF BookRecord
<1>4. AllStale[t].live \in LiveBook /\ ~AllStale[t].live.valid
  BY <1>1, <1>3 DEF LiveBook
<1>5. AllStale[t] \in BookRecord
  BY <1>1, <1>2 DEF BookRecord
<1>6. ~book[t].slot => AllStale[t].live = NewBook
  <2>1. NewBook \in [side: [Side -> LadderRecord], valid: BOOLEAN, offTick: Nat] /\ ~NewBook.valid
    BY NewBookIs DEF LiveBook
  <2>2. [NewBook EXCEPT !.valid = FALSE] = NewBook
    BY <2>1
  <2> QED BY <1>1, <1>3, <2>2
<1> QED BY <1>3, <1>4, <1>5, <1>6

LEMMA TypeStep ==
  ASSUME TypeOK, Books, Next
  PROVE  TypeOK' /\ Books'
<1>0. /\ wire \in Seq(Seq(FrameEvent)) /\ work \in Seq(WorkEvent)
      /\ venue \in VenueBooks /\ faults \in 0..MaxFaults /\ MaxFaults \in Nat
      /\ venue \in [Token -> RawBook]
  BY FeedAssumption, VenueTyped DEF TypeOK, WorkEvent
<1>1. ASSUME NEW next \in VenueBooks, VenueMoves(next) PROVE TypeOK' /\ Books'
  <2>1. wire' \in Seq(Seq(FrameEvent))
    <3> DEFINE f == SetToSeq({ChangeEvent(t, Diff(venue[t], next[t])) : t \in {u \in Token : next[u] # venue[u]}})
    <3>1. f \in Seq(FrameEvent)
      <4>1. ASSUME NEW v \in VenueBooks, NEW w \in VenueBooks
            PROVE  SetToSeq({ChangeEvent(t, Diff(v[t], w[t])) : t \in {u \in Token : w[u] # v[u]}}) \in Seq(FrameEvent)
        BY ListsAre
      <4> QED BY <1>0, <4>1, Zenon
    <3>2. wire' \in {wire, Append(wire, f)}
      BY <1>1 DEF VenueMoves
    <3> HIDE DEF f
    <3>3. Append(wire, f) \in Seq(Seq(FrameEvent))
      BY <1>0, <3>1
    <3> QED BY <1>0, <3>2, <3>3
  <2>2. venue' = next /\ UNCHANGED <<sub, broken, link, work, book, heard, missed, faults>>
    BY <1>1 DEF VenueMoves, sessionVars
  <2> QED BY <2>1, <2>2 DEF TypeOK, Books, Valid
<1>2. ASSUME NEW t \in Token, PushBook(t) PROVE TypeOK' /\ Books'
  <2>1. <<BookEvent(t, venue[t])>> \in Seq(FrameEvent)
    BY <1>0, EventsAre
  <2>2. wire' \in Seq(Seq(FrameEvent))
    BY <1>0, <1>2, <2>1 DEF PushBook
  <2>3. UNCHANGED <<venue, sub, broken, link, work, book, heard, missed, faults>>
    BY <1>2 DEF PushBook, sessionVars
  <2> QED BY <2>2, <2>3 DEF TypeOK, Books, Valid
<1>3. CASE Subscribed
  <2>1. SetToSeq({BookEvent(t, venue[t]) : t \in Token}) \in Seq(FrameEvent)
    BY <1>0, ListsAre
  <2>2. wire' \in Seq(Seq(FrameEvent))
    BY <1>0, <1>3, <2>1 DEF Subscribed
  <2>3. sub' = "on" /\ UNCHANGED <<venue, broken, link, work, book, heard, missed, faults>>
    BY <1>3 DEF Subscribed, sessionVars
  <2> QED BY <2>2, <2>3 DEF TypeOK, Books, Valid
<1>4. CASE Break
  <2>1. /\ broken' = TRUE /\ faults' \in 0..MaxFaults
        /\ UNCHANGED <<venue, sub, wire, link, work, book, heard, missed>>
    BY <1>0, <1>4 DEF Break, Fault, sessionVars
  <2> QED BY <2>1 DEF TypeOK, Books, Valid
<1>5. CASE Connect
  <2>1. work' \in Seq(WorkEvent)
    <3>1. work' \in Seq(CallEvent)
      BY <1>5, ListsAre DEF Connect
    <3> QED BY <3>1, EventsAre
  <2>2. wire' \in Seq(Seq(FrameEvent))
    BY <1>5 DEF Connect
  <2>3. /\ link' = "up" /\ broken' = FALSE /\ heard' = TRUE /\ sub' \in {"sent", "failed"}
        /\ faults' \in 0..MaxFaults /\ UNCHANGED <<venue, book, missed>>
    BY <1>0, <1>5 DEF Connect, Fault
  <2> QED BY <2>1, <2>2, <2>3 DEF TypeOK, Books, Valid, WorkEvent
<1>6. CASE EndSession
  <2>1. /\ link' = "down" /\ book' = AllStale
        /\ UNCHANGED <<venue, sub, wire, broken, work, heard, missed, faults>>
    BY <1>6 DEF EndSession, venueVars
  <2>2. TypeOK'
    BY <2>1, StaleIs DEF TypeOK
  <2>3. Books'
    BY <2>1, StaleIs DEF Books, Valid
  <2> QED BY <2>2, <2>3
<1>7. CASE TakeFrame
  <2>1. work' \in Seq(WorkEvent) /\ wire' \in Seq(Seq(FrameEvent))
    <3>1. Head(wire) \in Seq(FrameEvent) /\ Tail(wire) \in Seq(Seq(FrameEvent))
      BY <1>0, <1>7 DEF TakeFrame
    <3> QED BY <1>7, <3>1, EventsAre DEF TakeFrame
  <2>2. heard' = TRUE /\ UNCHANGED <<venue, sub, broken, link, book, missed, faults>>
    BY <1>7 DEF TakeFrame
  <2> QED BY <2>1, <2>2 DEF TypeOK, Books, Valid, WorkEvent
<1>8. CASE DropFrame
  <2>1. wire' \in Seq(Seq(FrameEvent))
    BY <1>0, <1>8 DEF DropFrame
  <2>2. missed' \in [Token -> BOOLEAN]
    BY <1>8 DEF DropFrame
  <2>3. heard' = TRUE /\ faults' \in 0..MaxFaults /\ UNCHANGED <<venue, sub, broken, link, work, book>>
    BY <1>0, <1>8 DEF DropFrame, Fault
  <2> QED BY <2>1, <2>2, <2>3 DEF TypeOK, Books, Valid
<1>9. CASE Silence
  <2>1. heard' = FALSE /\ UNCHANGED <<venue, sub, wire, broken, link, work, book, missed, faults>>
    BY <1>9 DEF Silence, venueVars
  <2> QED BY <2>1 DEF TypeOK, Books, Valid
<1>10. CASE Sweep
  <2>1. work' \in Seq(WorkEvent)
    <3>1. work' \in Seq(CallEvent)
      BY <1>10, ListsAre DEF Sweep, InvalidTokens
    <3> QED BY <3>1, EventsAre
  <2>2. UNCHANGED <<venue, sub, wire, broken, link, book, heard, missed, faults>>
    BY <1>10 DEF Sweep, venueVars
  <2> QED BY <2>1, <2>2 DEF TypeOK, Books, Valid, WorkEvent
<1>11. CASE RestServed
  <2>1. \A b \in RawBook : <<Snap(Head(work).token, b)>> \o Tail(work) \in Seq(WorkEvent)
    BY <1>11, TypedInHand, EventsAre DEF RestServed, Doing
  <2>2. venue[Head(work).token] \in RawBook /\ CrossedBook \in RawBook
    BY <1>0, <1>11, TypedInHand, FeedAssumption DEF RestServed, Doing
  <2>3. work' \in Seq(WorkEvent) /\ faults' \in 0..MaxFaults
    <3>1. /\ <<Snap(Head(work).token, venue[Head(work).token])>> \o Tail(work) \in Seq(WorkEvent)
          /\ <<Snap(Head(work).token, CrossedBook)>> \o Tail(work) \in Seq(WorkEvent)
      BY <2>1, <2>2
    <3>2. /\ work' \in {<<Snap(Head(work).token, venue[Head(work).token])>> \o Tail(work),
                         <<Snap(Head(work).token, CrossedBook)>> \o Tail(work)}
          /\ faults' = faults \/ (faults < MaxFaults /\ faults' = faults + 1)
      BY <1>11, Zenon DEF RestServed, Fault
    <3>3. work' \in Seq(WorkEvent)
      BY <3>1, <3>2, Zenon
    <3>4. faults' \in 0..MaxFaults
      BY <1>0, <3>2
    <3> QED BY <3>3, <3>4
  <2>4. UNCHANGED <<venue, sub, wire, broken, link, book, heard, missed>>
    BY <1>11 DEF RestServed, venueVars
  <2> QED BY <2>3, <2>4 DEF TypeOK, Books, Valid, WorkEvent
<1>12. CASE RestFails
  <2>1. work' \in Seq(WorkEvent) /\ faults' \in 0..MaxFaults
    BY <1>0, <1>12, TypedInHand DEF RestFails, Fault, Doing
  <2>2. UNCHANGED <<venue, sub, wire, broken, link, book, heard, missed>>
    BY <1>12 DEF RestFails, venueVars
  <2> QED BY <2>1, <2>2 DEF TypeOK, Books, Valid, WorkEvent
<1>13. ASSUME NEW e \in WorkEvent, e.kind \in {"book", "snap"}, TakeSnapshot(e), link = "up",
              work' \in Seq(WorkEvent), UNCHANGED <<venueVars, link, heard, faults>>
       PROVE  TypeOK' /\ Books'
  <2>1. /\ book' \in [Token -> BookRecord] /\ missed' \in [Token -> BOOLEAN]
        /\ \A t \in Token \ {e.token} : book'[t] = book[t] /\ missed'[t] = missed[t]
        /\ book'[e.token] = [slot |-> TRUE, live |-> Snapshot(book[e.token].live, e.book)]
        /\ book'[e.token].live \in LiveBook
        /\ book'[e.token].live.valid => ~Crossed(book'[e.token].live)
    BY <1>13, SnapshotTaken, Zenon
  <2>2. TypeOK'
    <3>1. \A t \in Token : ~book'[t].slot => book'[t].live = NewBook
      <4>1. book'[e.token].slot
        BY <2>1
      <4> QED BY <2>1, <4>1 DEF TypeOK
    <3>2. UNCHANGED <<venue, sub, wire, broken, link, heard, faults>>
      BY <1>13 DEF venueVars
    <3>3. work' \in Seq(FrameEvent \cup CallEvent)
      BY <1>13 DEF WorkEvent
    <3> QED BY <2>1, <3>1, <3>2, <3>3 DEF TypeOK
  <2>3. Books'
    BY <1>13, <2>1 DEF Books, Valid
  <2> QED BY <2>2, <2>3
<1>14. CASE SnapApplied
  <2>1. /\ Head(work) \in WorkEvent /\ Head(work).kind \in {"book", "snap"} /\ link = "up"
        /\ TakeSnapshot(Head(work)) /\ work' \in Seq(WorkEvent)
        /\ UNCHANGED <<venueVars, link, heard, faults>>
    BY <1>14, TypedInHand DEF SnapApplied, Doing
  <2> QED BY <1>13, <2>1
<1>15. CASE BookApplied
  <2>1. /\ Head(work) \in WorkEvent /\ Head(work).kind \in {"book", "snap"} /\ link = "up"
        /\ TakeSnapshot(Head(work)) /\ UNCHANGED <<venueVars, link, heard, faults>>
        /\ work' \in {Tail(work), <<Rest(Head(work).token)>> \o Tail(work)}
    BY <1>15, TypedInHand DEF BookApplied, Doing
  <2>2. work' \in Seq(WorkEvent)
    BY <1>15, <2>1, TypedInHand, EventsAre DEF BookApplied, Doing
  <2> QED BY <1>13, <2>1, <2>2
<1>16. CASE BookUnreadable
  <2> DEFINE t == Head(work).token
  <2>1. t \in Token /\ work' \in Seq(WorkEvent) /\ faults' \in 0..MaxFaults
    BY <1>0, <1>16, TypedInHand DEF BookUnreadable, Doing, Fault
  <2>2. /\ book' = [book EXCEPT ![t].slot = TRUE] /\ missed' = [missed EXCEPT ![t] = TRUE]
        /\ UNCHANGED <<venue, sub, wire, broken, link, heard>>
    BY <1>16 DEF BookUnreadable, venueVars
  <2> HIDE DEF t
  <2>3. /\ book' \in [Token -> BookRecord] /\ missed' \in [Token -> BOOLEAN]
        /\ \A u \in Token : book'[u].live = book[u].live /\ (book'[u].slot \/ book'[u].slot = book[u].slot)
    BY <2>1, <2>2 DEF TypeOK, BookRecord
  <2>4. TypeOK'
    BY <2>1, <2>2, <2>3 DEF TypeOK, WorkEvent
  <2>5. Books'
    BY <2>2, <2>3 DEF Books, Valid
  <2> QED BY <2>4, <2>5
<1>17. CASE ChangeApplied
  <2> DEFINE t == Head(work).token
  <2>1. /\ book' \in [Token -> BookRecord]
        /\ \A u \in Token : ~book'[u].slot => book'[u].live = NewBook
        /\ \A u \in Token \ {t} : book'[u] = book[u]
        /\ t \in Token /\ book'[t].live \in LiveBook
        /\ book'[t].live.valid => ~Crossed(book'[t].live)
    BY <1>17, ChangeDone
  <2>2. work' \in Seq(WorkEvent)
    BY <1>17, <2>1, TypedInHand, EventsAre DEF ChangeApplied, Doing
  <2>3. link = "up" /\ UNCHANGED <<venue, sub, wire, broken, link, heard, missed, faults>>
    BY <1>17 DEF ChangeApplied, Doing, venueVars
  <2> HIDE DEF t
  <2>4. TypeOK'
    BY <2>1, <2>2, <2>3 DEF TypeOK, WorkEvent
  <2>5. Books'
    BY <2>1, <2>3 DEF Books, Valid
  <2> QED BY <2>4, <2>5
<1> QED BY <1>1, <1>2, <1>3, <1>4, <1>5, <1>6, <1>7, <1>8, <1>9, <1>10, <1>11, <1>12, <1>14,
           <1>15, <1>16, <1>17 DEF Next, Venue, Session, SocketEnds, SweepSilent

-----------------------------------------------------------------------------
(* REST calls, and the wire. *)

\* The event in hand gives way to e about the same token, or to what comes next.
LEMMA CallsKept ==
  ASSUME TypeOK, Calls, work # <<>>, NEW e \in WorkEvent, e.token = Head(work).token,
         e.kind \in {"rest", "snap"} => ~book'[e.token].live.valid,
         \A t \in Token \ {e.token} : book'[t] = book[t],
         work' \in {Tail(work), <<e>> \o Tail(work)}
  PROVE  Calls'
<1> DEFINE n == Len(work)
<1>1. /\ work \in Seq(WorkEvent) /\ n \in Nat \ {0} /\ DOMAIN work = 1..n
      /\ \A i \in 1..n : work[i].token \in Token
  <2>1. work \in Seq(WorkEvent)
    BY DEF TypeOK, WorkEvent
  <2> QED BY <2>1, EventsAre
<1>2. \A i \in 2..n : work[i].kind \in {"rest", "snap"} => work[i].token # e.token /\ ~book'[work[i].token].live.valid
  <2> TAKE i \in 2..n
  <2> HAVE work[i].kind \in {"rest", "snap"}
  <2>1. i \in DOMAIN work /\ 1 \in 1..(i - 1) /\ Head(work) = work[1]
    BY <1>1
  <2>2. work[i].token # e.token /\ ~Valid(work[i].token)
    BY <2>1 DEF Calls
  <2>3. work[i].token \in Token \ {e.token}
    BY <1>1, <2>2
  <2>4. book'[work[i].token] = book[work[i].token]
    BY <2>3
  <2> QED BY <2>2, <2>4 DEF Valid
<1>3. CASE work' = Tail(work)
  <2>1. DOMAIN work' = 1..(n - 1) /\ \A i \in 1..(n - 1) : work'[i] = work[i + 1]
    BY <1>1, <1>3, InHand
  <2> HIDE DEF n
  <2>0. n \in Nat \ {0}
    BY <1>1
  <2> SUFFICES ASSUME NEW i \in DOMAIN work', work'[i].kind \in {"rest", "snap"}
               PROVE  /\ ~book'[work'[i].token].live.valid
                      /\ \A j \in 1..(i - 1) : work'[j].token # work'[i].token
    BY DEF Calls, Valid
  <2>2. i + 1 \in 2..n /\ work'[i] = work[i + 1] /\ i + 1 \in DOMAIN work
    <3>1. i \in 1..(n - 1)
      BY <2>1
    <3>2. i + 1 \in 2..n /\ i + 1 \in 1..n
      BY <2>0, <3>1
    <3> QED BY <1>1, <2>1, <3>1, <3>2
  <2>3. \A j \in 1..(i - 1) : j + 1 \in 1..((i + 1) - 1) /\ work'[j] = work[j + 1]
    <3> TAKE j \in 1..(i - 1)
    <3>1. i \in 1..(n - 1)
      BY <2>1
    <3>2. j \in 1..(n - 1) /\ j + 1 \in 1..((i + 1) - 1)
      BY <2>0, <3>1
    <3> QED BY <2>1, <3>2
  <2>4. \A j \in 1..((i + 1) - 1) : work[j].token # work[i + 1].token
    BY <2>2 DEF Calls
  <2> QED BY <1>2, <2>2, <2>3, <2>4
<1>4. CASE work' = <<e>> \o Tail(work)
  <2>1. DOMAIN work' = 1..n /\ work'[1] = e /\ \A i \in 2..n : work'[i] = work[i]
    BY <1>1, <1>4, InHand
  <2> HIDE DEF n
  <2>0. n \in Nat \ {0}
    BY <1>1
  <2> SUFFICES ASSUME NEW i \in DOMAIN work', work'[i].kind \in {"rest", "snap"}
               PROVE  /\ ~book'[work'[i].token].live.valid
                      /\ \A j \in 1..(i - 1) : work'[j].token # work'[i].token
    BY DEF Calls, Valid
  <2>2. CASE i = 1
    BY <2>1, <2>2
  <2>3. CASE i # 1
    <3>1. i \in 2..n /\ work'[i] = work[i] /\ i \in DOMAIN work
      <4>1. i \in 1..n
        BY <2>1
      <4>2. i \in 2..n
        BY <2>0, <2>3, <4>1
      <4> QED BY <1>1, <2>1, <4>1, <4>2
    <3>2. \A j \in 1..(i - 1) : work[j].token # work[i].token
      BY <3>1 DEF Calls
    <3>3. \A j \in 1..(i - 1) : j = 1 \/ work'[j] = work[j]
      <4> TAKE j \in 1..(i - 1)
      <4>1. j = 1 \/ j \in 2..n
        BY <2>0, <3>1
      <4> QED BY <2>1, <4>1
    <3> QED BY <1>2, <2>1, <3>1, <3>2, <3>3
  <2> QED BY <2>2, <2>3
<1> QED BY <1>3, <1>4

\* A list of REST calls, one for a token.
LEMMA CallsListed ==
  ASSUME NEW T \in SUBSET Token, \A t \in T : ~book'[t].live.valid,
         \A i \in DOMAIN work' : \E t \in T : work'[i] = Rest(t),
         \A i, j \in DOMAIN work' : work'[i] = work'[j] => i = j,
         work' \in Seq(WorkEvent)
  PROVE  Calls'
<1> SUFFICES ASSUME NEW i \in DOMAIN work'
             PROVE  /\ ~book'[work'[i].token].live.valid
                    /\ \A j \in 1..(i - 1) : work'[j].token # work'[i].token
  BY DEF Calls, Valid
<1>1. PICK t \in T : work'[i] = Rest(t)
  OBVIOUS
<1>2. work'[i].token = t
  BY <1>1 DEF Rest
<1>3. ASSUME NEW j \in 1..(i - 1) PROVE work'[j].token # work'[i].token
  <2>1. j \in DOMAIN work' /\ j # i
    OBVIOUS
  <2>2. PICK u \in T : work'[j] = Rest(u)
    BY <2>1
  <2>3. u # t
    BY <1>1, <2>1, <2>2
  <2> QED BY <1>2, <2>2, <2>3 DEF Rest
<1> QED BY <1>1, <1>2, <1>3

LEMMA CallsStep ==
  ASSUME TypeOK, Books, Calls, Unsubscribed, Next
  PROVE  Calls' /\ Unsubscribed'
<1>1. CASE \E next \in VenueBooks : VenueMoves(next)
  BY <1>1 DEF VenueMoves, Calls, Unsubscribed, Valid, sessionVars, Listening
<1>2. CASE \E t \in Token : PushBook(t)
  BY <1>2 DEF PushBook, Calls, Unsubscribed, Valid, sessionVars, Listening
<1>3. CASE Subscribed
  BY <1>3 DEF Subscribed, Calls, Unsubscribed, Valid, sessionVars
<1>4. CASE Break
  BY <1>4 DEF Break, Calls, Unsubscribed, Valid, sessionVars
<1>5. CASE Connect
  <2>1. work' = SetToSeq({Rest(t) : t \in Token})
    BY <1>5 DEF Connect
  <2>2. /\ work' \in Seq(CallEvent)
        /\ \A i \in DOMAIN work' : \E t \in Token : work'[i] = Rest(t)
        /\ \A i, j \in DOMAIN work' : work'[i] = work'[j] => i = j
    BY <2>1, ListsAre
  <2>3. work' \in Seq(WorkEvent)
    BY <2>2, EventsAre
  <2>4. \A t \in Token : ~book'[t].live.valid
    BY <1>5 DEF Connect, Books, Valid
  <2>5. Calls'
    BY <2>2, <2>3, <2>4, CallsListed
  <2>6. Unsubscribed'
    BY <1>5 DEF Connect, Unsubscribed
  <2> QED BY <2>5, <2>6
<1>6. CASE EndSession
  <2>1. link' = "down" /\ book' = AllStale /\ work' = work
    BY <1>6 DEF EndSession
  <2>2. \A i \in DOMAIN work : work[i].token \in Token
    <3>1. work \in Seq(WorkEvent)
      BY DEF TypeOK, WorkEvent
    <3> QED BY <3>1, EventsAre
  <2>3. Calls'
    BY <2>1, <2>2, StaleIs DEF Calls, Valid
  <2>4. Unsubscribed'
    BY <2>1 DEF Unsubscribed
  <2> QED BY <2>3, <2>4
<1>7. CASE TakeFrame
  <2>1. Head(wire) \in Seq(FrameEvent) /\ work' = Head(wire) /\ wire # <<>> /\ link' = "up" /\ sub' = sub /\ link = "up"
    BY <1>7 DEF TypeOK, TakeFrame, Waiting
  <2>2. \A i \in DOMAIN work' : work'[i].kind \notin {"rest", "snap"}
    <3>1. \A i \in DOMAIN Head(wire) : Head(wire)[i] \in FrameEvent
      BY <2>1
    <3> QED BY <2>1, <3>1, EventsAre
  <2>3. Calls'
    BY <2>2 DEF Calls
  <2>4. Unsubscribed'
    BY <2>1 DEF Unsubscribed
  <2> QED BY <2>3, <2>4
<1>8. CASE DropFrame
  BY <1>8 DEF DropFrame, Waiting, Calls, Unsubscribed, Valid
<1>9. CASE Silence
  BY <1>9 DEF Silence, Calls, Unsubscribed, Valid, venueVars
<1>10. CASE Sweep
  <2>1. work' \in SetToSeqs({Rest(t) : t \in InvalidTokens}) /\ InvalidTokens \in SUBSET Token
    BY <1>10 DEF Sweep, InvalidTokens
  <2>2. /\ work' \in Seq(CallEvent)
        /\ \A i \in DOMAIN work' : \E t \in InvalidTokens : work'[i] = Rest(t)
        /\ \A i, j \in DOMAIN work' : work'[i] = work'[j] => i = j
    BY <2>1, ListsAre
  <2>3. work' \in Seq(WorkEvent)
    BY <2>2, EventsAre
  <2>4. \A t \in InvalidTokens : ~book'[t].live.valid
    BY <1>10 DEF Sweep, InvalidTokens, Valid
  <2>5. Calls'
    BY <2>1, <2>2, <2>3, <2>4, CallsListed
  <2>6. Unsubscribed'
    BY <1>10 DEF Sweep, Unsubscribed, venueVars
  <2> QED BY <2>5, <2>6
<1>11. CASE RestServed
  <2> DEFINE t == Head(work).token
  <2>1. /\ work # <<>> /\ Head(work).kind = "rest" /\ book' = book /\ t \in Token
        /\ UNCHANGED <<link, sub, wire>> /\ 1 \in DOMAIN work /\ Head(work) = work[1]
    <3>1. work \in Seq(WorkEvent) /\ work # <<>>
      BY <1>11 DEF TypeOK, WorkEvent, RestServed, Doing
    <3> QED BY <1>11, <3>1, InHand, EventsAre DEF RestServed, Doing, venueVars
  <2>2. ~book'[t].live.valid
    BY <2>1 DEF Calls, Valid
  <2>3. PICK b \in RawBook : work' = <<Snap(t, b)>> \o Tail(work)
    <3>1. venue[t] \in RawBook /\ CrossedBook \in RawBook
      BY <2>1, FeedAssumption, VenueTyped DEF TypeOK
    <3>2. \/ work' = <<Snap(t, venue[t])>> \o Tail(work)
          \/ work' = <<Snap(t, CrossedBook)>> \o Tail(work)
      BY <1>11, Zenon DEF RestServed
    <3> QED BY <3>1, <3>2, Zenon
  <2>4. Snap(t, b) \in WorkEvent /\ Snap(t, b).token = t
    BY <2>1, EventsAre DEF Snap
  <2>5. Calls'
    BY <2>1, <2>2, <2>3, <2>4, CallsKept
  <2> QED BY <2>1, <2>5 DEF Unsubscribed
<1>12. ASSUME work # <<>>, NEW e \in WorkEvent, e.token = Head(work).token,
              e.kind \in {"rest", "snap"} => ~book'[e.token].live.valid,
              \A t \in Token \ {e.token} : book'[t] = book[t],
              work' \in {Tail(work), <<e>> \o Tail(work)}, UNCHANGED <<link, sub, wire>>
       PROVE  Calls' /\ Unsubscribed'
  <2>1. Calls'
    BY <1>12, CallsKept
  <2> QED BY <1>12, <2>1 DEF Unsubscribed
<1>13. CASE RestFails
  <2>1. /\ work # <<>> /\ Head(work) \in WorkEvent /\ Head(work).kind = "rest" /\ work' = Tail(work)
        /\ book' = book /\ UNCHANGED <<link, sub, wire>>
    BY <1>13, TypedInHand DEF RestFails, Doing, venueVars
  <2>2. ~book'[Head(work).token].live.valid
    <3>1. work \in Seq(WorkEvent)
      BY DEF TypeOK, WorkEvent
    <3>2. 1 \in DOMAIN work /\ Head(work) = work[1]
      BY <2>1, <3>1, InHand
    <3> QED BY <2>1, <3>2 DEF Calls, Valid
  <2> QED BY <1>12, <2>1, <2>2
<1>14. CASE SnapApplied
  <2> DEFINE e == Rest(Head(work).token)
  <2>1. work # <<>> /\ Head(work).token \in Token /\ Head(work) \in WorkEvent /\ Head(work).kind = "snap"
        /\ TakeSnapshot(Head(work)) /\ work' = Tail(work) /\ UNCHANGED <<link, sub, wire>>
    BY <1>14, TypedInHand DEF SnapApplied, Doing, venueVars
  <2>2. \A t \in Token \ {Head(work).token} : book'[t] = book[t]
    BY <2>1, SnapshotTaken
  <2>3. PICK f \in WorkEvent : f.token = Head(work).token /\ f.kind = "book"
    <3>1. BookEvent(Head(work).token, Head(work).book) \in WorkEvent
      BY <2>1, EventsAre
    <3> QED BY <3>1 DEF BookEvent
  <2> QED BY <1>12, <2>1, <2>2, <2>3
<1>15. CASE BookApplied
  <2> DEFINE t == Head(work).token
  <2>1. /\ work # <<>> /\ t \in Token /\ Head(work) \in WorkEvent /\ Head(work).kind = "book"
        /\ TakeSnapshot(Head(work)) /\ UNCHANGED <<link, sub, wire>>
        /\ work' = IF book'[t].live.valid THEN Tail(work) ELSE <<Rest(t)>> \o Tail(work)
    BY <1>15, TypedInHand DEF BookApplied, Doing, venueVars
  <2>2. \A u \in Token \ {t} : book'[u] = book[u]
    BY <2>1, SnapshotTaken
  <2>3. Rest(t) \in WorkEvent /\ Rest(t).token = t
    BY <2>1, EventsAre DEF Rest
  <2>4. CASE ~book'[t].live.valid
    <3>1. ~book'[t].live.valid
      BY <2>4 DEF Valid
    <3> QED BY <1>12, <2>1, <2>2, <2>3, <2>4, <3>1
  <2>5. CASE book'[t].live.valid
    <3>1. work' = Tail(work)
      BY <2>1, <2>5
    <3> QED BY <1>12, <2>1, <2>2, <3>1
  <2> QED BY <2>4, <2>5
<1>16. CASE BookUnreadable
  <2> DEFINE t == Head(work).token
  <2>1. /\ work # <<>> /\ t \in Token /\ Head(work) \in WorkEvent /\ Head(work).kind = "book"
        /\ book' = [book EXCEPT ![t].slot = TRUE] /\ UNCHANGED <<link, sub, wire>> /\ work' = Tail(work)
    BY <1>16, TypedInHand DEF BookUnreadable, Doing, venueVars
  <2>2. \A u \in Token \ {t} : book'[u] = book[u]
    BY <2>1 DEF TypeOK
  <2> QED BY <1>12, <2>1, <2>2
<1>17. CASE ChangeApplied
  <2> DEFINE t == Head(work).token
  <2>1. /\ work # <<>> /\ t \in Token /\ Head(work) \in WorkEvent /\ Head(work).kind = "change"
        /\ UNCHANGED <<link, sub, wire>>
        /\ work' = IF book'[t].live.valid THEN Tail(work) ELSE <<Rest(t)>> \o Tail(work)
    BY <1>17, TypedInHand DEF ChangeApplied, Doing, venueVars
  <2>2. \A u \in Token \ {t} : book'[u] = book[u]
    BY <1>17, ChangeDone
  <2>3. Rest(t) \in WorkEvent /\ Rest(t).token = t
    BY <2>1, EventsAre DEF Rest
  <2>4. CASE ~book'[t].live.valid
    <3>1. ~book'[t].live.valid
      BY <2>4 DEF Valid
    <3> QED BY <1>12, <2>1, <2>2, <2>3, <2>4, <3>1
  <2>5. CASE book'[t].live.valid
    <3>1. work' = Tail(work)
      BY <2>1, <2>5
    <3> QED BY <1>12, <2>1, <2>2, <3>1
  <2> QED BY <2>4, <2>5
<1> QED BY <1>1, <1>2, <1>3, <1>4, <1>5, <1>6, <1>7, <1>8, <1>9, <1>10, <1>11, <1>13, <1>14,
           <1>15, <1>16, <1>17 DEF Next, Venue, Session, SocketEnds, SweepSilent

-----------------------------------------------------------------------------
(* Every level is in step with the venue's. *)

LEMMA QueueTyped ==
  ASSUME TypeOK
  PROVE  /\ Frames = Queue(work, wire) /\ work \in Seq(WorkEvent) /\ wire \in Seq(Seq(FrameEvent))
         /\ wire \in Seq(Seq(WorkEvent)) /\ Seq(FrameEvent) \subseteq Seq(WorkEvent)
<1>1. Frames = Queue(work, wire)
  BY DEF Frames, Queue
<1>2. work \in Seq(WorkEvent) /\ wire \in Seq(Seq(FrameEvent))
  BY DEF TypeOK, WorkEvent
<1>3. Seq(FrameEvent) \subseteq Seq(WorkEvent)
  BY DEF WorkEvent
<1>4. wire \in Seq(Seq(WorkEvent))
  BY <1>2, <1>3
<1> QED BY <1>1, <1>2, <1>3, <1>4

\* A frame comes in that shows the venue's levels, and what it does not show is as it was.
LEMMA FrameComes ==
  ASSUME TypeOK, InStep, NEW f \in Seq(FrameEvent), wire' = Append(wire, f),
         UNCHANGED <<work, book, missed>>,
         \A t \in Token, s \in Side, p \in Price :
           /\ \A i \in DOMAIN f : Sets(f[i], t, s, p) => (Shows(f[i], s, p) <=> p \in venue'[t][s])
           /\ (\A i \in DOMAIN f : ~Sets(f[i], t, s, p)) =>
                Listening /\ (p \in venue'[t][s] <=> p \in venue[t][s])
  PROVE  InStep'
<1> SUFFICES ASSUME NEW t \in Token, NEW s \in Side, NEW p \in Price
             PROVE  Follows(Frames', book'[t].live, missed'[t], venue'[t], t, s, p)
  BY DEF InStep
<1> DEFINE q == Queue(work, wire)
           r == Queue(work, Append(wire, f))
           own == {f[i] : i \in {j \in DOMAIN f : Sets(f[j], t, s, p)}}
<1>1. Frames = q /\ Frames' = r /\ work \in Seq(WorkEvent) /\ wire \in Seq(Seq(WorkEvent)) /\ f \in Seq(WorkEvent)
  <2>1. Frames' = r
    BY DEF Frames, Queue
  <2> QED BY <2>1, QueueTyped
<1>2. /\ own # {} => /\ Setting(r, t, s, p) # {}
                     /\ \A x \in LastSetting(r, t, s, p) : Event(r, x) \in own
      /\ own = {} => /\ Setting(r, t, s, p) = {} => Setting(q, t, s, p) = {}
                     /\ FromLast(q, r, t, s, p, {})
  <2> HIDE DEF q, r
  <2> QED BY <1>1, Appended DEF q, r
<1>3. CASE own # {}
  <2>1. \A e \in own : Shows(e, s, p) <=> p \in venue'[t][s]
    OBVIOUS
  <2> HIDE DEF own, q, r
  <2> QED BY <1>1, <1>2, <1>3, <2>1 DEF Follows
<1>4. CASE own = {}
  <2>1. \A i \in DOMAIN f : ~Sets(f[i], t, s, p)
    BY <1>4
  <2>2. Listening /\ (p \in venue'[t][s] <=> p \in venue[t][s])
    BY <2>1
  <2>3. Follows(q, book[t].live, missed[t], venue[t], t, s, p)
    <3> HIDE DEF q
    <3> QED BY <1>1, <2>2 DEF InStep
  <2> HIDE DEF own, q, r
  <2>4. \A x \in LastSetting(r, t, s, p) : \E y \in LastSetting(q, t, s, p) : Event(q, y) = Event(r, x)
    BY <1>2, <1>4 DEF FromLast
  <2> QED BY <1>1, <1>2, <1>4, <2>2, <2>3, <2>4 DEF Follows
<1> QED BY <1>3, <1>4

\* The first frame leaves the wire; if it is dropped, its tokens missed it.
LEMMA FrameGoes ==
  ASSUME TypeOK, InStep, Listening, work = <<>>, wire # <<>>, work' \in {<<>>, Head(wire)},
         wire' = Tail(wire), UNCHANGED <<book, venue>>,
         \A t \in Token : \/ missed'[t]
                          \/ /\ missed'[t] = missed[t]
                             /\ work' = Head(wire) \/ \A i \in DOMAIN Head(wire) : Head(wire)[i].token # t
  PROVE  InStep'
<1> SUFFICES ASSUME NEW t \in Token, NEW s \in Side, NEW p \in Price
             PROVE  Follows(Frames', book'[t].live, missed'[t], venue'[t], t, s, p)
  BY DEF InStep
<1> DEFINE q == Queue(<<>>, wire)
           r == Queue(work', Tail(wire))
<1>1. Frames = q /\ Frames' = r /\ wire \in Seq(Seq(FrameEvent))
  BY QueueTyped DEF Frames, Queue
<1>2. /\ FromLast(q, r, t, s, p, {})
      /\ /\ Setting(r, t, s, p) = {}
         /\ work' = Head(wire) \/ \A i \in DOMAIN Head(wire) : ~Sets(Head(wire)[i], t, s, p)
         => Setting(q, t, s, p) = {}
  <2> HIDE DEF q, r
  <2> QED BY <1>1, Popped DEF q, r
<1> HIDE DEF q, r
<1>3. Follows(q, book[t].live, missed[t], venue[t], t, s, p)
  BY <1>1 DEF InStep
<1>4. \A x \in LastSetting(r, t, s, p) : \E y \in LastSetting(q, t, s, p) : Event(q, y) = Event(r, x)
  BY <1>2 DEF FromLast
<1>5. missed'[t] \/ (missed'[t] = missed[t] /\ (Setting(r, t, s, p) = {} => Setting(q, t, s, p) = {}))
  BY <1>2 DEF Sets
<1> QED BY <1>1, <1>3, <1>4, <1>5 DEF Follows

\* e sets a level to what the venue has, unless it is a stray
Truthful(e) ==
  \A t \in Token, s \in Side, p \in Price :
    Sets(e, t, s, p) => Stray(e) \/ (Shows(e, s, p) <=> p \in venue[t][s])
\* the levels of book' are the venue's, those the event h in hand set and those nothing sets
Settled(h) ==
  \A t \in Token, s \in Side, p \in Price : book'[t].live.valid /\ ~missed'[t] =>
    /\ Sets(h, t, s, p) /\ (Stray(h) \/ (Shows(h, s, p) <=> p \in venue[t][s]))
         => (p \in Occupied(book'[t].live.side[s]) <=> p \in venue[t][s])
    /\ ~Sets(h, t, s, p) /\ Setting(Frames, t, s, p) = {}
         => (p \in Occupied(book'[t].live.side[s]) <=> p \in venue[t][s])

\* The event in hand gives way to what comes next, or to e; book' has what it set.
LEMMA HeadGoes ==
  ASSUME TypeOK, InStep, work # <<>>, NEW e \in WorkEvent, work' \in {Tail(work), <<e>> \o Tail(work)},
         UNCHANGED <<venueVars, link>>, Listening => Truthful(e) /\ Settled(Head(work))
  PROVE  InStep'
<1> SUFFICES ASSUME Listening, NEW t \in Token, NEW s \in Side, NEW p \in Price
             PROVE  Follows(Frames', book'[t].live, missed'[t], venue'[t], t, s, p)
  BY DEF InStep, Listening, venueVars
<1> DEFINE q == Queue(work, wire)
           r == Queue(work', wire)
           h == Head(work)
<1>0. /\ Sets(e, t, s, p) => Stray(e) \/ (Shows(e, s, p) <=> p \in venue[t][s])
      /\ book'[t].live.valid /\ ~missed'[t] =>
           /\ Sets(h, t, s, p) /\ (Stray(h) \/ (Shows(h, s, p) <=> p \in venue[t][s]))
              => (p \in Occupied(book'[t].live.side[s]) <=> p \in venue[t][s])
           /\ ~Sets(h, t, s, p) /\ Setting(q, t, s, p) = {}
              => (p \in Occupied(book'[t].live.side[s]) <=> p \in venue[t][s])
  <2>1. Frames = q
    BY QueueTyped
  <2>2. Truthful(e) /\ Settled(h)
    OBVIOUS
  <2> HIDE DEF q, h
  <2> QED BY <2>1, <2>2 DEF Truthful, Settled
<1>1. Frames = q /\ Frames' = r /\ wire \in Seq(Seq(WorkEvent)) /\ work \in Seq(WorkEvent)
  <2>1. Frames' = r
    BY DEF Frames, Queue, venueVars
  <2> QED BY <2>1, QueueTyped
<1>2. FromLast(q, r, t, s, p, {x \in {e} : Sets(x, t, s, p)}) /\ OnlyHead(q, r, h, t, s, p)
  <2> HIDE DEF q, r, h
  <2> QED BY <1>1, HeadDone DEF q, r, h
<1>3. Setting(q, t, s, p) = {} => ~Sets(h, t, s, p)
  <2>1. 0 \in DOMAIN q /\ q[0] = work /\ 1 \in DOMAIN work /\ work[1] = h
    BY <1>1, InHand DEF Queue
  <2> HIDE DEF q, h
  <2> QED BY <2>1, SettingIs
<1> HIDE DEF q, r, h
<1>4. Follows(q, book[t].live, missed[t], venue[t], t, s, p)
  BY <1>1 DEF InStep
<1>5. \A x \in LastSetting(r, t, s, p) : Stray(Event(r, x)) \/ (Shows(Event(r, x), s, p) <=> p \in venue[t][s])
  <2>1. \A x \in LastSetting(r, t, s, p) :
          \/ Event(r, x) = e /\ Sets(e, t, s, p)
          \/ \E y \in LastSetting(q, t, s, p) : Event(q, y) = Event(r, x)
    BY <1>2 DEF FromLast
  <2> QED BY <1>0, <1>4, <2>1 DEF Follows
<1>6. book'[t].live.valid /\ ~missed'[t] /\ Setting(r, t, s, p) = {} =>
        (p \in Occupied(book'[t].live.side[s]) <=> p \in venue[t][s])
  <2> HAVE book'[t].live.valid /\ ~missed'[t] /\ Setting(r, t, s, p) = {}
  <2>1. CASE Setting(q, t, s, p) = {}
    BY <1>0, <1>3, <2>1
  <2>2. CASE Setting(q, t, s, p) # {}
    <3>1. Stray(h) \/ (Shows(h, s, p) <=> p \in venue[t][s])
      BY <1>2, <1>4, <2>2 DEF Follows, OnlyHead
    <3> QED BY <1>0, <1>2, <2>2, <3>1 DEF OnlyHead
  <2> QED BY <2>1, <2>2
<1>7. venue' = venue
  BY DEF venueVars
<1> QED BY <1>1, <1>5, <1>6, <1>7 DEF Follows

LEMMA StepKeeps ==
  ASSUME FeedInv, Next
  PROVE  InStep'
<1>0. TypeOK /\ Books /\ Calls /\ Unsubscribed /\ InStep /\ venue \in VenueBooks /\ venue \in [Token -> RawBook]
  BY VenueTyped DEF FeedInv, TypeOK
<1>1. ASSUME NEW next \in VenueBooks, VenueMoves(next) PROVE InStep'
  <2> DEFINE changed == {t \in Token : next[t] # venue[t]}
             f == SetToSeq({ChangeEvent(t, Diff(venue[t], next[t])) : t \in changed})
  <2>1. /\ venue' = next /\ UNCHANGED <<sub, broken, link, work, book, missed>>
        /\ wire' = IF Listening THEN Append(wire, f) ELSE wire
    BY <1>1 DEF VenueMoves, sessionVars
  <2>2. /\ f \in Seq(FrameEvent)
        /\ \A i \in DOMAIN f : \E t \in changed : f[i] = ChangeEvent(t, Diff(venue[t], next[t]))
        /\ \A t \in changed : \E i \in DOMAIN f : f[i] = ChangeEvent(t, Diff(venue[t], next[t]))
    <3> HIDE DEF f
    <3>1. \A v \in VenueBooks, w \in VenueBooks :
            LET m == {t \in Token : w[t] # v[t]}
                q == SetToSeq({ChangeEvent(t, Diff(v[t], w[t])) : t \in m})
            IN  /\ q \in Seq(FrameEvent)
                /\ \A i \in DOMAIN q : \E t \in m : q[i] = ChangeEvent(t, Diff(v[t], w[t]))
                /\ \A t \in m : \E i \in DOMAIN q : q[i] = ChangeEvent(t, Diff(v[t], w[t]))
      BY ListsAre, Zenon
    <3>2. LET q == SetToSeq({ChangeEvent(t, Diff(venue[t], next[t])) : t \in changed})
          IN  /\ q \in Seq(FrameEvent)
              /\ \A i \in DOMAIN q : \E t \in changed : q[i] = ChangeEvent(t, Diff(venue[t], next[t]))
              /\ \A t \in changed : \E i \in DOMAIN q : q[i] = ChangeEvent(t, Diff(venue[t], next[t]))
      BY <1>0, <3>1, Zenon
    <3> QED BY <3>2, Zenon DEF f
  <2>3. next \in [Token -> RawBook]
    BY VenueTyped
  <2> HIDE DEF f
  <2>4. CASE ~Listening
    BY <2>1, <2>4 DEF InStep, Listening
  <2>5. CASE Listening
    <3>1. ASSUME NEW t \in Token, NEW s \in Side, NEW p \in Price
          PROVE  /\ \A i \in DOMAIN f : Sets(f[i], t, s, p) => (Shows(f[i], s, p) <=> p \in next[t][s])
                 /\ (\A i \in DOMAIN f : ~Sets(f[i], t, s, p)) => (p \in next[t][s] <=> p \in venue[t][s])
      <4> DEFINE d == Diff(venue[t], next[t])
                 e == ChangeEvent(t, d)
      <4>1. /\ (\E c \in d : c.side = s /\ c.px = p) <=> ~(p \in next[t][s] <=> p \in venue[t][s])
            /\ [side |-> s, px |-> p, qty |-> 1] \in d <=> p \in next[t][s] /\ p \notin venue[t][s]
        <5>1. p \in RawPrice
          BY DEF RawPrice
        <5> QED BY <1>0, <2>3, <5>1, DiffIs
      <4>2. /\ e.token = t /\ e.kind = "change" /\ e.changes = d
        BY DEF ChangeEvent
      <4>3. \A i \in DOMAIN f : f[i].token = t => f[i] = e
        <5> TAKE i \in DOMAIN f
        <5>1. PICK u \in changed : f[i] = ChangeEvent(u, Diff(venue[u], next[u]))
          BY <2>2
        <5> QED BY <5>1 DEF ChangeEvent
      <4>4. (Sets(e, t, s, p) <=> ~(p \in next[t][s] <=> p \in venue[t][s]))
            /\ (Shows(e, s, p) <=> p \in next[t][s] /\ p \notin venue[t][s])
        BY <4>1, <4>2 DEF Sets, Shows
      <4> HIDE DEF e, d
      <4>5. \A i \in DOMAIN f : Sets(f[i], t, s, p) => f[i] = e
        BY <4>3 DEF Sets
      <4>6. ~(p \in next[t][s] <=> p \in venue[t][s]) => \E i \in DOMAIN f : f[i] = e
        BY <2>2 DEF e, d
      <4> QED BY <4>4, <4>5, <4>6
    <3>2. wire' = Append(wire, f)
      BY <2>1, <2>5
    <3> QED BY <1>0, <2>1, <2>2, <2>5, <3>1, <3>2, FrameComes
  <2> QED BY <2>4, <2>5
<1>2. ASSUME NEW u \in Token, PushBook(u) PROVE InStep'
  <2> DEFINE e == BookEvent(u, venue[u])
             f == <<e>>
  <2>1. Listening /\ wire' = Append(wire, f) /\ UNCHANGED <<work, book, missed>> /\ venue' = venue
    BY <1>2 DEF PushBook, sessionVars
  <2>2. e \in FrameEvent /\ e.token = u /\ e.kind = "book" /\ e.book = venue[u]
    BY <1>0, EventsAre DEF BookEvent
  <2> HIDE DEF e
  <2>3. f \in Seq(FrameEvent) /\ DOMAIN f = {1} /\ f[1] = e
    BY <2>2
  <2>4. ASSUME NEW t \in Token, NEW s \in Side, NEW p \in Price
        PROVE  \A i \in DOMAIN f : Sets(f[i], t, s, p) => (Shows(f[i], s, p) <=> p \in venue[t][s])
    BY <2>2, <2>3 DEF Sets, Shows
  <2> HIDE DEF f
  <2> QED BY <1>0, <2>1, <2>3, <2>4, FrameComes
<1>3. CASE Subscribed
  <2> DEFINE f == SetToSeq({BookEvent(t, venue[t]) : t \in Token})
  <2>1. wire' = Append(wire, f) /\ UNCHANGED <<work, book, missed>> /\ venue' = venue
    BY <1>3 DEF Subscribed, sessionVars
  <2>2. /\ f \in Seq(FrameEvent)
        /\ \A i \in DOMAIN f : \E t \in Token : f[i] = BookEvent(t, venue[t])
        /\ \A t \in Token : \E i \in DOMAIN f : f[i] = BookEvent(t, venue[t])
    BY <1>0, ListsAre
  <2> HIDE DEF f
  <2>3. ASSUME NEW t \in Token, NEW s \in Side, NEW p \in Price
        PROVE  /\ \A i \in DOMAIN f : Sets(f[i], t, s, p) => (Shows(f[i], s, p) <=> p \in venue[t][s])
               /\ \E i \in DOMAIN f : Sets(f[i], t, s, p)
    <3>1. \A u \in Token : LET e == BookEvent(u, venue[u])
                           IN  e.token = u /\ e.kind = "book" /\ e.book = venue[u]
      BY DEF BookEvent
    <3>2. \A i \in DOMAIN f : Sets(f[i], t, s, p) => (Shows(f[i], s, p) <=> p \in venue[t][s])
      <4> TAKE i \in DOMAIN f
      <4>1. PICK u \in Token : f[i] = BookEvent(u, venue[u])
        BY <2>2
      <4> QED BY <3>1, <4>1 DEF Sets, Shows
    <3>3. \E i \in DOMAIN f : Sets(f[i], t, s, p)
      <4>1. PICK i \in DOMAIN f : f[i] = BookEvent(t, venue[t])
        BY <2>2
      <4> QED BY <3>1, <4>1 DEF Sets
    <3> QED BY <3>2, <3>3
  <2> QED BY <1>0, <2>1, <2>2, <2>3, FrameComes
<1>4. CASE Break \/ Connect \/ EndSession
  BY <1>4 DEF Break, Connect, EndSession, InStep, Listening
<1>5. CASE Silence
  BY <1>0, <1>5 DEF Silence, InStep, Listening, venueVars, Frames
<1>6. CASE TakeFrame \/ DropFrame
  <2>1. work = <<>> /\ link = "up" /\ wire # <<>> /\ work' \in {<<>>, Head(wire)} /\ wire' = Tail(wire)
        /\ UNCHANGED <<book, venue, link, sub, broken>>
    BY <1>6 DEF TakeFrame, DropFrame, Waiting
  <2>2. \A t \in Token : \/ missed'[t]
                         \/ /\ missed'[t] = missed[t]
                            /\ work' = Head(wire) \/ \A i \in DOMAIN Head(wire) : Head(wire)[i].token # t
    <3>1. CASE TakeFrame
      BY <3>1 DEF TakeFrame
    <3>2. CASE DropFrame
      <4> TAKE t \in Token
      <4>1. missed[t] \in BOOLEAN
        BY <1>0 DEF TypeOK
      <4>2. missed'[t] = (missed[t] \/ \E i \in DOMAIN Head(wire) : Head(wire)[i].token = t)
        BY <3>2 DEF DropFrame
      <4>3. CASE \E i \in DOMAIN Head(wire) : Head(wire)[i].token = t
        BY <4>2, <4>3
      <4>4. CASE \A i \in DOMAIN Head(wire) : Head(wire)[i].token # t
        BY <4>1, <4>2, <4>4
      <4> QED BY <4>3, <4>4
    <3> QED BY <1>6, <3>1, <3>2
  <2>3. CASE Listening
    BY <1>0, <2>1, <2>2, <2>3, FrameGoes
  <2>4. CASE ~Listening
    BY <2>1, <2>4 DEF InStep, Listening
  <2> QED BY <2>3, <2>4
<1>7. CASE Sweep
  <2>1. /\ wire = <<>> /\ work = <<>> /\ UNCHANGED <<venue, sub, wire, broken, link, book, missed>>
        /\ work' \in SetToSeqs({Rest(t) : t \in InvalidTokens}) /\ InvalidTokens \in SUBSET Token
    BY <1>7 DEF Sweep, Waiting, venueVars, InvalidTokens
  <2>2. \A i \in DOMAIN work' : \E t \in InvalidTokens : work'[i] = Rest(t)
    BY <2>1, ListsAre
  <2> SUFFICES ASSUME Listening, NEW t \in Token, NEW s \in Side, NEW p \in Price
               PROVE  Follows(Frames', book'[t].live, missed'[t], venue'[t], t, s, p)
    BY <2>1 DEF InStep, Listening
  <2>3. Setting(Frames', t, s, p) = {}
    <3>1. DOMAIN Frames' = {0} /\ Frames'[0] = work'
      BY <2>1 DEF Frames
    <3>2. \A i \in DOMAIN work' : ~Sets(work'[i], t, s, p)
      BY <2>2 DEF Sets, Rest
    <3> QED BY <3>1, <3>2, SettingIs
  <2>4. Setting(Frames, t, s, p) = {}
    <3>1. DOMAIN Frames = {0} /\ Frames[0] = <<>>
      BY <2>1 DEF Frames
    <3> QED BY <3>1, SettingIs
  <2>5. Follows(Frames, book[t].live, missed[t], venue[t], t, s, p)
    BY <1>0 DEF InStep
  <2> QED BY <2>1, <2>3, <2>4, <2>5 DEF Follows, LastSetting
<1>8. CASE RestServed
  <2> DEFINE u == Head(work).token
  <2>1. /\ work # <<>> /\ u \in Token /\ Head(work).kind = "rest"
        /\ UNCHANGED <<venueVars, link, book, missed>>
    BY <1>0, <1>8, TypedInHand DEF RestServed, Doing
  <2>2. PICK b \in RawBook : /\ work' = <<Snap(u, b)>> \o Tail(work)
                             /\ b = venue[u] \/ b = CrossedBook
    <3>1. venue[u] \in RawBook /\ CrossedBook \in RawBook
      BY <1>0, <2>1, FeedAssumption
    <3>2. \/ work' = <<Snap(u, venue[u])>> \o Tail(work)
          \/ work' = <<Snap(u, CrossedBook)>> \o Tail(work)
      BY <1>8, Zenon DEF RestServed
    <3> QED BY <3>1, <3>2, Zenon
  <2> DEFINE e == Snap(u, b)
  <2>3. e \in WorkEvent /\ e.token = u /\ e.kind = "snap" /\ e.book = b
    BY <2>1, EventsAre DEF Snap
  <2>4. work' = <<e>> \o Tail(work)
    BY <2>2
  <2> HIDE DEF e, u
  <2>5. \A t \in Token, s \in Side, p \in Price :
          Sets(e, t, s, p) => Stray(e) \/ (Shows(e, s, p) <=> p \in venue[t][s])
    BY <2>2, <2>3 DEF Sets, Shows, Stray
  <2>6. \A t, s, p : ~Sets(Head(work), t, s, p)
    BY <2>1 DEF Sets
  <2>7. Listening => \A t \in Token, s \in Side, p \in Price :
          book'[t].live.valid /\ ~missed'[t] /\ Setting(Frames, t, s, p) = {} =>
            (p \in Occupied(book'[t].live.side[s]) <=> p \in venue[t][s])
    BY <1>0, <2>1 DEF InStep, Follows
  <2>8. Listening => Truthful(e) /\ Settled(Head(work))
    BY <2>5, <2>6, <2>7 DEF Truthful, Settled
  <2> QED BY <1>0, <2>1, <2>3, <2>4, <2>8, HeadGoes
<1>9. CASE RestFails
  <2>1. /\ work # <<>> /\ Head(work).kind = "rest" /\ Head(work) \in WorkEvent /\ work' = Tail(work)
        /\ UNCHANGED <<venueVars, link, book, missed>>
    BY <1>0, <1>9, TypedInHand DEF RestFails, Doing
  <2>2. \A t, s, p : ~Sets(Head(work), t, s, p)
    BY <2>1 DEF Sets
  <2>3. Listening => \A t \in Token, s \in Side, p \in Price :
          book'[t].live.valid /\ ~missed'[t] /\ Setting(Frames, t, s, p) = {} =>
            (p \in Occupied(book'[t].live.side[s]) <=> p \in venue[t][s])
    BY <1>0, <2>1 DEF InStep, Follows
  <2>4. Truthful(Head(work)) /\ (Listening => Settled(Head(work)))
    BY <2>2, <2>3 DEF Truthful, Settled
  <2> QED BY <1>0, <2>1, <2>4, HeadGoes
<1>10. ASSUME work # <<>>, Head(work).kind \in {"book", "snap"}, TakeSnapshot(Head(work)),
              NEW e \in WorkEvent, e.kind = "rest", work' = Tail(work) \/ work' = <<e>> \o Tail(work),
              UNCHANGED <<venueVars, link>>
       PROVE  InStep'
  <2> DEFINE h == Head(work)
             u == h.token
  <2>1. h \in WorkEvent /\ u \in Token /\ h.kind \in {"book", "snap"}
    BY <1>0, <1>10, TypedInHand
  <2>2. /\ \A t \in Token \ {u} : book'[t] = book[t] /\ missed'[t] = missed[t]
        /\ book'[u].live.valid => /\ h.book # CrossedBook
                                  /\ \A s \in Side, p \in Price :
                                       p \in Occupied(book'[u].live.side[s]) <=> p \in h.book[s]
    BY <1>0, <1>10, <2>1, SnapshotTaken
  <2> HIDE DEF u, h
  <2>3. \A t \in Token, s \in Side, p \in Price :
          /\ ~Sets(e, t, s, p)
          /\ Sets(h, t, s, p) <=> t = u
          /\ Shows(h, s, p) <=> p \in h.book[s]
          /\ Stray(h) => h.book = CrossedBook
    BY <1>10, <2>1 DEF Sets, Shows, Stray, u
  <2>4. Listening => \A t \in Token, s \in Side, p \in Price :
          book'[t].live.valid /\ ~missed'[t] =>
            /\ Sets(h, t, s, p) /\ (Stray(h) \/ (Shows(h, s, p) <=> p \in venue[t][s]))
               => (p \in Occupied(book'[t].live.side[s]) <=> p \in venue[t][s])
            /\ ~Sets(h, t, s, p) /\ Setting(Frames, t, s, p) = {}
               => (p \in Occupied(book'[t].live.side[s]) <=> p \in venue[t][s])
    BY <1>0, <2>2, <2>3 DEF InStep, Follows
  <2>5. Truthful(e) /\ (Listening => Settled(h))
    BY <2>3, <2>4 DEF Truthful, Settled
  <2> QED BY <1>0, <1>10, <2>5, HeadGoes DEF h
<1>11. CASE SnapApplied
  <2>1. /\ work # <<>> /\ Head(work).kind \in {"book", "snap"} /\ TakeSnapshot(Head(work))
        /\ work' = Tail(work) /\ UNCHANGED <<venueVars, link>> /\ Head(work).token \in Token
    BY <1>0, <1>11, TypedInHand DEF SnapApplied, Doing
  <2>2. Rest(Head(work).token) \in WorkEvent /\ Rest(Head(work).token).kind = "rest"
    BY <2>1, EventsAre DEF Rest
  <2> QED BY <1>10, <2>1, <2>2
<1>12. CASE BookApplied
  <2>1. /\ work # <<>> /\ Head(work).kind \in {"book", "snap"} /\ TakeSnapshot(Head(work))
        /\ work' = Tail(work) \/ work' = <<Rest(Head(work).token)>> \o Tail(work)
        /\ UNCHANGED <<venueVars, link>> /\ Head(work).token \in Token
    BY <1>0, <1>12, TypedInHand DEF BookApplied, Doing
  <2>2. Rest(Head(work).token) \in WorkEvent /\ Rest(Head(work).token).kind = "rest"
    BY <2>1, EventsAre DEF Rest
  <2> QED BY <1>10, <2>1, <2>2
<1>13. CASE BookUnreadable
  <2> DEFINE u == Head(work).token
  <2>1. /\ work # <<>> /\ u \in Token /\ work' = Tail(work) /\ UNCHANGED <<venueVars, link>>
        /\ book' = [book EXCEPT ![u].slot = TRUE] /\ missed' = [missed EXCEPT ![u] = TRUE]
    BY <1>0, <1>13, TypedInHand DEF BookUnreadable, Doing
  <2>2. Rest(u) \in WorkEvent /\ Rest(u).kind = "rest"
    BY <2>1, EventsAre DEF Rest
  <2>3. missed'[u] /\ \A t \in Token \ {u} : book'[t] = book[t] /\ missed'[t] = missed[t]
    BY <1>0, <2>1 DEF TypeOK
  <2>4. \A t \in Token \ {u} : \A s, p : ~Sets(Head(work), t, s, p)
    BY DEF Sets
  <2>5. \A t, s, p : ~Sets(Rest(u), t, s, p)
    BY <2>2 DEF Sets
  <2> HIDE DEF u
  <2>6. Listening => \A t \in Token, s \in Side, p \in Price :
          book'[t].live.valid /\ ~missed'[t] =>
            /\ ~Sets(Head(work), t, s, p)
            /\ Setting(Frames, t, s, p) = {} => (p \in Occupied(book'[t].live.side[s]) <=> p \in venue[t][s])
    BY <1>0, <2>3, <2>4 DEF InStep, Follows
  <2>7. Truthful(Rest(u)) /\ (Listening => Settled(Head(work)))
    BY <2>5, <2>6 DEF Truthful, Settled
  <2> QED BY <1>0, <2>1, <2>2, <2>7, HeadGoes
<1>14. CASE ChangeApplied
  <2> DEFINE h == Head(work)
             u == h.token
  <2>1. /\ work # <<>> /\ u \in Token /\ h \in WorkEvent /\ h.kind = "change"
        /\ work' = Tail(work) \/ work' = <<Rest(u)>> \o Tail(work)
        /\ UNCHANGED <<venueVars, link, missed>>
    BY <1>0, <1>14, TypedInHand DEF ChangeApplied, Doing
  <2>2. Rest(u) \in WorkEvent /\ Rest(u).kind = "rest"
    BY <2>1, EventsAre DEF Rest
  <2>3. /\ \A t \in Token \ {u} : book'[t] = book[t]
        /\ book'[u].live.valid =>
             /\ Valid(u)
             /\ \A s \in Side, p \in Price :
                  p \in Occupied(book'[u].live.side[s]) <=> Leaves(h.changes, book[u].live, s, p)
    BY <1>0, <1>14, ChangeDone
  <2>4. \A t, s, p : ~Sets(Rest(u), t, s, p)
    BY <2>2 DEF Sets
  <2> HIDE DEF u, h
  <2>5. \A t \in Token, s \in Side, p \in Price :
          /\ Sets(h, t, s, p) <=> t = u /\ \E c \in h.changes : c.side = s /\ c.px = p
          /\ Shows(h, s, p) <=> [side |-> s, px |-> p, qty |-> 1] \in h.changes
          /\ ~Stray(h)
    BY <2>1 DEF Sets, Shows, Stray, u
  <2>6. Listening => Settled(h)
    <3> SUFFICES ASSUME Listening, NEW t \in Token, NEW s \in Side, NEW p \in Price,
                        book'[t].live.valid, ~missed'[t]
                 PROVE  /\ Sets(h, t, s, p) /\ (Stray(h) \/ (Shows(h, s, p) <=> p \in venue[t][s]))
                           => (p \in Occupied(book'[t].live.side[s]) <=> p \in venue[t][s])
                        /\ ~Sets(h, t, s, p) /\ Setting(Frames, t, s, p) = {}
                           => (p \in Occupied(book'[t].live.side[s]) <=> p \in venue[t][s])
      BY DEF Settled
    <3>1. Follows(Frames, book[t].live, missed[t], venue[t], t, s, p) /\ ~missed[t]
      BY <1>0, <2>1 DEF InStep
    <3>2. CASE t # u
      BY <2>3, <2>5, <3>1, <3>2 DEF Follows
    <3>3. CASE t = u
      <4>1. Valid(u) /\ (p \in Occupied(book'[u].live.side[s]) <=> Leaves(h.changes, book[u].live, s, p))
        BY <2>3, <3>3
      <4>2. CASE Sets(h, t, s, p)
        <5>1. Leaves(h.changes, book[u].live, s, p) <=> Shows(h, s, p)
          BY <2>5, <3>3, <4>2 DEF Leaves
        <5> QED BY <2>5, <3>3, <4>1, <4>2, <5>1
      <4>3. CASE ~Sets(h, t, s, p)
        <5>1. Leaves(h.changes, book[u].live, s, p) <=> p \in Occupied(book[u].live.side[s])
          BY <2>5, <3>3, <4>3 DEF Leaves
        <5> QED BY <3>1, <3>3, <4>1, <4>3, <5>1 DEF Follows, Valid
      <4> QED BY <4>2, <4>3
    <3> QED BY <3>2, <3>3
  <2>7. Truthful(Rest(u))
    BY <2>4 DEF Truthful
  <2> QED BY <1>0, <2>1, <2>2, <2>6, <2>7, HeadGoes DEF h
<1> QED BY <1>1, <1>2, <1>3, <1>4, <1>5, <1>6, <1>7, <1>8, <1>9, <1>11, <1>12, <1>13, <1>14
        DEF Next, Venue, Session, SocketEnds, SweepSilent

-----------------------------------------------------------------------------
(* The feed: the theorems. *)

LEMMA FeedInvHolds == Spec => []FeedInv
<1>1. Init => FeedInv
  <2> SUFFICES ASSUME Init PROVE FeedInv
    OBVIOUS
  <2>1. \A t \in Token : book[t] = Slotless /\ book[t].live = NewBook /\ ~Valid(t)
    BY NewBookIs DEF Init, Slotless, Valid
  <2>2. Slotless \in BookRecord
    BY NewBookIs DEF Slotless, BookRecord, LiveBook
  <2>3. TypeOK
    <3>1. <<>> \in Seq(Seq(FrameEvent)) /\ <<>> \in Seq(FrameEvent \cup CallEvent)
      OBVIOUS
    <3>2. wire \in Seq(Seq(FrameEvent)) /\ work \in Seq(FrameEvent \cup CallEvent)
      BY <3>1 DEF Init
    <3>3. book \in [Token -> BookRecord] /\ missed \in [Token -> BOOLEAN]
      BY <2>2 DEF Init
    <3>4. \A t \in Token : ~book[t].slot => book[t].live = NewBook
      BY <2>1
    <3>5. faults \in 0..MaxFaults
      BY FeedAssumption DEF Init
    <3>6. /\ venue \in VenueBooks /\ heard \in BOOLEAN
          /\ link \in {"up", "down"} /\ broken \in BOOLEAN /\ sub \in {"sent", "on", "failed"}
      BY DEF Init
    <3> QED BY <3>2, <3>3, <3>4, <3>5, <3>6 DEF TypeOK
  <2>4. Books
    BY <2>1, NewBookIs DEF Books
  <2> QED BY <2>3, <2>4 DEF Init, FeedInv, Calls, Unsubscribed, InStep, Listening
<1>2. FeedInv /\ [Next]_vars => FeedInv'
  <2> SUFFICES ASSUME FeedInv, [Next]_vars PROVE FeedInv'
    OBVIOUS
  <2>1. CASE Next
    BY <2>1, TypeStep, CallsStep, StepKeeps DEF FeedInv
  <2>2. CASE UNCHANGED vars
    BY <2>2 DEF vars, venueVars, sessionVars, FeedInv, TypeOK, Books, Valid, Calls, Unsubscribed,
                InStep, Listening, Frames
  <2> QED BY <2>1, <2>2
<1> QED BY <1>1, <1>2, PTL DEF Spec

(* Every variable of the feed has its type, and a book without a slot is   *)
(* as LiveBook::new makes it.                                              *)
THEOREM FeedTyped == Spec => []TypeOK
<1>1. FeedInv => TypeOK
  BY DEF FeedInv
<1> QED BY <1>1, FeedInvHolds, PTL

(* No change is lost, for any books the venue can show, any number of      *)
(* frames in the socket, faults and off-tick levels: every level was last  *)
(* set, or will be, to what the venue has (handle_frame, resnapshot,       *)
(* apply_snapshot, apply_changes, run_session).                            *)
THEOREM LosesNothing == Spec => []NothingLost
<1>1. FeedInv => NothingLost
  <2> SUFFICES ASSUME FeedInv, NEW t \in Token
               PROVE  /\ link = "down" => ~Valid(t)
                      /\ \A s \in Side : BestTrue(book[t].live.side[s], s)
                      /\ Listening /\ Valid(t) /\ ~missed[t] =>
                           \A s \in Side, p \in Price : EndsUp(Frames, t, s, p) <=> p \in venue[t][s]
    BY DEF NothingLost
  <2>1. /\ link = "down" => ~Valid(t)
        /\ \A s \in Side : BestTrue(book[t].live.side[s], s)
    BY DEF FeedInv, Books, LiveBook
  <2>2. ASSUME Listening, Valid(t), ~missed[t], NEW s \in Side, NEW p \in Price
        PROVE  EndsUp(Frames, t, s, p) <=> p \in venue[t][s]
    <3>1. Follows(Frames, book[t].live, missed[t], venue[t], t, s, p)
      BY <2>2 DEF FeedInv, InStep
    <3>2. CASE Setting(Frames, t, s, p) = {}
      BY <2>2, <3>1, <3>2 DEF Follows, EndsUp, Valid
    <3>3. CASE Setting(Frames, t, s, p) # {}
      <4>1. Frames = Queue(work, wire) /\ work \in Seq(WorkEvent) /\ wire \in Seq(Seq(WorkEvent))
            /\ wire \in Seq(Seq(FrameEvent))
        BY QueueTyped DEF FeedInv
      <4>2. LastSetting(Frames, t, s, p) # {}
        BY <3>3, <4>1, LastExists
      <4>3. ASSUME NEW x \in LastSetting(Frames, t, s, p) PROVE ~Stray(Event(Frames, x))
        <5>1. /\ x[1] \in DOMAIN Frames /\ x[2] \in DOMAIN Frames[x[1]]
              /\ Event(Frames, x) = Frames[x[1]][x[2]] /\ Sets(Event(Frames, x), t, s, p)
          BY LastIs, SettingIs
        <5> SUFFICES ASSUME Event(Frames, x).kind = "snap" PROVE FALSE
          BY DEF Stray
        <5>2. CASE x[1] = 0
          <6>1. Frames[x[1]] = work
            BY <5>1, <5>2 DEF Frames
          <6>2. x[2] \in DOMAIN work /\ work[x[2]].kind = "snap" /\ work[x[2]].token = t
            BY <5>1, <6>1 DEF Sets
          <6> QED BY <2>2, <6>2 DEF FeedInv, Calls
        <5>3. CASE x[1] # 0
          <6>1. x[1] \in 1..Len(wire) /\ Frames[x[1]] = wire[x[1]]
            BY <4>1, <5>1, <5>3 DEF Frames
          <6>2. Frames[x[1]] \in Seq(FrameEvent)
            BY <4>1, <6>1
          <6>3. Event(Frames, x) \in FrameEvent
            BY <5>1, <6>2
          <6> QED BY <6>3, EventsAre
        <5> QED BY <5>2, <5>3
      <4>4. \A x \in LastSetting(Frames, t, s, p) : Shows(Event(Frames, x), s, p) <=> p \in venue[t][s]
        BY <3>1, <4>3 DEF Follows
      <4> QED BY <3>3, <4>2, <4>4 DEF EndsUp
    <3> QED BY <3>2, <3>3
  <2> QED BY <2>1, <2>2
<1> QED BY <1>1, FeedInvHolds, PTL

LEMMA RewardOnIs ==
  ASSUME NEW bb, NEW ba, NEW q \in RewardOn(bb, ba)
  PROVE  \E bq \in Depths, aq \in Depths, band \in Bands, b \in Slips, a \in Slips :
           q = RewardQuotes(bb, ba, Microprice(bb, ba, bq, aq, LeastDepth), band, [bid |-> b, ask |-> a])
BY DEF RewardOn

(* Both policies stay off the levels of any book the supervisor serves as  *)
(* valid, and off each other, for any inventory, cap, spread, skew, band,  *)
(* depth and rounding of a division (compute_quotes, reward_quote_prices   *)
(* on what Ladder caches).                                                 *)
THEOREM QuotesRest == Spec => []PostOnly
<1>1. FeedInv => PostOnly
  <2> SUFFICES ASSUME FeedInv, NEW t \in Token, Valid(t), NEW bb \in Price, NEW ba \in Price,
                      book[t].live.side["Bid"].best = bb, book[t].live.side["Ask"].best = ba,
                      NEW q \in SpreadOn(bb, ba) \cup RewardOn(bb, ba)
               PROVE  Resting(q, Occupied(book[t].live.side["Bid"]), Occupied(book[t].live.side["Ask"]))
    <3>1. \A on \in QuotesOn : \E bb \in Price, ba \in Price :
            on.bid = bb /\ on.ask = ba /\ on.quotes = SpreadOn(bb, ba) \cup RewardOn(bb, ba)
      BY DEF QuotesOn
    <3> QED BY <3>1 DEF PostOnly
  <2> DEFINE bids == Occupied(book[t].live.side["Bid"])
             asks == Occupied(book[t].live.side["Ask"])
  <2>1. bb = BestIn("Bid", bids) /\ ba = BestIn("Ask", asks) /\ bids \in SUBSET Price /\ asks \in SUBSET Price
    BY DEF FeedInv, Books, LiveBook, BestTrue, Side, Occupied
  <2>2. "Bid" \in Side /\ "Ask" \in Side /\ Price \in SUBSET Int /\ bb # NoPx /\ ba # NoPx
    BY PriceType DEF Side, Price, NoPx
  <2>6. bb <= ba
    <3>1. ~Crossed(book[t].live)
      BY DEF FeedInv, Books
    <3> QED BY <3>1, <2>2 DEF Crossed
  <2> HIDE DEF bids, asks
  <2>3. \A p \in bids : ~Improves("Bid", p, bb)
    BY <2>1, <2>2, BestInTyped
  <2>4. \A p \in asks : ~Improves("Ask", p, ba)
    BY <2>1, <2>2, BestInTyped
  <2>5. (\A p \in bids : p <= bb) /\ (\A p \in asks : ba <= p)
    <3>1. ASSUME NEW p \in bids PROVE p <= bb
      <4>1. p \in Int /\ bb \in Int /\ ~(p > bb)
        BY <2>1, <2>2, <2>3 DEF Improves
      <4> QED BY <4>1
    <3>2. ASSUME NEW p \in asks PROVE ba <= p
      <4>1. p \in Int /\ ba \in Int /\ ~(p < ba)
        BY <2>1, <2>2, <2>4 DEF Improves
      <4> QED BY <4>1
    <3> QED BY <3>1, <3>2
  <2>7. CASE q \in SpreadOn(bb, ba)
    <3>1. PICK net \in Nets, cap \in Caps, spread \in Spreads, skew \in Skews :
            q = SpreadQuotes(bb, ba, net, cap, spread, skew)
      BY <2>7 DEF SpreadOn
    <3> DEFINE fair == SkewFair(Mid(bb, ba), net, cap, skew)
               half == (spread * Bp) \div 2
    <3>2. net \in Int /\ cap \in Int /\ spread \in Nat /\ skew \in Nat
      BY QuotedFeedAssumption
    <3>3. Mid(bb, ba) \in Int
      BY <2>2, <2>3, <2>4, QuotingAssumption DEF Mid
    <3>4. fair \in Int
      BY <3>2, <3>3, SkewBounded
    <3>5. half \in Nat
      <4>1. spread * Bp \in Nat
        BY <3>2, QuotingAssumption
      <4> QED BY <4>1
    <3>6. q = SpreadTicks(bb, ba, fair, half)
      BY <2>2, <2>3, <2>4, <3>1, PriceType DEF SpreadQuotes
    <3> HIDE DEF fair, half
    <3>7. Resting(q, bids, asks)
      BY <2>1, <2>3, <2>4, <2>5, <3>4, <3>5, <3>6, SpreadRests
    <3> QED BY <3>7 DEF bids, asks
  <2>8. CASE q \in RewardOn(bb, ba)
    <3>1. PICK bq \in Depths, aq \in Depths, band \in Bands, b \in Slips, a \in Slips :
            q = RewardQuotes(bb, ba, Microprice(bb, ba, bq, aq, LeastDepth), band, [bid |-> b, ask |-> a])
      BY <2>8, RewardOnIs
    <3> DEFINE fair == Microprice(bb, ba, bq, aq, LeastDepth)
               slip == [bid |-> b, ask |-> a]
    <3>2. bq \in Nat /\ aq \in Nat /\ band \in Int /\ slip \in [bid: Nat, ask: Nat] /\ LeastDepth \in Nat
      BY QuotedFeedAssumption
    <3>3. fair \in [num: Int, den: Nat \ {0}]
      BY <2>3, <2>4, <2>6, <3>2, MicropriceInside
    <3>4. q = RewardQuotes(bb, ba, fair, band, slip)
      BY <3>1
    <3> HIDE DEF fair, slip
    <3>5. Resting(q, bids, asks)
      BY <2>1, <2>3, <2>4, <2>5, <3>2, <3>3, <3>4, RewardRests
    <3> QED BY <3>5 DEF bids, asks
  <2> QED BY <2>7, <2>8
<1> QED BY <1>1, FeedInvHolds, PTL


-----------------------------------------------------------------------------
(* Sums over stacks and over the queue.                                    *)

LEMMA SumIsTotal ==
  ASSUME NEW f
  PROVE  SumFunction(f) = Total(f, DOMAIN f)
BY Zenon DEF SumFunction, SumFunctionOnSet, FoldFunctionOnSet, Total, MapThenSumSet

(* A sequence of numbers: one is appended, or the first is dropped.        *)
LEMMA SumAppended ==
  ASSUME NEW f \in Seq(Int), NEW x \in Int, NEW g, g = Append(f, x)
  PROVE  SumFunction(g) = SumFunction(f) + x /\ SumFunction(f) \in Int
<1> DEFINE n == Len(f)
<1>1. n \in Nat /\ DOMAIN f = 1 .. n /\ \A i \in 1 .. n : f[i] \in Int
  OBVIOUS
<1>2. DOMAIN g = 1 .. n + 1 /\ g[n + 1] = x /\ \A i \in 1 .. n : g[i] = f[i]
  OBVIOUS
<1> HIDE DEF n
<1>3. \A i \in 1 .. n + 1 : g[i] \in Int
  BY <1>1, <1>2
<1>4. Total(g, 1 .. n + 1) = Total(g, 1 .. n) + g[n + 1]
  BY <1>1, <1>3, TotalUpTo
<1>5. IsFiniteSet(1 .. n)
  BY <1>1, FS_Interval
<1>6. Total(g, 1 .. n) = Total(f, 1 .. n)
  BY <1>2, <1>5, TotalAgree
<1>7. Total(f, 1 .. n) \in Int
  BY <1>1, <1>5, TotalType
<1>8. QED
  BY <1>1, <1>2, <1>4, <1>6, <1>7, SumIsTotal

LEMMA SumDropped ==
  ASSUME NEW f \in Seq(Int), f # <<>>, NEW g, g = Tail(f)
  PROVE  SumFunction(f) = f[1] + SumFunction(g) /\ SumFunction(g) \in Int
<1>1. PICK n \in Nat : Len(f) = n + 1
  <2>1. Len(f) \in Nat /\ Len(f) # 0
    OBVIOUS
  <2>2. Len(f) - 1 \in Nat /\ Len(f) = (Len(f) - 1) + 1
    BY <2>1
  <2>3. QED
    BY <2>2
<1>2. DOMAIN f = 1 .. n + 1 /\ \A i \in 1 .. n + 1 : f[i] \in Int
  BY <1>1
<1>3. DOMAIN g = 1 .. n /\ \A i \in 1 .. n : g[i] = f[i + 1]
  BY <1>1
<1>4. Total(f, 1 .. n + 1) = f[1] + Total(g, 1 .. n)
  <2>1. \A i \in 1 .. n + 1 : f[i] \in Int
    BY <1>2
  <2>2. \A i \in 1 .. n : g[i] = f[i + 1]
    BY <1>3
  <2>3. n \in Nat
    BY <1>1
  <2>4. QED
    BY ONLY <2>1, <2>2, <2>3, TotalFrom
<1>5. IsFiniteSet(1 .. n) /\ \A i \in 1 .. n : g[i] \in Int
  <2>1. n \in Nat /\ IsFiniteSet(1 .. n)
    BY <1>1, FS_Interval
  <2>2. \A i \in 1 .. n : i + 1 \in 1 .. n + 1
    BY <2>1
  <2>3. QED
    BY <1>2, <1>3, <2>1, <2>2
<1>6. Total(g, 1 .. n) \in Int
  BY <1>5, TotalType
<1>7. QED
  BY <1>2, <1>3, <1>4, <1>6, SumIsTotal

-----------------------------------------------------------------------------
(* Lots.                                                                   *)

\* longs cost, shorts brought in
SignOK(q, c) == (q > 0 => c >= 0) /\ (q < 0 => c <= 0)

LotRecord == [qty0 : Int, cost0 : Int, qty : Int, cost : Int]
GoodLot(l) ==
  /\ l.qty0 # 0 /\ l.qty # 0 /\ SignOK(l.qty, l.cost)
  /\ l.cost * Abs(l.qty0) <= l.cost0 * Abs(l.qty)
GoodLots == {l \in LotRecord : GoodLot(l)}
Stacks == Seq(GoodLots)

LEMMA StackSums ==
  ASSUME NEW st \in Stacks
  PROVE  /\ Shares(st) \in Int /\ Cost(st) \in Int
         /\ \A l \in GoodLots : /\ Shares(Append(st, l)) = Shares(st) + l.qty
                                /\ Cost(Append(st, l)) = Cost(st) + l.cost
<1> DEFINE qs(s) == [i \in DOMAIN s |-> s[i].qty]
           cs(s) == [i \in DOMAIN s |-> s[i].cost]
<1>1. \A s : Shares(s) = SumFunction(qs(s)) /\ Cost(s) = SumFunction(cs(s))
  BY Zenon DEF Shares, Cost, SumOver
<1>2. st \in Seq(LotRecord)
  BY DEF Stacks, GoodLots
<1>3. qs(st) \in Seq(Int) /\ cs(st) \in Seq(Int)
  <2>1. Len(st) \in Nat /\ DOMAIN st = 1 .. Len(st) /\ \A i \in DOMAIN st : st[i] \in LotRecord
    BY <1>2
  <2>2. \A i \in 1 .. Len(st) : st[i].qty \in Int /\ st[i].cost \in Int
    BY <2>1 DEF LotRecord
  <2>3. QED
    BY <2>1, <2>2
<1>4. ASSUME NEW l \in GoodLots
      PROVE  /\ Shares(Append(st, l)) = Shares(st) + l.qty
             /\ Cost(Append(st, l)) = Cost(st) + l.cost
  <2>1. l \in LotRecord
    BY DEF GoodLots
  <2>4. l.qty \in Int /\ l.cost \in Int
    BY <2>1 DEF LotRecord
  <2>2. qs(Append(st, l)) = Append(qs(st), l.qty)
    BY <1>2, <1>3, <2>1, <2>4
  <2>3. cs(Append(st, l)) = Append(cs(st), l.cost)
    BY <1>2, <1>3, <2>1, <2>4
  <2> HIDE DEF qs, cs
  <2>5. QED
    BY <1>1, <1>3, <2>2, <2>3, <2>4, SumAppended
<1>5. Shares(st) \in Int /\ Cost(st) \in Int
  <2> HIDE DEF qs, cs
  <2>1. 0 \in Int
    OBVIOUS
  <2>2. QED
    BY <1>1, <1>3, <2>1, SumAppended
<1>6. QED
  BY <1>4, <1>5

LEMMA EmptySums == Shares(<<>>) = 0 /\ Cost(<<>>) = 0
<1> DEFINE f == [i \in DOMAIN <<>> |-> <<>>[i].qty]
           g == [i \in DOMAIN <<>> |-> <<>>[i].cost]
<1>1. Shares(<<>>) = SumFunction(f) /\ Cost(<<>>) = SumFunction(g)
  BY Zenon DEF Shares, Cost, SumOver
<1>2. DOMAIN f = {} /\ DOMAIN g = {}
  OBVIOUS
<1> HIDE DEF f, g
<1>3. QED
  BY <1>1, <1>2, SumIsTotal, TotalEmpty

-----------------------------------------------------------------------------
(* Rounding.                                                               *)

LEMMA CeilBounds ==
  ASSUME NEW a \in Int, NEW b \in Nat \ {0}
  PROVE  /\ CeilDiv(a, b) \in Int /\ a <= CeilDiv(a, b) * b
         /\ \A m \in Int : a <= m * b => CeilDiv(a, b) <= m
<1> DEFINE q == (a + b - 1) \div b
<1>1. q \in Int /\ b * q <= a + b - 1 /\ a + b - 1 < b * q + b
  OBVIOUS
<1>2. CeilDiv(a, b) = q
  BY DEF CeilDiv
<1> HIDE DEF q
<1>3. a <= q * b
  <2>1. q * b = b * q
    BY <1>1
  <2> DEFINE x == q * b
  <2>2. x \in Int /\ a + b - 1 < x + b
    BY <1>1, <2>1
  <2> HIDE DEF x
  <2>3. a <= x
    BY <2>2
  <2>4. QED
    BY <2>3 DEF x
<1>4. ASSUME NEW m \in Int, a <= m * b, q > m PROVE FALSE
  <2>1. (m + 1) * b <= q * b
    BY <1>1, <1>4
  <2>2. (m + 1) * b = m * b + b /\ q * b = b * q
    BY <1>1
  <2> DEFINE x == m * b
             y == b * q
  <2>3. x \in Int /\ y \in Int /\ x + b <= y /\ y <= a + b - 1 /\ a <= x
    BY <1>1, <1>4, <2>1, <2>2
  <2> HIDE DEF x, y
  <2>4. QED
    BY <2>3
<1>5. ASSUME NEW m \in Int, a <= m * b PROVE q <= m
  BY <1>1, <1>4, <1>5
<1>6. QED
  BY <1>1, <1>2, <1>3, <1>5

LEMMA FloorBounds ==
  ASSUME NEW a \in Nat, NEW b \in Nat \ {0}
  PROVE  /\ a \div b \in Nat /\ (a \div b) * b <= a
         /\ \A m \in Int : a <= m * b => a \div b <= m
<1> DEFINE q == a \div b
<1>1. q \in Nat /\ b * q <= a
  OBVIOUS
<1> HIDE DEF q
<1>2. q * b = b * q
  BY <1>1
<1>3. ASSUME NEW m \in Int, a <= m * b, q > m PROVE FALSE
  <2>1. (m + 1) * b <= q * b
    BY <1>1, <1>3
  <2>2. (m + 1) * b = m * b + b
    OBVIOUS
  <2> DEFINE x == m * b
             y == b * q
  <2>3. x \in Int /\ y \in Int /\ x + b <= y /\ y <= a /\ a <= x
    BY <1>1, <1>2, <1>3, <2>1, <2>2
  <2> HIDE DEF x, y
  <2>4. QED
    BY <2>3
<1>4. ASSUME NEW m \in Int, a <= m * b PROVE q <= m
  BY <1>1, <1>3, <1>4
<1>5. q * b <= a
  BY <1>1, <1>2
<1>6. QED
  BY <1>1, <1>4, <1>5 DEF q

LEMMA TimesLess ==
  ASSUME NEW a \in Int, NEW b \in Int, a <= b, NEW k \in Nat
  PROVE  a * k <= b * k
OBVIOUS

LEMMA Divided ==
  ASSUME NEW a \in Int, NEW b \in Int, NEW n \in Nat \ {0}, a * n <= b * n
  PROVE  a <= b
<1>1. SUFFICES ASSUME b + 1 <= a PROVE FALSE
  OBVIOUS
<1>2. (b + 1) * n <= a * n
  BY <1>1, TimesLess
<1>3. (b + 1) * n = b * n + n
  OBVIOUS
<1> DEFINE x == a * n
           y == b * n
<1>4. x \in Int /\ y \in Int /\ y + n <= x /\ x <= y
  BY <1>2, <1>3
<1> HIDE DEF x, y
<1>5. QED
  BY <1>4

(* What is taken of a lot costs no less than its exact share, and no more  *)
(* than there is.                                                          *)
LEMMA PartsCost ==
  ASSUME NEW l \in GoodLots, NEW take \in Nat \ {0}, take <= Abs(l.qty)
  PROVE  /\ CostOfPart(l, take) \in Int
         /\ l.cost * take <= CostOfPart(l, take) * Abs(l.qty)
         /\ SignOK(l.qty, l.cost - CostOfPart(l, take))
<1>1. l.qty \in Int /\ l.cost \in Int /\ l.qty # 0 /\ SignOK(l.qty, l.cost)
  BY DEF GoodLots, GoodLot, LotRecord
<1>2. CASE take = Abs(l.qty)
  <2>1. CostOfPart(l, take) = l.cost
    BY <1>2 DEF CostOfPart
  <2>2. l.cost - l.cost = 0
    BY <1>1
  <2>3. QED
    BY <1>1, <1>2, <2>1, <2>2 DEF SignOK
<1>3. CASE take # Abs(l.qty) /\ l.qty > 0
  <2>1. Abs(l.qty) = l.qty /\ take <= l.qty /\ l.qty \in Nat \ {0} /\ l.cost \in Nat
    BY <1>1, <1>3 DEF Abs, SignOK
  <2>2. CostOfPart(l, take) = CeilDiv(l.cost * take, l.qty)
    BY <1>3 DEF CostOfPart
  <2>3. l.cost * take \in Int /\ l.cost * take <= l.cost * l.qty
    BY <2>1
  <2>4. /\ CeilDiv(l.cost * take, l.qty) \in Int
        /\ l.cost * take <= CeilDiv(l.cost * take, l.qty) * l.qty
        /\ CeilDiv(l.cost * take, l.qty) <= l.cost
    BY <2>1, <2>3, CeilBounds
  <2>5. SignOK(l.qty, l.cost - CeilDiv(l.cost * take, l.qty))
    BY <1>1, <1>3, <2>4 DEF SignOK
  <2>6. QED
    BY <2>1, <2>2, <2>4, <2>5
<1>4. CASE take # Abs(l.qty) /\ l.qty < 0
  <2> DEFINE n == -l.qty
             c == -l.cost
             f == (c * take) \div n
  <2>1. Abs(l.qty) = n /\ take <= n /\ n \in Nat \ {0} /\ c \in Nat
    BY <1>1, <1>4 DEF Abs, SignOK
  <2>2. CostOfPart(l, take) = -f
    BY <1>1, <1>4 DEF CostOfPart
  <2>3. c * take \in Nat /\ c * take <= c * n
    BY <2>1
  <2>4. l.cost * take = -(c * take)
    BY <1>1
  <2>5. l.cost = -c /\ l.qty = -n
    BY <1>1
  <2> HIDE DEF n, c
  <2>6. f \in Nat /\ f * n <= c * take /\ f <= c
    BY <2>1, <2>3, FloorBounds
  <2> HIDE DEF f
  <2>7. (-f) * n = -(f * n)
    BY <2>1, <2>6
  <2>8. -(c * take) <= (-f) * n
    <3> DEFINE x == c * take
               y == f * n
    <3>1. x \in Int /\ y \in Int /\ y <= x
      BY <2>1, <2>3, <2>6
    <3> HIDE DEF x, y
    <3>2. -x <= -y
      BY <3>1
    <3>3. QED
      BY <3>2, <2>7 DEF x, y
  <2>9. SignOK(l.qty, l.cost - (-f))
    BY <1>4, <2>1, <2>5, <2>6 DEF SignOK
  <2>10. QED
    BY <2>1, <2>2, <2>4, <2>6, <2>8, <2>9
<1>5. QED
  BY <1>1, <1>2, <1>3, <1>4

(* What remains of a lot closed in part is as good as the lot.             *)
LEMMA RemainsGood ==
  ASSUME NEW l \in GoodLots, NEW take \in Nat \ {0}, take < Abs(l.qty), NEW q \in Int,
         q = (IF l.qty > 0 THEN l.qty - take ELSE l.qty + take)
  PROVE  /\ [l EXCEPT !.qty = q, !.cost = @ - CostOfPart(l, take)] \in GoodLots
         /\ q > 0 <=> l.qty > 0
<1> DEFINE p == CostOfPart(l, take)
           r == [l EXCEPT !.qty = q, !.cost = l.cost - p]
           n == Abs(l.qty)
           m == Abs(q)
           z == Abs(l.qty0)
           c == l.cost - p
<1>1. /\ l \in LotRecord /\ l.qty0 \in Int /\ l.cost0 \in Int /\ l.qty \in Int /\ l.cost \in Int
      /\ l.qty0 # 0 /\ l.qty # 0 /\ SignOK(l.qty, l.cost)
      /\ l.cost * z <= l.cost0 * n
  BY DEF GoodLots, GoodLot, LotRecord
<1>2. /\ n \in Nat \ {0} /\ m \in Nat \ {0} /\ z \in Nat /\ m = n - take /\ q # 0
      /\ q > 0 <=> l.qty > 0
  BY <1>1 DEF Abs
<1>3. p \in Int /\ l.cost * take <= p * n /\ SignOK(l.qty, l.cost - p)
  BY <1>2, PartsCost
<1>4. r \in LotRecord /\ r.qty = q /\ r.cost = c /\ r.qty0 = l.qty0 /\ r.cost0 = l.cost0
  <2>1. l \in LotRecord /\ l.cost \in Int /\ p \in Int
    BY <1>1, <1>3
  <2>2. c \in Int
    BY <2>1
  <2> HIDE DEF p, c
  <2>3. [l EXCEPT !.qty = q, !.cost = c] \in LotRecord
    BY <2>1, <2>2 DEF LotRecord
  <2>4. r = [l EXCEPT !.qty = q, !.cost = c]
    BY DEF c
  <2>5. QED
    BY <2>1, <2>2, <2>3, <2>4 DEF LotRecord
<1>5. c * z <= l.cost0 * m
  <2> DEFINE e == l.cost
             d == l.cost0
  <2>1. e \in Int /\ d \in Int /\ c \in Int /\ p \in Int /\ e * z <= d * n /\ e * take <= p * n /\ c = e - p
    BY <1>1, <1>3
  <2> HIDE DEF c, e, d, p, n, m, z
  <2>2. c * n <= e * m
    <3>1. c * n = e * n - p * n /\ e * m = e * n - e * take
      BY <1>2, <2>1
    <3> DEFINE en == e * n
               pn == p * n
               et == e * take
    <3>2. en \in Int /\ pn \in Int /\ et \in Int /\ et <= pn /\ c * n = en - pn /\ e * m = en - et
      BY <1>2, <2>1, <3>1
    <3> HIDE DEF en, pn, et
    <3>3. en - pn <= en - et
      BY <3>2
    <3>4. QED
      BY <3>2, <3>3
  <2>3. (c * n) * z <= (e * m) * z
    BY <1>2, <2>1, <2>2, TimesLess
  <2>4. (e * z) * m <= (d * n) * m
    BY <1>2, <2>1, TimesLess
  <2>5. (c * z) * n <= (d * m) * n
    <3>1. (c * n) * z = (c * z) * n /\ (e * m) * z = (e * z) * m /\ (d * n) * m = (d * m) * n
      BY <1>2, <2>1
    <3> DEFINE x == (c * z) * n
               y == (e * z) * m
               w == (d * m) * n
    <3>2. x \in Int /\ y \in Int /\ w \in Int /\ x <= y /\ y <= w
      BY <1>2, <2>1, <2>3, <2>4, <3>1
    <3> HIDE DEF x, y, w
    <3>3. x <= w
      BY <3>2
    <3>4. QED
      BY <3>3 DEF x, w
  <2>6. c * z \in Int /\ d * m \in Int
    BY <1>2, <2>1
  <2>7. QED
    BY <1>2, <2>5, <2>6, Divided DEF d
<1>6. SignOK(q, c)
  BY <1>1, <1>2, <1>3 DEF SignOK
<1>7. GoodLot(r)
  BY <1>1, <1>2, <1>4, <1>5, <1>6 DEF GoodLot
<1>8. QED
  BY <1>2, <1>4, <1>7 DEF GoodLots

-----------------------------------------------------------------------------
(* The loop that closes lots.                                              *)

Closings == [need : Nat, cost : Int, stack : Stacks]

\* every lot is on one side: v is 1 for longs, -1 for shorts
OnSide(st, v) == \A i \in DOMAIN st : st[i].qty * v > 0

LEMMA AppendedSide ==
  ASSUME NEW st \in Stacks, NEW l \in GoodLots, NEW v, OnSide(st, v), l.qty * v > 0
  PROVE  OnSide(Append(st, l), v)
BY DEF OnSide, Stacks

(* One lot: shares and cost are only moved, from the lot to what was taken *)
(* or to the new stack.                                                    *)
LEMMA TakesOne ==
  ASSUME NEW acc \in Closings, NEW l \in GoodLots, NEW sign \in {1, -1},
         NEW r, r = TakeFrom(acc, l, sign)
  PROVE  /\ r \in Closings /\ r.need <= acc.need
         /\ Cost(r.stack) + r.cost = Cost(acc.stack) + acc.cost + l.cost
         /\ sign = 1 => Shares(r.stack) - r.need = Shares(acc.stack) - acc.need + l.qty
         /\ sign = -1 => Shares(r.stack) + r.need = Shares(acc.stack) + acc.need + l.qty
         /\ \A v \in {1, -1} : OnSide(acc.stack, v) /\ l.qty * v > 0 => OnSide(r.stack, v)
         /\ r.need > 0 /\ OnSide(acc.stack, -sign) => OnSide(r.stack, -sign)
<1>1. acc.need \in Nat /\ acc.cost \in Int /\ acc.stack \in Stacks
  BY DEF Closings
<1>2. l.qty \in Int /\ l.cost \in Int /\ l.qty # 0
  BY DEF GoodLots, GoodLot, LotRecord
<1>3. /\ Shares(acc.stack) \in Int /\ Cost(acc.stack) \in Int
      /\ \A k \in GoodLots : /\ Append(acc.stack, k) \in Stacks
                             /\ Shares(Append(acc.stack, k)) = Shares(acc.stack) + k.qty
                             /\ Cost(Append(acc.stack, k)) = Cost(acc.stack) + k.cost
  BY <1>1, StackSums DEF Stacks
<1>4. CASE l.qty * sign <= 0 \/ acc.need = 0
  <2>1. r = [need |-> acc.need - 0, cost |-> acc.cost + (l.cost - l.cost), stack |-> Append(acc.stack, l)]
    BY <1>2, <1>4 DEF TakeFrom
  <2>2. r.need = acc.need /\ r.cost = acc.cost /\ r.stack = Append(acc.stack, l) /\ r \in Closings
    BY <1>1, <1>2, <1>3, <2>1 DEF Closings
  <2>3. r.need > 0 => l.qty * (-sign) > 0
    <3>1. CASE sign = 1
      BY <1>2, <1>4, <2>2, <3>1
    <3>2. CASE sign = -1
      BY <1>2, <1>4, <2>2, <3>2
    <3>3. QED
      BY <3>1, <3>2
  <2>4. \A v \in {1, -1} : OnSide(acc.stack, v) /\ l.qty * v > 0 => OnSide(r.stack, v)
    BY <1>1, <2>2, AppendedSide
  <2>5. r.need > 0 /\ OnSide(acc.stack, -sign) => OnSide(r.stack, -sign)
    BY <1>1, <2>2, <2>3, AppendedSide
  <2>6. Cost(r.stack) + r.cost = Cost(acc.stack) + acc.cost + l.cost
    BY <1>1, <1>2, <1>3, <2>2
  <2>7. Shares(r.stack) = Shares(acc.stack) + l.qty
    BY <1>3, <2>2
  <2>8. /\ sign = 1 => Shares(r.stack) - r.need = Shares(acc.stack) - acc.need + l.qty
        /\ sign = -1 => Shares(r.stack) + r.need = Shares(acc.stack) + acc.need + l.qty
    <3>1. Shares(acc.stack) \in Int /\ acc.need \in Int /\ r.need = acc.need
      BY <1>1, <1>3, <2>2
    <3>2. QED
      BY ONLY <1>2, <2>7, <3>1
  <2>9. r \in Closings /\ r.need <= acc.need
    BY <1>1, <2>2
  <2>10. QED
    BY <2>4, <2>5, <2>6, <2>8, <2>9
<1>5. CASE ~(l.qty * sign <= 0 \/ acc.need = 0)
  <2> DEFINE take == IF acc.need < Abs(l.qty) THEN acc.need ELSE Abs(l.qty)
             p == CostOfPart(l, take)
             left == [l EXCEPT !.qty = @ - sign * take, !.cost = @ - p]
  <2>1. /\ Abs(l.qty) \in Nat \ {0} /\ take \in Nat \ {0} /\ take <= Abs(l.qty) /\ take <= acc.need
        /\ take < Abs(l.qty) => take = acc.need
    BY <1>1, <1>2, <1>5 DEF Abs
  <2>2. /\ sign = 1 => l.qty > 0 /\ Abs(l.qty) = l.qty
        /\ sign = -1 => l.qty < 0 /\ Abs(l.qty) = -l.qty
    BY <1>2, <1>5 DEF Abs
  <2>3. r = [need |-> acc.need - take, cost |-> acc.cost + (l.cost - left.cost),
             stack |-> IF left.qty = 0 THEN acc.stack ELSE Append(acc.stack, left)]
    BY <1>5, <2>1 DEF TakeFrom
  <2>4. p \in Int
    BY <2>1, PartsCost
  <2>5. left.qty = l.qty - sign * take /\ left.cost = l.cost - p
    <3>1. l \in LotRecord
      BY DEF GoodLots
    <3> HIDE DEF take, p
    <3>2. QED
      BY <3>1 DEF LotRecord
  <2>6. /\ sign = 1 => left.qty = l.qty - take
        /\ sign = -1 => left.qty = l.qty + take
    <3> HIDE DEF take, left
    <3>1. QED
      BY <1>2, <2>1, <2>5
  <2>7. /\ r.need = acc.need - take /\ r.need \in Nat /\ r.need <= acc.need
        /\ r.cost = acc.cost + p /\ r.cost \in Int
    <3> HIDE DEF take, p, left
    <3>1. QED
      BY <1>1, <1>2, <2>1, <2>3, <2>4, <2>5
  <2>8. CASE take = Abs(l.qty)
    <3>1. left.qty = 0 /\ p = l.cost
      BY <1>2, <2>2, <2>6, <2>8 DEF CostOfPart
    <3>2. r.stack = acc.stack
      BY <2>3, <3>1
    <3> HIDE DEF take, p, left
    <3>3. r \in Closings
      BY <1>1, <2>3, <2>7, <3>2 DEF Closings
    <3>4. Cost(r.stack) + r.cost = Cost(acc.stack) + acc.cost + l.cost
      BY <1>1, <1>2, <1>3, <2>7, <3>1, <3>2
    <3>5. /\ sign = 1 => Shares(r.stack) - r.need = Shares(acc.stack) - acc.need + l.qty
          /\ sign = -1 => Shares(r.stack) + r.need = Shares(acc.stack) + acc.need + l.qty
      BY <1>1, <1>2, <1>3, <2>2, <2>7, <2>8, <3>2
    <3>6. QED
      BY <2>7, <3>2, <3>3, <3>4, <3>5
  <2>9. CASE take < Abs(l.qty)
    <3>1. /\ left \in GoodLots /\ (left.qty > 0 <=> l.qty > 0)
          /\ left.qty # 0 /\ left.qty \in Int
      <4>1. left.qty \in Int
        <5> HIDE DEF left, take
        <5>1. QED
          BY <1>2, <2>1, <2>6
      <4>2. left.qty = IF l.qty > 0 THEN l.qty - take ELSE l.qty + take
        <5> HIDE DEF left, take
        <5>1. QED
          BY <1>2, <2>2, <2>6
      <4>3. left = [l EXCEPT !.qty = left.qty, !.cost = @ - p]
        <5>1. left.qty = l.qty - sign * take
          BY <2>5
        <5> DEFINE x == l.qty - sign * take
        <5>2. left = [l EXCEPT !.qty = x, !.cost = @ - p] /\ left.qty = x
          BY <2>5
        <5>3. QED
          BY <5>2
      <4> HIDE DEF left
      <4>4. left \in GoodLots /\ (left.qty > 0 <=> l.qty > 0)
        BY <2>1, <2>9, <4>1, <4>2, <4>3, RemainsGood
      <4>5. QED
        BY <4>1, <4>4 DEF GoodLots, GoodLot
    <3>2. r.stack = Append(acc.stack, left)
      BY <2>3, <3>1
    <3> HIDE DEF left, p, take
    <3>3. r.need = 0
      BY <1>1, <2>1, <2>7, <2>9
    <3>4. r \in Closings
      BY <1>1, <1>3, <2>3, <2>7, <3>1, <3>2 DEF Closings
    <3>5. Cost(r.stack) + r.cost = Cost(acc.stack) + acc.cost + l.cost
      <4>1. Cost(r.stack) = Cost(acc.stack) + (l.cost - p)
        BY <1>3, <2>5, <3>1, <3>2
      <4>2. Cost(acc.stack) \in Int /\ acc.cost \in Int /\ l.cost \in Int /\ p \in Int /\ r.cost = acc.cost + p
        BY <1>1, <1>2, <1>3, <2>4, <2>7
      <4>3. QED
        BY ONLY <4>1, <4>2
    <3>6. /\ sign = 1 => Shares(r.stack) - r.need = Shares(acc.stack) - acc.need + l.qty
          /\ sign = -1 => Shares(r.stack) + r.need = Shares(acc.stack) + acc.need + l.qty
      <4>1. Shares(r.stack) = Shares(acc.stack) + left.qty
        BY <1>3, <3>1, <3>2
      <4>2. take \in Int /\ acc.need \in Int /\ r.need = acc.need - take
        BY <1>1, <2>1, <2>7
      <4>3. CASE sign = 1
        <5>1. left.qty = l.qty - take
          BY <2>6, <4>3
        <5>2. QED
          BY <1>2, <1>3, <4>1, <4>2, <4>3, <5>1
      <4>4. CASE sign = -1
        <5>1. left.qty = l.qty + take
          BY <2>6, <4>4
        <5>2. QED
          BY <1>2, <1>3, <4>1, <4>2, <4>4, <5>1
      <4>5. QED
        BY <4>3, <4>4
    <3>7. \A v \in {1, -1} : l.qty * v > 0 => left.qty * v > 0
      BY <1>2, <3>1
    <3>8. \A v \in {1, -1} : OnSide(acc.stack, v) /\ l.qty * v > 0 => OnSide(r.stack, v)
      BY <1>1, <3>1, <3>2, <3>7, AppendedSide
    <3>9. QED
      BY <2>7, <3>3, <3>4, <3>5, <3>6, <3>8
  <2>10. QED
    <3> HIDE DEF take
    <3>1. take = Abs(l.qty) \/ take < Abs(l.qty)
      BY <2>1
    <3>2. QED
      BY <3>1, <2>8, <2>9
<1>6. QED
  BY <1>4, <1>5

LEMMA LastOf ==
  ASSUME NEW k \in Nat \ {0}
  PROVE  Max(1 .. k) = k /\ (1 .. k) \ {k} = 1 .. k - 1
<1>1. k \in 1 .. k /\ \A y \in 1 .. k : k >= y
  OBVIOUS
<1>2. \A x \in 1 .. k : (\A y \in 1 .. k : x >= y) => x = k
  OBVIOUS
<1>3. Max(1 .. k) = k
  BY <1>1, <1>2 DEF Max
<1>4. QED
  BY <1>3

NothingTaken(want) == [need |-> want, cost |-> 0, stack |-> <<>>]

\* g closes the lots of st one after the other
Closes(g, st, want, sign) ==
  g = [s \in SUBSET DOMAIN st |->
         IF s = {} THEN NothingTaken(want) ELSE TakeFrom(g[s \ {Max(s)}], st[Max(s)], sign)]

(* Consume is FoldLeft, a recursive function: there is one.                *)
LEMMA ConsumeFolds ==
  ASSUME NEW st \in Stacks, NEW want \in Nat, NEW sign \in {1, -1}
  PROVE  \E g : Closes(g, st, want, sign) /\ Consume(st, want, sign) = g[DOMAIN st]
<1> DEFINE D == DOMAIN st
           f == [x \in D \X Closings |-> TakeFrom(x[2], st[x[1]], sign)]
           last == [s \in SUBSET D |-> Max(s)]
<1>1. Len(st) \in Nat /\ D = 1 .. Len(st) /\ \A i \in D : st[i] \in GoodLots
  BY DEF Stacks
<1>2. IsFiniteSet(D) /\ D \subseteq Nat
  BY <1>1, FS_Interval
<1>3. \A s \in SUBSET D : s # {} => Max(s) \in s
  <2> TAKE s \in SUBSET D
  <2> HAVE s # {}
  <2>1. s \subseteq Nat /\ IsFiniteSet(s)
    BY <1>2, FS_Subset
  <2>2. \E m \in s : \A k \in s : k <= m
    BY <2>1, GreatestExists
  <2>3. \E m \in s : \A k \in s : m >= k
    BY <2>1, <2>2
  <2>4. QED
    BY <2>3 DEF Max
<1>4. \A s \in SUBSET D : s # {} => last[s] \in s
  BY <1>3
<1>5. PICK g : FoldsWith(g, f, NothingTaken(want), last, SUBSET D)
  <2> HIDE DEF f, last, D
  <2>1. QED
    BY <1>2, <1>4, FoldsExist
<1>6. NothingTaken(want) \in Closings
  BY DEF NothingTaken, Closings, Stacks
<1>7. ASSUME NEW s \in SUBSET D, s # {}, g[s \ {Max(s)}] \in Closings
      PROVE  g[s] = TakeFrom(g[s \ {Max(s)}], st[Max(s)], sign) /\ g[s] \in Closings
  <2>1. g[s] = f[<<Max(s), g[s \ {Max(s)}]>>]
    <3> HIDE DEF f
    <3>1. QED
      BY <1>5, <1>7 DEF FoldsWith
  <2>2. Max(s) \in D /\ st[Max(s)] \in GoodLots
    BY <1>1, <1>3, <1>7
  <2>3. <<Max(s), g[s \ {Max(s)}]>> \in D \X Closings
    BY <2>2, <1>7
  <2>4. g[s] = TakeFrom(g[s \ {Max(s)}], st[Max(s)], sign)
    BY <2>1, <2>3
  <2>5. QED
    BY <2>2, <2>4, <1>7, TakesOne
<1> DEFINE G == {s \in SUBSET D : g[s] \in Closings}
<1>8. ASSUME NEW s \in SUBSET D, \A x \in s : s \ {x} \in G
      PROVE  s \in G
  <2>1. CASE s = {}
    <3>1. g[s] = NothingTaken(want)
      BY <1>5, <2>1 DEF FoldsWith
    <3>2. QED
      BY <1>6, <3>1
  <2>2. CASE s # {}
    <3>1. g[s \ {Max(s)}] \in Closings
      BY <1>3, <1>8, <2>2
    <3>2. g[s] \in Closings
      BY <2>2, <3>1, <1>7
    <3>3. QED
      BY <3>2
  <2>3. QED
    BY <2>1, <2>2
<1>9. SUBSET D \subseteq G
  <2> HIDE DEF G, D
  <2>1. QED
    BY <1>2, <1>8, SubsetInduction
<1>10. Closes(g, st, want, sign)
  <2>1. ASSUME NEW s \in SUBSET D
        PROVE  g[s] = IF s = {} THEN NothingTaken(want)
                      ELSE TakeFrom(g[s \ {Max(s)}], st[Max(s)], sign)
    <3>1. CASE s = {}
      BY <1>5, <3>1 DEF FoldsWith
    <3>2. CASE s # {}
      <4>1. s \ {Max(s)} \in G
        BY <1>9
      <4>2. QED
        BY <3>2, <4>1, <1>7
    <3>3. QED
      BY <3>1, <3>2
  <2>2. g = [s \in SUBSET D |-> g[s]]
    BY <1>5 DEF FoldsWith
  <2> HIDE DEF G, f, last
  <2>3. g = [s \in SUBSET D |-> IF s = {} THEN NothingTaken(want)
                                ELSE TakeFrom(g[s \ {Max(s)}], st[Max(s)], sign)]
    BY <2>1, <2>2
  <2>4. QED
    BY <2>3 DEF Closes
<1>11. Consume(st, want, sign) = (CHOOSE h : Closes(h, st, want, sign))[DOMAIN st]
  BY Zenon DEF Consume, FoldLeft, MapThenFoldSet, Closes, NothingTaken
<1>12. QED
  BY <1>10, <1>11, Zenon

(* What closing does: shares and cost go where they are needed, what is    *)
(* not closed for lack of lots leaves none on that side.                   *)
LEMMA ConsumeMoves ==
  ASSUME NEW st \in Stacks, NEW want \in Nat, NEW sign \in {1, -1},
         NEW c, c = Consume(st, want, sign)
  PROVE  /\ c \in Closings /\ c.need <= want
         /\ Cost(c.stack) + c.cost = Cost(st)
         /\ sign = 1 => Shares(c.stack) = Shares(st) - (want - c.need)
         /\ sign = -1 => Shares(c.stack) = Shares(st) + (want - c.need)
         /\ \A v \in {1, -1} : OnSide(st, v) => OnSide(c.stack, v)
         /\ c.need > 0 => OnSide(c.stack, -sign)
<1>1. PICK g : Closes(g, st, want, sign) /\ c = g[DOMAIN st]
  BY ConsumeFolds
<1> DEFINE n == Len(st)
           a(k) == g[1 .. k]
           qs == [i \in DOMAIN st |-> st[i].qty]
           cs == [i \in DOMAIN st |-> st[i].cost]
           Fine(k) ==
             /\ a(k) \in Closings /\ a(k).need <= want
             /\ Cost(a(k).stack) + a(k).cost = Total(cs, 1 .. k)
             /\ sign = 1 => Shares(a(k).stack) - a(k).need = Total(qs, 1 .. k) - want
             /\ sign = -1 => Shares(a(k).stack) + a(k).need = Total(qs, 1 .. k) + want
             /\ \A v \in {1, -1} : OnSide(st, v) => OnSide(a(k).stack, v)
             /\ a(k).need > 0 => OnSide(a(k).stack, -sign)
           Bad == {k \in 0 .. n : ~Fine(k)}
<1>2. /\ n \in Nat /\ DOMAIN st = 1 .. n
      /\ \A i \in 1 .. n : st[i] \in GoodLots /\ qs[i] = st[i].qty /\ cs[i] = st[i].cost
                           /\ qs[i] \in Int /\ cs[i] \in Int
  <2>1. n \in Nat /\ DOMAIN st = 1 .. n /\ \A i \in 1 .. n : st[i] \in GoodLots
    BY DEF Stacks
  <2>2. \A l \in GoodLots : l.qty \in Int /\ l.cost \in Int
    BY DEF GoodLots, LotRecord
  <2>3. QED
    BY <2>1, <2>2
<1>3. Shares(st) = Total(qs, 1 .. n) /\ Cost(st) = Total(cs, 1 .. n)
  <2>1. Shares(st) = SumFunction(qs) /\ Cost(st) = SumFunction(cs)
    BY Zenon DEF Shares, Cost, SumOver
  <2>2. DOMAIN qs = 1 .. n /\ DOMAIN cs = 1 .. n
    BY <1>2
  <2> HIDE DEF qs, cs
  <2>3. QED
    BY <2>1, <2>2, SumIsTotal
<1>4. Fine(0)
  <2>1. 1 .. 0 = {}
    OBVIOUS
  <2>2. a(0) = NothingTaken(want)
    BY <1>1, <2>1 DEF Closes
  <2>3. a(0) \in Closings /\ a(0).need = want /\ a(0).cost = 0 /\ a(0).stack = <<>>
    BY <2>2 DEF NothingTaken, Closings, Stacks
  <2>4. Total(qs, 1 .. 0) = 0 /\ Total(cs, 1 .. 0) = 0
    BY <2>1, TotalEmpty
  <2>5. \A v : OnSide(<<>>, v)
    BY DEF OnSide
  <2> HIDE DEF a, qs, cs
  <2>6. QED
    BY <2>3, <2>4, <2>5, EmptySums
<1>5. ASSUME NEW k \in 0 .. n - 1, Fine(k) PROVE Fine(k + 1)
  <2>1. k \in Nat /\ k + 1 \in Nat \ {0} /\ k + 1 \in 1 .. n /\ (k + 1) - 1 = k
    BY <1>2
  <2>2. Max(1 .. k + 1) = k + 1 /\ (1 .. k + 1) \ {k + 1} = 1 .. k
    BY <2>1, LastOf
  <2>3. a(k + 1) = TakeFrom(a(k), st[k + 1], sign)
    <3>1. 1 .. k + 1 \in SUBSET DOMAIN st /\ 1 .. k + 1 # {}
      BY <1>2, <2>1
    <3>2. QED
      BY <1>1, <2>2, <3>1 DEF Closes
  <2>4. st[k + 1] \in GoodLots /\ st[k + 1].qty = qs[k + 1] /\ st[k + 1].cost = cs[k + 1]
        /\ qs[k + 1] \in Int /\ cs[k + 1] \in Int
    BY <1>2, <2>1
  <2>5. \A v \in {1, -1} : OnSide(st, v) => st[k + 1].qty * v > 0
    BY <1>2, <2>1 DEF OnSide
  <2>6. /\ Total(qs, 1 .. k + 1) = Total(qs, 1 .. k) + qs[k + 1]
        /\ Total(cs, 1 .. k + 1) = Total(cs, 1 .. k) + cs[k + 1]
        /\ Total(qs, 1 .. k) \in Int /\ Total(cs, 1 .. k) \in Int
    <3>1. \A i \in 1 .. k + 1 : qs[i] \in Int /\ cs[i] \in Int
      BY <1>2, <2>1
    <3>2. IsFiniteSet(1 .. k) /\ \A i \in 1 .. k : qs[i] \in Int /\ cs[i] \in Int
      <4>1. \A i \in 1 .. k : i \in 1 .. k + 1
        BY <2>1
      <4>2. IsFiniteSet(1 .. k)
        BY <2>1, FS_Interval
      <4> HIDE DEF qs, cs
      <4>3. QED
        BY <3>1, <4>1, <4>2
    <3> HIDE DEF qs, cs
    <3>3. QED
      BY <2>1, <3>1, <3>2, TotalUpTo, TotalType
  <2>7. Fine(k)
    BY <1>5
  <2> DEFINE A == a(k)
             B == a(k + 1)
             l == st[k + 1]
  <2>8. /\ A \in Closings /\ B = TakeFrom(A, l, sign) /\ l \in GoodLots
        /\ A.need <= want /\ l.qty = qs[k + 1] /\ l.cost = cs[k + 1]
        /\ Cost(A.stack) + A.cost = Total(cs, 1 .. k)
        /\ sign = 1 => Shares(A.stack) - A.need = Total(qs, 1 .. k) - want
        /\ sign = -1 => Shares(A.stack) + A.need = Total(qs, 1 .. k) + want
        /\ \A v \in {1, -1} : OnSide(st, v) => OnSide(A.stack, v) /\ l.qty * v > 0
        /\ A.need > 0 => OnSide(A.stack, -sign)
    BY <2>3, <2>4, <2>5, <2>7
  <2> HIDE DEF A, B, l, qs, cs
  <2>9. /\ B \in Closings /\ B.need <= A.need
        /\ Cost(B.stack) + B.cost = Cost(A.stack) + A.cost + l.cost
        /\ sign = 1 => Shares(B.stack) - B.need = Shares(A.stack) - A.need + l.qty
        /\ sign = -1 => Shares(B.stack) + B.need = Shares(A.stack) + A.need + l.qty
        /\ \A v \in {1, -1} : OnSide(A.stack, v) /\ l.qty * v > 0 => OnSide(B.stack, v)
        /\ B.need > 0 /\ OnSide(A.stack, -sign) => OnSide(B.stack, -sign)
    BY <2>8, TakesOne
  <2>10. /\ A.need \in Nat /\ B.need \in Nat /\ A.cost \in Int /\ B.cost \in Int
         /\ Shares(A.stack) \in Int /\ Shares(B.stack) \in Int /\ Cost(A.stack) \in Int /\ Cost(B.stack) \in Int
    BY <2>8, <2>9, StackSums DEF Closings
  <2>11. /\ B.need <= want
         /\ Cost(B.stack) + B.cost = Total(cs, 1 .. k + 1)
         /\ sign = 1 => Shares(B.stack) - B.need = Total(qs, 1 .. k + 1) - want
         /\ sign = -1 => Shares(B.stack) + B.need = Total(qs, 1 .. k + 1) + want
    <3>1. B.need <= want
      <4>1. B.need <= A.need /\ A.need <= want
        BY <2>8, <2>9
      <4>2. QED
        BY ONLY <2>10, <4>1, want \in Nat
    <3>2. Cost(B.stack) + B.cost = Total(cs, 1 .. k + 1)
      <4>1. /\ Cost(B.stack) + B.cost = Cost(A.stack) + A.cost + l.cost
            /\ Cost(A.stack) + A.cost = Total(cs, 1 .. k) /\ l.cost = cs[k + 1]
        BY <2>8, <2>9
      <4>2. QED
        BY <2>4, <2>6, <2>10, <4>1
    <3> DEFINE a1 == Shares(A.stack)
               b1 == Shares(B.stack)
               m == A.need
               p == B.need
               t == Total(qs, 1 .. k)
               u == Total(qs, 1 .. k + 1)
               x == qs[k + 1]
    <3>3. /\ a1 \in Int /\ b1 \in Int /\ m \in Int /\ p \in Int /\ t \in Int /\ x \in Int /\ u = t + x
          /\ sign = 1 => a1 - m = t - want /\ b1 - p = a1 - m + x
          /\ sign = -1 => a1 + m = t + want /\ b1 + p = a1 + m + x
      <4>1. a1 \in Int /\ b1 \in Int /\ m \in Int /\ p \in Int /\ t \in Int /\ x \in Int /\ u = t + x
        <5>1. a1 \in Int /\ b1 \in Int /\ m \in Int /\ p \in Int
          BY <2>10
        <5>2. t \in Int /\ u = t + x
          BY <2>6
        <5>3. x \in Int
          BY <2>4
        <5>4. QED
          BY <5>1, <5>2, <5>3
      <4>2. /\ sign = 1 => a1 - m = t - want
            /\ sign = -1 => a1 + m = t + want
        BY <2>8
      <4>3. /\ sign = 1 => b1 - p = a1 - m + x
            /\ sign = -1 => b1 + p = a1 + m + x
        BY <2>8, <2>9
      <4>4. QED
        BY <4>1, <4>2, <4>3
    <3>4. (sign = 1 => b1 - p = u - want) /\ (sign = -1 => b1 + p = u + want)
      <4> HIDE DEF a1, b1, m, p, t, u, x
      <4>1. QED
        BY ONLY <3>3, want \in Nat
    <3>5. QED
      BY <3>1, <3>2, <3>3, <3>4
  <2>12. \A v \in {1, -1} : OnSide(st, v) => OnSide(B.stack, v)
    BY <2>8, <2>9
  <2>13. B.need > 0 => OnSide(B.stack, -sign)
    <3>1. B.need > 0 => A.need > 0
      <4>1. B.need <= A.need
        BY <2>9
      <4>2. QED
        BY ONLY <2>10, <4>1
    <3>2. QED
      BY <2>8, <2>9, <3>1
  <2>14. QED
    BY <2>9, <2>11, <2>12, <2>13 DEF B
<1>6. Fine(n)
  <2> HIDE DEF Fine
  <2>1. SUFFICES Bad = {}
    BY <1>2
  <2>2. SUFFICES ASSUME Bad # {} PROVE FALSE
    OBVIOUS
  <2>3. PICK m \in Bad : \A k \in Bad : m <= k
    <3>1. Bad \subseteq Nat
      OBVIOUS
    <3> HIDE DEF Bad
    <3>2. QED
      BY <2>2, <3>1, LeastExists
  <2>4. m \in 0 .. n /\ ~Fine(m) /\ m # 0
    BY <1>4
  <2>5. PICK k \in 0 .. n - 1 : m = k + 1
    BY <1>2, <2>4
  <2>6. ~(m <= k) /\ k \in 0 .. n
    BY <1>2, <2>5
  <2>7. k \notin Bad
    BY <2>3, <2>6
  <2>8. Fine(k)
    BY <2>6, <2>7
  <2>9. QED
    BY <1>5, <2>4, <2>5, <2>8
<1>7. a(n) = c
  BY <1>1, <1>2
<1> HIDE DEF a, qs, cs
<1>8. c \in Closings /\ c.need \in Nat /\ Shares(c.stack) \in Int
  BY <1>6, <1>7, StackSums DEF Closings
<1>9. Shares(st) \in Int
  BY StackSums
<1>10. /\ c \in Closings /\ c.need <= want /\ Cost(c.stack) + c.cost = Cost(st)
       /\ \A v \in {1, -1} : OnSide(st, v) => OnSide(c.stack, v)
       /\ c.need > 0 => OnSide(c.stack, -sign)
  BY <1>3, <1>6, <1>7
<1>11. /\ sign = 1 => Shares(c.stack) - c.need = Shares(st) - want
       /\ sign = -1 => Shares(c.stack) + c.need = Shares(st) + want
  BY <1>3, <1>6, <1>7
<1>12. /\ sign = 1 => Shares(c.stack) = Shares(st) - (want - c.need)
       /\ sign = -1 => Shares(c.stack) = Shares(st) + (want - c.need)
  <2> DEFINE x == Shares(c.stack)
             y == Shares(st)
             m == c.need
  <2>1. /\ x \in Int /\ y \in Int /\ m \in Int
        /\ sign = 1 => x - m = y - want
        /\ sign = -1 => x + m = y + want
    BY <1>8, <1>9, <1>11
  <2> HIDE DEF x, y, m
  <2>2. (sign = 1 => x = y - (want - m)) /\ (sign = -1 => x = y + (want - m))
    BY ONLY <2>1, want \in Nat
  <2>3. QED
    BY <2>2 DEF x, y, m
<1>13. QED
  BY <1>10, <1>12

OneSided(st) == OnSide(st, 1) \/ OnSide(st, -1)

LEMMA NewLot ==
  ASSUME NEW q \in Int, q # 0, NEW c \in Int, SignOK(q, c)
  PROVE  Lot(q, c) \in GoodLots /\ Lot(q, c).qty = q /\ Lot(q, c).cost = c
<1> DEFINE l == Lot(q, c)
<1>1. l.qty0 = q /\ l.qty = q /\ l.cost0 = c /\ l.cost = c /\ l \in LotRecord
  BY DEF Lot, LotRecord
<1>2. c * Abs(q) <= c * Abs(q)
  <2>1. c * Abs(q) \in Int
    BY DEF Abs
  <2>2. QED
    BY <2>1
<1> HIDE DEF l
<1>3. GoodLot(l)
  BY <1>1, <1>2 DEF GoodLot
<1>4. QED
  BY <1>1, <1>3 DEF GoodLots, l

\* all lots on one side count as one sign
LEMMA SideSums ==
  ASSUME NEW st \in Stacks
  PROVE  /\ OnSide(st, 1) => Shares(st) \in Nat /\ Cost(st) \in Nat
         /\ OnSide(st, -1) => -Shares(st) \in Nat /\ -Cost(st) \in Nat
<1> DEFINE n == Len(st)
           qs == [i \in DOMAIN st |-> st[i].qty]
           cs == [i \in DOMAIN st |-> st[i].cost]
           mq == [i \in DOMAIN st |-> -st[i].qty]
           mc == [i \in DOMAIN st |-> -st[i].cost]
<1>1. n \in Nat /\ DOMAIN st = 1 .. n /\ \A i \in 1 .. n : st[i] \in GoodLots
  BY DEF Stacks
<1>2. \A l \in GoodLots : l.qty \in Int /\ l.cost \in Int /\ SignOK(l.qty, l.cost)
  BY DEF GoodLots, GoodLot, LotRecord
<1>3. \A i \in 1 .. n : /\ qs[i] = st[i].qty /\ cs[i] = st[i].cost /\ qs[i] \in Int /\ cs[i] \in Int
                        /\ mq[i] = -st[i].qty /\ mc[i] = -st[i].cost /\ mq[i] \in Int /\ mc[i] \in Int
                        /\ SignOK(qs[i], cs[i])
  BY <1>1, <1>2
<1>4. Shares(st) = Total(qs, 1 .. n) /\ Cost(st) = Total(cs, 1 .. n)
  <2>1. Shares(st) = SumFunction(qs) /\ Cost(st) = SumFunction(cs)
    BY Zenon DEF Shares, Cost, SumOver
  <2>2. DOMAIN qs = 1 .. n /\ DOMAIN cs = 1 .. n
    BY <1>1
  <2> HIDE DEF qs, cs
  <2>3. QED
    BY <2>1, <2>2, SumIsTotal
<1>5. IsFiniteSet(1 .. n)
  BY <1>1, FS_Interval
<1>6. ASSUME OnSide(st, 1) PROVE Shares(st) \in Nat /\ Cost(st) \in Nat
  <2>1. \A i \in 1 .. n : qs[i] \in Nat /\ cs[i] \in Nat
    <3> TAKE i \in 1 .. n
    <3>1. st[i].qty * 1 > 0
      BY <1>1, <1>6 DEF OnSide
    <3>2. qs[i] = st[i].qty /\ qs[i] \in Int /\ cs[i] \in Int /\ SignOK(qs[i], cs[i])
      BY <1>3
    <3> HIDE DEF qs, cs
    <3>3. qs[i] > 0
      BY <3>1, <3>2
    <3>4. QED
      BY <3>2, <3>3 DEF SignOK
  <2> HIDE DEF qs, cs
  <2>2. QED
    BY <1>4, <1>5, <2>1, TotalType
<1>7. ASSUME OnSide(st, -1) PROVE -Shares(st) \in Nat /\ -Cost(st) \in Nat
  <2>1. \A i \in 1 .. n : mq[i] \in Nat /\ mc[i] \in Nat /\ mq[i] = -qs[i] /\ mc[i] = -cs[i]
    <3> TAKE i \in 1 .. n
    <3>1. st[i].qty * (-1) > 0
      BY <1>1, <1>7 DEF OnSide
    <3>2. /\ qs[i] = st[i].qty /\ cs[i] = st[i].cost /\ qs[i] \in Int /\ cs[i] \in Int
          /\ mq[i] = -st[i].qty /\ mc[i] = -st[i].cost /\ SignOK(qs[i], cs[i])
      BY <1>3
    <3> HIDE DEF qs, cs, mq, mc
    <3>3. qs[i] < 0
      BY <3>1, <3>2
    <3>4. cs[i] <= 0
      BY <3>2, <3>3 DEF SignOK
    <3>5. QED
      BY <3>2, <3>3, <3>4
  <2> HIDE DEF qs, cs, mq, mc
  <2>2. Total(mq, 1 .. n) \in Nat /\ Total(mc, 1 .. n) \in Nat
    BY <1>5, <2>1, TotalType
  <2>3. Total(mq, 1 .. n) = -Total(qs, 1 .. n) /\ Total(mc, 1 .. n) = -Total(cs, 1 .. n)
    <3>1. \A i \in 1 .. n : mq[i] \in Int /\ qs[i] \in Int /\ mq[i] = -qs[i]
      BY <1>3, <2>1
    <3>2. \A i \in 1 .. n : mc[i] \in Int /\ cs[i] \in Int /\ mc[i] = -cs[i]
      BY <1>3, <2>1
    <3>3. Total(mq, 1 .. n) = -Total(qs, 1 .. n)
      BY ONLY <1>5, <3>1, TotalMinus
    <3>4. Total(mc, 1 .. n) = -Total(cs, 1 .. n)
      BY ONLY <1>5, <3>2, TotalMinus
    <3>5. QED
      BY <3>3, <3>4
  <2>4. QED
    BY <1>4, <2>2, <2>3
<1>8. QED
  BY <1>6, <1>7

(* A fill of the market maker closes the other side and opens this one;    *)
(* its cash is realized or in the cost of what it opened.                  *)
LEMMA SignedFillMoves ==
  ASSUME NEW st \in Stacks, OneSided(st), NEW q \in Int, q # 0, NEW c \in Int, SignOK(q, -c),
         NEW d, d = SignedFill(st, q, c)
  PROVE  /\ d.stack \in Stacks /\ OneSided(d.stack) /\ ~d.short /\ d.realized \in Int
         /\ Shares(d.stack) = Shares(st) + q
         /\ d.realized - Cost(d.stack) = c - Cost(st)
<1> DEFINE n == Abs(q)
           cs == IF q > 0 THEN -1 ELSE 1
           k == Consume(st, n, cs)
           sign == IF q > 0 THEN 1 ELSE -1
           closed == n - k.need
           cash1 == IF k.need = 0 THEN c
                    ELSE IF q > 0 THEN -CeilDiv((-c) * closed, n) ELSE (c * closed) \div n
           new == Lot(sign * k.need, -(c - cash1))
<1>1. n \in Nat \ {0} /\ cs \in {1, -1} /\ sign \in {1, -1} /\ cs = -sign /\ q = sign * n
  BY DEF Abs
<1>2. d = [stack |-> IF k.need = 0 THEN k.stack ELSE Append(k.stack, new),
           realized |-> cash1 - k.cost, short |-> FALSE]
  BY DEF SignedFill
<1> HIDE DEF cs
<1>3. /\ k \in Closings /\ k.need <= n
      /\ Cost(k.stack) + k.cost = Cost(st)
      /\ cs = 1 => Shares(k.stack) = Shares(st) - (n - k.need)
      /\ cs = -1 => Shares(k.stack) = Shares(st) + (n - k.need)
      /\ \A v \in {1, -1} : OnSide(st, v) => OnSide(k.stack, v)
      /\ k.need > 0 => OnSide(k.stack, -cs)
  <2>1. n \in Nat /\ cs \in {1, -1}
    BY <1>1
  <2>2. k = Consume(st, n, cs)
    OBVIOUS
  <2> HIDE DEF k, n, sign
  <2>3. k \in Closings
    BY ONLY <2>1, <2>2, st \in Stacks, ConsumeMoves
  <2>4. k.need <= n
    BY ONLY <2>1, <2>2, st \in Stacks, ConsumeMoves
  <2>5. Cost(k.stack) + k.cost = Cost(st)
    BY ONLY <2>1, <2>2, st \in Stacks, ConsumeMoves
  <2>6. /\ cs = 1 => Shares(k.stack) = Shares(st) - (n - k.need)
        /\ cs = -1 => Shares(k.stack) = Shares(st) + (n - k.need)
    BY ONLY <2>1, <2>2, st \in Stacks, ConsumeMoves
  <2>7. \A v \in {1, -1} : OnSide(st, v) => OnSide(k.stack, v)
    BY ONLY <2>1, <2>2, st \in Stacks, ConsumeMoves
  <2>8. k.need > 0 => OnSide(k.stack, -cs)
    BY ONLY <2>1, <2>2, st \in Stacks, ConsumeMoves
  <2>9. QED
    BY <2>3, <2>4, <2>5, <2>6, <2>7, <2>8
<1> HIDE DEF k
<1>4. k.need \in Nat /\ k.cost \in Int /\ k.stack \in Stacks
  BY <1>3 DEF Closings
<1>5. /\ Shares(st) \in Int /\ Cost(st) \in Int /\ Shares(k.stack) \in Int /\ Cost(k.stack) \in Int
      /\ \A l \in GoodLots : /\ Append(k.stack, l) \in Stacks
                             /\ Shares(Append(k.stack, l)) = Shares(k.stack) + l.qty
                             /\ Cost(Append(k.stack, l)) = Cost(k.stack) + l.cost
  BY <1>4, StackSums DEF Stacks
<1>6. CASE k.need = 0
  <2>1. d.stack = k.stack /\ d.realized = c - k.cost /\ d.short = FALSE
    BY <1>2, <1>6
  <2>2. OneSided(k.stack)
    BY <1>3 DEF OneSided
  <2>3. Shares(k.stack) = Shares(st) + q
    BY <1>1, <1>3, <1>5, <1>6
  <2>4. QED
    BY <1>3, <1>4, <1>5, <2>1, <2>2, <2>3
<1>7. CASE k.need # 0
  <2>1. closed \in Nat /\ closed <= n
    BY <1>1, <1>3, <1>4
  <2>2. cash1 \in Int /\ SignOK(sign * k.need, -(c - cash1))
    <3> HIDE DEF closed, n
    <3>1. CASE q > 0
      <4> DEFINE x == -c
      <4>1. x \in Nat
        BY <3>1 DEF SignOK
      <4>2. x * closed \in Int /\ x * closed <= x * n
        BY <1>1, <2>1, <4>1
      <4> DEFINE e == CeilDiv(x * closed, n)
      <4>3. e \in Int /\ e <= x
        BY <1>1, <4>1, <4>2, CeilBounds
      <4>4. cash1 = -e /\ sign = 1
        BY <1>7, <3>1
      <4> HIDE DEF e, cash1, sign
      <4>5. QED
        BY <1>4, <4>3, <4>4 DEF SignOK
    <3>2. CASE ~(q > 0)
      <4>1. c \in Nat
        BY <3>2 DEF SignOK
      <4>2. c * closed \in Nat /\ c * closed <= c * n
        BY <1>1, <2>1, <4>1
      <4> DEFINE e == (c * closed) \div n
      <4>3. e \in Nat /\ e <= c
        BY <1>1, <4>1, <4>2, FloorBounds
      <4>4. cash1 = e /\ sign = -1
        BY <1>7, <3>2
      <4> HIDE DEF e, cash1, sign
      <4>5. QED
        BY <1>4, <1>7, <4>1, <4>3, <4>4 DEF SignOK
    <3>3. QED
      BY <3>1, <3>2
  <2> HIDE DEF cash1, closed, sign
  <2>3. sign * k.need \in Int /\ sign * k.need # 0 /\ (sign * k.need) * sign > 0
    BY <1>1, <1>4, <1>7
  <2>4. new \in GoodLots /\ new.qty = sign * k.need /\ new.cost = -(c - cash1)
    BY <2>2, <2>3, NewLot
  <2> HIDE DEF new
  <2>5. d.stack = Append(k.stack, new) /\ d.realized = cash1 - k.cost /\ d.short = FALSE
    BY <1>2, <1>7
  <2>6. d.stack \in Stacks /\ Shares(d.stack) = Shares(k.stack) + new.qty
        /\ Cost(d.stack) = Cost(k.stack) + new.cost
    BY <1>5, <2>4, <2>5
  <2>7. OnSide(k.stack, sign)
    <3>1. -cs = sign /\ k.need > 0
      BY <1>1, <1>4, <1>7
    <3>2. QED
      BY <1>3, <3>1
  <2>8. OnSide(d.stack, sign)
    BY <1>4, <2>3, <2>4, <2>5, <2>7, AppendedSide
  <2>9. OneSided(d.stack)
    BY <1>1, <2>8 DEF OneSided
  <2>10. Shares(d.stack) = Shares(st) + q
    <3>1. CASE sign = 1
      BY <1>1, <1>3, <1>4, <1>5, <2>4, <2>6, <3>1
    <3>2. CASE sign = -1
      BY <1>1, <1>3, <1>4, <1>5, <2>4, <2>6, <3>2
    <3>3. QED
      BY <1>1, <3>1, <3>2
  <2>11. d.realized \in Int /\ d.realized - Cost(d.stack) = c - Cost(st)
    <3>1. cash1 \in Int /\ c \in Int
      BY <2>2
    <3>2. d.realized = cash1 - k.cost
      BY <2>5
    <3>3. Cost(d.stack) = Cost(k.stack) - (c - cash1)
      BY <1>5, <2>4, <2>6, <3>1
    <3>4. QED
      BY <1>3, <1>4, <1>5, <3>1, <3>2, <3>3
  <2>12. QED
    BY <2>5, <2>6, <2>9, <2>10, <2>11
<1>8. QED
  BY <1>6, <1>7

(* A fill of the arb strategy, or one side of its conversion: a sell that  *)
(* its lots cover is never refused.                                        *)
LEMMA StrictFillMoves ==
  ASSUME NEW st \in Stacks, OnSide(st, 1), NEW q \in Int, q # 0, NEW c \in Int, q > 0 => c <= 0,
         NEW d, d = StrictFill(st, q, c)
  PROVE  /\ d.stack \in Stacks /\ OnSide(d.stack, 1) /\ d.realized \in Int
         /\ q > 0 => d.realized = 0
         /\ ~d.short => /\ Shares(d.stack) = Shares(st) + q
                        /\ d.realized - Cost(d.stack) = c - Cost(st)
         /\ -q <= Shares(st) => ~d.short
<1>1. /\ Shares(st) \in Int /\ Cost(st) \in Int
      /\ \A l \in GoodLots : /\ Append(st, l) \in Stacks
                             /\ Shares(Append(st, l)) = Shares(st) + l.qty
                             /\ Cost(Append(st, l)) = Cost(st) + l.cost
  BY StackSums DEF Stacks
<1>2. CASE q > 0
  <2>1. d = [stack |-> Append(st, Lot(q, -c)), realized |-> 0, short |-> FALSE]
    BY <1>2 DEF StrictFill
  <2>2. Lot(q, -c) \in GoodLots /\ Lot(q, -c).qty = q /\ Lot(q, -c).cost = -c
    <3>1. -c \in Int /\ SignOK(q, -c)
      BY <1>2 DEF SignOK
    <3>2. QED
      BY <3>1, NewLot
  <2>3. OnSide(d.stack, 1)
    <3>1. Lot(q, -c).qty * 1 > 0
      BY <1>2, <2>2
    <3>2. QED
      BY <2>1, <2>2, <3>1, AppendedSide
  <2>4. QED
    BY <1>1, <1>2, <2>1, <2>2, <2>3
<1>3. CASE ~(q > 0)
  <2> DEFINE k == Consume(st, -q, 1)
  <2>1. d = [stack |-> k.stack, realized |-> c - k.cost, short |-> k.need > 0]
    BY <1>3 DEF StrictFill
  <2>2. /\ k \in Closings /\ k.need <= -q
        /\ Cost(k.stack) + k.cost = Cost(st)
        /\ Shares(k.stack) = Shares(st) - (-q - k.need)
        /\ OnSide(k.stack, 1)
        /\ k.need > 0 => OnSide(k.stack, -1)
    <3>1. -q \in Nat
      BY <1>3
    <3>2. QED
      BY <3>1, ConsumeMoves
  <2> HIDE DEF k
  <2>3. k.need \in Nat /\ k.cost \in Int /\ k.stack \in Stacks
    BY <2>2 DEF Closings
  <2>4. Shares(k.stack) \in Nat /\ Cost(k.stack) \in Int
    BY <2>2, <2>3, SideSums, StackSums
  <2>5. k.need > 0 => Shares(k.stack) = 0
    BY <2>2, <2>3, <2>4, SideSums
  <2>6. -q <= Shares(st) => ~(k.need > 0)
    BY <1>1, <2>2, <2>3, <2>4, <2>5
  <2>7. ~(k.need > 0) => Shares(k.stack) = Shares(st) + q
    BY <1>1, <2>2, <2>3
  <2>8. c - k.cost \in Int /\ (c - k.cost) - Cost(k.stack) = c - Cost(st)
    BY <1>1, <2>2, <2>3, <2>4
  <2>9. QED
    <3>1. d.stack = k.stack /\ d.realized = c - k.cost /\ d.short = (k.need > 0)
      BY <2>1
    <3>2. d.stack \in Stacks /\ OnSide(d.stack, 1) /\ d.realized \in Int
      BY <2>2, <2>3, <2>8, <3>1
    <3>3. ~d.short => Shares(d.stack) = Shares(st) + q /\ d.realized - Cost(d.stack) = c - Cost(st)
      BY <2>7, <2>8, <3>1
    <3>4. -q <= Shares(st) => ~d.short
      BY <2>6, <3>1
    <3>5. QED
      BY <1>3, <3>2, <3>3, <3>4
<1>4. QED
  BY <1>2, <1>3

-----------------------------------------------------------------------------
(* Rows and the queue.                                                     *)

MmRows == {r \in [kind : {"fill"}, strategy : {"mm"}, signed : {TRUE}, token : Outcome,
                  qty : Int \ {0}, cash : Int] : SignOK(r.qty, -r.cash)}
ArbRows == {r \in [kind : {"fill"}, strategy : {"arb"}, signed : {FALSE}, token : Outcome,
                   qty : Int \ {0}, cash : Int] : SignOK(r.qty, -r.cash)}
Conversions == {r \in [kind : {"split", "merge"}, strategy : {"arb"}, units : Nat \ {0}, cash : Int] :
                  r.cash = IF r.kind = "split" THEN -r.units ELSE r.units}
Rows == MmRows \cup ArbRows \cup Conversions

\* what the row of the arb strategy needs, it has
Covered(r, have) ==
  /\ r \in ArbRows => -r.qty <= have[r.token]
  /\ r \in Conversions /\ r.kind = "merge" => \A t \in Outcome : r.units <= have[t]

\* one row of the arb strategy at most, and that one covered
QueueOK(qu, have) ==
  /\ qu \in Seq(Rows)
  /\ \A i, j \in DOMAIN qu : qu[i].strategy = "arb" /\ qu[j].strategy = "arb" => i = j
  /\ \A i \in DOMAIN qu : qu[i].strategy = "arb" => Covered(qu[i], have)

LEMMA CashSigns ==
  ASSUME NEW q \in Int, q # 0, NEW px \in Prices
  PROVE  CashOf(q, px) \in Int /\ SignOK(q, -CashOf(q, px))
<1>1. px \in Nat /\ Share \in Nat \ {0}
  BY LedgerAssumption
<1>2. CASE q > 0
  <2>1. px * q \in Nat
    BY <1>1, <1>2
  <2>2. CeilDiv(px * q, Share) \in Nat
    <3> DEFINE a == px * q
    <3>1. a \in Nat
      BY <2>1
    <3> HIDE DEF a
    <3>2. (a + Share - 1) \div Share \in Nat
      BY <1>1, <3>1
    <3>3. QED
      BY <3>2 DEF CeilDiv, a
  <2>3. CashOf(q, px) = -CeilDiv(px * q, Share)
    BY <1>2 DEF CashOf
  <2>4. QED
    BY <1>2, <2>2, <2>3 DEF SignOK
<1>3. CASE ~(q > 0)
  <2>1. -q \in Nat
    BY <1>3
  <2>2. px * (-q) \in Nat
    BY <1>1, <2>1
  <2>3. (px * (-q)) \div Share \in Nat
    BY <1>1, <2>2, FloorBounds
  <2>4. CashOf(q, px) = (px * (-q)) \div Share
    BY <1>3 DEF CashOf
  <2>5. QED
    BY <1>3, <2>3, <2>4 DEF SignOK
<1>4. QED
  BY <1>2, <1>3

LEMMA RowsAre ==
  /\ \A t \in Outcome, q \in Int \ {0}, c \in Int : SignOK(q, -c) =>
       /\ FillSigned(t, q, c) \in MmRows /\ FillSigned(t, q, c).token = t
       /\ FillSigned(t, q, c).qty = q /\ FillSigned(t, q, c).cash = c
       /\ Fill(t, q, c) \in ArbRows /\ Fill(t, q, c).token = t
       /\ Fill(t, q, c).qty = q /\ Fill(t, q, c).cash = c
  /\ \A n \in Nat \ {0} : /\ Split(n) \in Conversions /\ Split(n).kind = "split"
                          /\ Merge(n) \in Conversions /\ Merge(n).kind = "merge" /\ Merge(n).units = n
  /\ \A r \in MmRows : r.strategy = "mm" /\ r.kind = "fill"
  /\ \A r \in ArbRows : r.strategy = "arb" /\ r.kind = "fill"
  /\ \A r \in Conversions : r.strategy = "arb" /\ r.kind \in {"split", "merge"}
<1>1. \A t \in Outcome, q \in Int \ {0}, c \in Int : SignOK(q, -c) =>
        /\ FillSigned(t, q, c) \in MmRows /\ FillSigned(t, q, c).token = t
        /\ FillSigned(t, q, c).qty = q /\ FillSigned(t, q, c).cash = c
  BY DEF FillSigned, MmRows
<1>2. \A t \in Outcome, q \in Int \ {0}, c \in Int : SignOK(q, -c) =>
        /\ Fill(t, q, c) \in ArbRows /\ Fill(t, q, c).token = t
        /\ Fill(t, q, c).qty = q /\ Fill(t, q, c).cash = c
  <2> TAKE t \in Outcome, q \in Int \ {0}, c \in Int
  <2> HAVE SignOK(q, -c)
  <2> DEFINE r == FillSigned(t, q, c)
  <2>1. r \in [kind : {"fill"}, strategy : {"mm"}, signed : {TRUE}, token : Outcome, qty : Int \ {0}, cash : Int]
        /\ r.token = t /\ r.qty = q /\ r.cash = c
    BY DEF FillSigned
  <2>2. Fill(t, q, c) = [r EXCEPT !.strategy = "arb", !.signed = FALSE]
    BY DEF Fill
  <2> HIDE DEF r
  <2>3. /\ Fill(t, q, c) \in [kind : {"fill"}, strategy : {"arb"}, signed : {FALSE}, token : Outcome,
                               qty : Int \ {0}, cash : Int]
        /\ Fill(t, q, c).token = t /\ Fill(t, q, c).qty = q /\ Fill(t, q, c).cash = c
    BY <2>1, <2>2
  <2>4. QED
    BY <2>3 DEF ArbRows
<1>3. \A n \in Nat \ {0} : /\ Split(n) \in Conversions /\ Split(n).kind = "split"
                           /\ Merge(n) \in Conversions /\ Merge(n).kind = "merge" /\ Merge(n).units = n
  BY DEF Split, Merge, Conversions
<1>4. \A r \in MmRows : r.strategy = "mm" /\ r.kind = "fill"
  BY DEF MmRows
<1>5. \A r \in ArbRows : r.strategy = "arb" /\ r.kind = "fill"
  BY DEF ArbRows
<1>6. \A r \in Conversions : r.strategy = "arb" /\ r.kind \in {"split", "merge"}
  BY DEF Conversions
<1>7. \A t \in Outcome, q \in Int \ {0}, c \in Int : SignOK(q, -c) =>
       /\ FillSigned(t, q, c) \in MmRows /\ FillSigned(t, q, c).token = t
       /\ FillSigned(t, q, c).qty = q /\ FillSigned(t, q, c).cash = c
       /\ Fill(t, q, c) \in ArbRows /\ Fill(t, q, c).token = t
       /\ Fill(t, q, c).qty = q /\ Fill(t, q, c).cash = c
  BY ONLY <1>1, <1>2
<1>8. QED
  BY <1>3, <1>4, <1>5, <1>6, <1>7, Zenon

(* A row goes in at the end.                                               *)
LEMMA QueueSends ==
  ASSUME NEW qu, NEW have, QueueOK(qu, have), NEW r \in Rows,
         r.strategy = "arb" => Covered(r, have) /\ ~\E i \in DOMAIN qu : qu[i].strategy = "arb"
  PROVE  QueueOK(Append(qu, r), have)
<1> DEFINE new == Append(qu, r)
           n == Len(qu)
<1>1. qu \in Seq(Rows) /\ n \in Nat /\ DOMAIN qu = 1 .. n
  BY DEF QueueOK
<1>2. new \in Seq(Rows) /\ DOMAIN new = 1 .. n + 1 /\ new[n + 1] = r /\ \A i \in 1 .. n : new[i] = qu[i]
  BY <1>1
<1> HIDE DEF new, n
<1>3. \A i \in 1 .. n + 1 : i \in 1 .. n \/ i = n + 1
  BY <1>1
<1>4. \A i, j \in DOMAIN new : new[i].strategy = "arb" /\ new[j].strategy = "arb" => i = j
  BY <1>1, <1>2, <1>3 DEF QueueOK
<1>5. \A i \in DOMAIN new : new[i].strategy = "arb" => Covered(new[i], have)
  BY <1>1, <1>2, <1>3 DEF QueueOK
<1>6. QED
  BY <1>2, <1>4, <1>5 DEF QueueOK, new

(* The first row comes out; if it was the arb strategy's, none is left.    *)
LEMMA QueueTakes ==
  ASSUME NEW qu, NEW have, QueueOK(qu, have), qu # <<>>
  PROVE  /\ Head(qu) \in Rows /\ QueueOK(Tail(qu), have)
         /\ Head(qu).strategy = "arb" => /\ Covered(Head(qu), have)
                                         /\ \A other : QueueOK(Tail(qu), other)
<1> DEFINE new == Tail(qu)
<1>1. qu \in Seq(Rows)
  BY DEF QueueOK
<1>2. PICK n \in Nat : Len(qu) = n + 1
  <2>1. Len(qu) \in Nat /\ Len(qu) # 0
    BY <1>1
  <2>2. Len(qu) - 1 \in Nat /\ Len(qu) = (Len(qu) - 1) + 1
    BY <2>1
  <2>3. QED
    BY <2>2
<1>3. DOMAIN qu = 1 .. n + 1 /\ Head(qu) = qu[1] /\ qu[1] \in Rows
  BY <1>1, <1>2
<1>4. new \in Seq(Rows) /\ DOMAIN new = 1 .. n /\ \A i \in 1 .. n : new[i] = qu[i + 1]
  BY <1>1, <1>2
<1> HIDE DEF new
<1>5. \A i \in 1 .. n : i + 1 \in 1 .. n + 1 /\ i + 1 # 1 /\ 1 \in 1 .. n + 1
  BY <1>2
<1>6. \A i, j \in 1 .. n : i + 1 = j + 1 => i = j
  BY <1>2
<1>7. QueueOK(new, have)
  <2>1. \A i, j \in DOMAIN new : new[i].strategy = "arb" /\ new[j].strategy = "arb" => i = j
    <3> TAKE i, j \in DOMAIN new
    <3> HAVE new[i].strategy = "arb" /\ new[j].strategy = "arb"
    <3>1. i \in 1 .. n /\ j \in 1 .. n /\ i + 1 \in DOMAIN qu /\ j + 1 \in DOMAIN qu
      BY <1>3, <1>4, <1>5
    <3>2. qu[i + 1].strategy = "arb" /\ qu[j + 1].strategy = "arb"
      BY <1>4, <3>1
    <3>3. i + 1 = j + 1
      BY <3>1, <3>2 DEF QueueOK
    <3>4. QED
      BY <1>6, <3>1, <3>3
  <2>2. \A i \in DOMAIN new : new[i].strategy = "arb" => Covered(new[i], have)
    BY <1>3, <1>4, <1>5 DEF QueueOK
  <2>3. QED
    BY <1>4, <2>1, <2>2 DEF QueueOK
<1>8. ASSUME Head(qu).strategy = "arb"
      PROVE  Covered(Head(qu), have) /\ \A other : QueueOK(new, other)
  <2>1. 1 \in 1 .. n + 1
    BY <1>2
  <2>2. Covered(Head(qu), have)
    BY <1>3, <1>8, <2>1 DEF QueueOK
  <2>3. \A i \in DOMAIN new : new[i].strategy # "arb"
    BY <1>3, <1>4, <1>5, <1>8, <2>1 DEF QueueOK
  <2>4. QED
    BY <1>4, <2>2, <2>3 DEF QueueOK
<1>9. QED
  BY <1>3, <1>7, <1>8 DEF new

\* shares of the market maker on their way to the store
Amount(r, t) == IF r.strategy = "mm" /\ r.token = t THEN r.qty ELSE 0
OnTheWay(qu, t) == SumFunction([i \in DOMAIN qu |-> Amount(qu[i], t)])

LEMMA AmountsAre ==
  ASSUME NEW r \in Rows, NEW t
  PROVE  /\ Amount(r, t) \in Int
         /\ r \in MmRows => Amount(r, t) = IF r.token = t THEN r.qty ELSE 0
         /\ r \notin MmRows => Amount(r, t) = 0
<1>1. r \in MmRows => r.qty \in Int /\ r.strategy = "mm"
  BY DEF MmRows
<1>2. r \notin MmRows => r.strategy = "arb"
  BY RowsAre DEF Rows
<1>3. QED
  BY <1>1, <1>2 DEF Amount

LEMMA WaysAre ==
  ASSUME NEW qu \in Seq(Rows), NEW t
  PROVE  /\ OnTheWay(qu, t) \in Int
         /\ \A r \in Rows : OnTheWay(Append(qu, r), t) = OnTheWay(qu, t) + Amount(r, t)
         /\ qu # <<>> => OnTheWay(Tail(qu), t) = OnTheWay(qu, t) - Amount(Head(qu), t)
<1> DEFINE f(s) == [i \in DOMAIN s |-> Amount(s[i], t)]
<1>1. \A s : OnTheWay(s, t) = SumFunction(f(s))
  BY Zenon DEF OnTheWay
<1>2. f(qu) \in Seq(Int)
  <2>1. Len(qu) \in Nat /\ DOMAIN qu = 1 .. Len(qu) /\ \A i \in DOMAIN qu : qu[i] \in Rows
    OBVIOUS
  <2>2. \A i \in 1 .. Len(qu) : Amount(qu[i], t) \in Int
    BY <2>1, AmountsAre
  <2>3. QED
    BY <2>1, <2>2
<1>3. ASSUME NEW r \in Rows
      PROVE  OnTheWay(Append(qu, r), t) = OnTheWay(qu, t) + Amount(r, t)
  <2>1. Amount(r, t) \in Int
    BY AmountsAre
  <2>2. f(Append(qu, r)) = Append(f(qu), Amount(r, t))
    BY <1>2, <2>1
  <2> HIDE DEF f
  <2>3. QED
    BY <1>1, <1>2, <2>1, <2>2, SumAppended
<1>4. OnTheWay(qu, t) \in Int
  <2> HIDE DEF f
  <2>1. 0 \in Int
    OBVIOUS
  <2>2. QED
    BY <1>1, <1>2, <2>1, SumAppended
<1>5. ASSUME qu # <<>>
      PROVE  OnTheWay(Tail(qu), t) = OnTheWay(qu, t) - Amount(Head(qu), t)
  <2>1. Head(qu) \in Rows /\ Head(qu) = qu[1]
    BY <1>5
  <2>2. f(qu)[1] = Amount(Head(qu), t) /\ f(qu) # <<>>
    BY <1>2, <1>5, <2>1
  <2>3. f(Tail(qu)) = Tail(f(qu))
    <3>1. Len(qu) \in Nat \ {0} /\ Len(f(qu)) = Len(qu) /\ Tail(qu) \in Seq(Rows)
      BY <1>2, <1>5
    <3>2. DOMAIN f(Tail(qu)) = 1 .. Len(qu) - 1 /\ DOMAIN Tail(f(qu)) = 1 .. Len(qu) - 1
      BY <1>2, <3>1
    <3>3. \A i \in 1 .. Len(qu) - 1 : f(Tail(qu))[i] = Amount(qu[i + 1], t) /\ Tail(f(qu))[i] = Amount(qu[i + 1], t)
      BY <1>2, <3>1
    <3>4. f(Tail(qu)) \in Seq(Int) /\ Tail(f(qu)) \in Seq(Int)
      <4>1. \A i \in 1 .. Len(qu) - 1 : Amount(Tail(qu)[i], t) \in Int
        BY <3>1, AmountsAre
      <4>2. QED
        BY <1>2, <2>2, <3>1, <4>1
    <3>5. QED
      BY <3>2, <3>3, <3>4
  <2>4. Amount(Head(qu), t) \in Int
    BY <2>1, AmountsAre
  <2> HIDE DEF f
  <2>5. QED
    BY <1>1, <1>2, <2>2, <2>3, <2>4, SumDropped
<1>6. QED
  BY <1>3, <1>4, <1>5
-----------------------------------------------------------------------------
(* The invariant.                                                          *)

TypeInv ==
  /\ inv \in [Outcome -> InventoryRecord] /\ held \in [Outcome -> Nat]
  /\ moved \in [Outcome -> Int] /\ merged \in [Outcome -> Int] /\ lost \in [Outcome -> Int]
  /\ booked \in [Strategy -> Int] /\ cash \in [Strategy -> Int]
  /\ lots \in [Strategy -> [Outcome -> Stacks]]

\* one side per stack; the arb strategy is long, by at least what it counts on
SidesInv ==
  \A t \in Outcome : /\ OneSided(lots["mm"][t])
                     /\ OnSide(lots["arb"][t], 1) /\ held[t] <= Shares(lots["arb"][t])

StoreInv == \A s \in Strategy : booked[s] - (Cost(lots[s][Yes]) + Cost(lots[s][No])) = cash[s]
MakerInv == \A t \in Outcome : inv[t].realized - inv[t].basis = moved[t] /\ SignAgrees(inv[t])
WaysInv ==
  \A t \in Outcome : Shares(lots["mm"][t]) + OnTheWay(queue, t) + lost[t] = inv[t].net + merged[t]

LedgerInv ==
  TypeInv /\ SidesInv /\ QueueOK(queue, held) /\ StoreInv /\ MakerInv /\ WaysInv /\ NoOversell

LEMMA Outcomes == Outcome = {Yes, No} /\ Yes # No /\ Strategy = {"arb", "mm"}
BY LedgerAssumption DEF Outcome, Strategy

LEMMA FlatIs ==
  /\ Flat \in InventoryRecord /\ Flat.net = 0 /\ Flat.basis = 0 /\ Flat.realized = 0
  /\ \A n, b \in Int : /\ Seeded(n, b) \in InventoryRecord /\ Seeded(n, b).net = n
                       /\ Seeded(n, b).basis = b /\ Seeded(n, b).realized = 0
<1>1. Flat \in InventoryRecord /\ Flat.net = 0 /\ Flat.basis = 0 /\ Flat.realized = 0
  BY DEF Flat, InventoryRecord
<1>2. ASSUME NEW n \in Int, NEW b \in Int
      PROVE  /\ Seeded(n, b) \in InventoryRecord /\ Seeded(n, b).net = n
             /\ Seeded(n, b).basis = b /\ Seeded(n, b).realized = 0
  BY <1>1 DEF Seeded, InventoryRecord
<1>3. QED
  BY <1>1, <1>2

LEMMA EmptyIs ==
  /\ <<>> \in Stacks /\ \A v : OnSide(<<>>, v)
  /\ \A have : QueueOK(<<>>, have)
  /\ \A t : OnTheWay(<<>>, t) = 0
<1>1. <<>> \in Stacks /\ \A v : OnSide(<<>>, v)
  BY DEF Stacks, OnSide
<1>2. \A have : QueueOK(<<>>, have)
  BY DEF QueueOK
<1>3. ASSUME NEW t PROVE OnTheWay(<<>>, t) = 0
  <2> DEFINE f == [i \in DOMAIN <<>> |-> Amount(<<>>[i], t)]
  <2>1. OnTheWay(<<>>, t) = SumFunction(f)
    BY Zenon DEF OnTheWay
  <2>2. DOMAIN f = {}
    OBVIOUS
  <2> HIDE DEF f
  <2>3. QED
    BY <2>1, <2>2, SumIsTotal, TotalEmpty
<1>4. QED
  BY <1>1, <1>2, <1>3

LEMMA LedgerInvInit == LedgerInit => LedgerInv
<1> SUFFICES ASSUME LedgerInit PROVE LedgerInv
  OBVIOUS
<1>1. TypeInv
  <2>1. Flat \in InventoryRecord /\ <<>> \in Stacks
    BY FlatIs, EmptyIs
  <2>2. QED
    BY <2>1 DEF LedgerInit, TypeInv, Nothing
<1>2. SidesInv
  <2>1. \A s \in Strategy, t \in Outcome : lots[s][t] = <<>>
    BY DEF LedgerInit
  <2>2. \A t \in Outcome : held[t] = 0
    BY DEF LedgerInit, Nothing
  <2>3. "arb" \in Strategy /\ "mm" \in Strategy
    BY Outcomes
  <2>4. QED
    BY <2>1, <2>2, <2>3, EmptyIs, EmptySums DEF SidesInv, OneSided
<1>3. QueueOK(queue, held)
  BY EmptyIs DEF LedgerInit
<1>4. StoreInv
  <2>1. \A s \in Strategy, t \in Outcome : lots[s][t] = <<>>
    BY DEF LedgerInit
  <2>2. \A s \in Strategy : booked[s] = 0 /\ cash[s] = 0
    BY DEF LedgerInit
  <2>3. Yes \in Outcome /\ No \in Outcome
    BY Outcomes
  <2>4. QED
    BY <2>1, <2>2, <2>3, EmptySums DEF StoreInv
<1>5. MakerInv
  <2>1. \A t \in Outcome : inv[t] = Flat /\ moved[t] = 0
    BY DEF LedgerInit, Nothing
  <2>2. QED
    BY <2>1, FlatIs DEF MakerInv, SignAgrees
<1>6. WaysInv
  <2>1. \A t \in Outcome : inv[t] = Flat /\ merged[t] = 0 /\ lost[t] = 0 /\ lots["mm"][t] = <<>> /\ queue = <<>>
    BY Outcomes DEF LedgerInit, Nothing
  <2>2. QED
    BY <2>1, FlatIs, EmptyIs, EmptySums DEF WaysInv
<1>7. NoOversell
  BY DEF LedgerInit, NoOversell
<1>8. QED
  BY <1>1, <1>2, <1>3, <1>4, <1>5, <1>6, <1>7 DEF LedgerInv

(* A step of the arb strategy only sends a row.                            *)
LEMMA ArbStep ==
  ASSUME LedgerInv, NEW r \in ArbRows \cup Conversions, Covered(r, held), ArbSends(r)
  PROVE  LedgerInv'
<1>1. /\ ~\E i \in DOMAIN queue : queue[i].strategy = "arb"
      /\ queue' = Append(queue, r)
      /\ inv' = inv /\ moved' = moved /\ merged' = merged /\ held' = held /\ lost' = lost
      /\ lots' = lots /\ booked' = booked /\ cash' = cash /\ oversold' = oversold
  BY DEF ArbSends, ArbIdle, Send, mmVars, store
<1>2. r \in Rows /\ r \notin MmRows
  BY RowsAre DEF Rows
<1>3. QueueOK(queue, held)' /\ queue \in Seq(Rows)
  BY <1>1, <1>2, QueueSends DEF LedgerInv, QueueOK
<1>4. \A t : OnTheWay(queue', t) = OnTheWay(queue, t)
  BY <1>1, <1>2, <1>3, WaysAre, AmountsAre
<1>5. TypeInv' /\ SidesInv' /\ StoreInv' /\ MakerInv' /\ NoOversell'
  BY <1>1 DEF LedgerInv, TypeInv, SidesInv, StoreInv, MakerInv, NoOversell
<1>6. WaysInv'
  BY <1>1, <1>4 DEF LedgerInv, WaysInv
<1>7. QED
  BY <1>3, <1>5, <1>6 DEF LedgerInv
LEMMA ArbFillStep ==
  ASSUME LedgerInv, NEW t \in Outcome, NEW q \in Int, q # 0, NEW px \in Prices, ArbFill(t, q, px)
  PROVE  LedgerInv'
<1> DEFINE r == Fill(t, q, CashOf(q, px))
<1>1. CashOf(q, px) \in Int /\ SignOK(q, -CashOf(q, px))
  BY CashSigns
<1>2. r \in ArbRows /\ r.token = t /\ r.qty = q /\ r.kind = "fill"
  BY <1>1, RowsAre
<1>3. held[t] + q >= 0 /\ ArbSends(r) /\ held[t] \in Nat
  BY DEF ArbFill, LedgerInv, TypeInv
<1> HIDE DEF r
<1>4. r \notin Conversions
  BY <1>2, RowsAre
<1>5. Covered(r, held)
  <2>1. -r.qty <= held[r.token]
    BY <1>2, <1>3
  <2>2. QED
    BY <1>4, <2>1 DEF Covered
<1>6. QED
  BY <1>2, <1>3, <1>5, ArbStep

LEMMA ArbConversionStep ==
  ASSUME LedgerInv, NEW n \in Sizes, ArbSplit(n) \/ ArbMerge(n)
  PROVE  LedgerInv'
<1>1. n \in Nat \ {0}
  BY LedgerAssumption
<1>2. CASE ArbSplit(n)
  <2>1. Split(n) \in Conversions /\ Split(n).kind = "split" /\ Split(n) \notin ArbRows
    BY <1>1, RowsAre
  <2>2. Covered(Split(n), held)
    BY <2>1 DEF Covered
  <2>3. QED
    BY <1>2, <2>1, <2>2, ArbStep DEF ArbSplit
<1>3. CASE ArbMerge(n)
  <2>1. Merge(n) \in Conversions /\ Merge(n).units = n /\ Merge(n).kind = "merge" /\ Merge(n) \notin ArbRows
    BY <1>1, RowsAre
  <2>2. \A t \in Outcome : n <= held[t]
    <3>1. \A t \in Outcome : held[t] >= n /\ held[t] \in Nat
      BY <1>3 DEF ArbMerge, LedgerInv, TypeInv
    <3>2. QED
      BY <1>1, <3>1
  <2>3. Covered(Merge(n), held)
    BY <2>1, <2>2 DEF Covered
  <2>4. QED
    BY <1>3, <2>1, <2>3, ArbStep DEF ArbMerge
<1>4. QED
  BY <1>2, <1>3

(* The market maker books its fill at once and sends it to the store.      *)
LEMMA MmFillStep ==
  ASSUME LedgerInv, NEW t \in Outcome, NEW q \in Int, q # 0, NEW px \in Prices, MmFill(t, q, px)
  PROVE  LedgerInv'
<1> DEFINE c == CashOf(q, px)
           r == FillSigned(t, q, c)
<1>1. c \in Int /\ SignOK(q, -c)
  BY CashSigns
<1>2. r \in MmRows /\ r.token = t /\ r.qty = q /\ r.strategy = "mm"
  BY <1>1, RowsAre
<1>3. /\ queue' = Append(queue, r)
      /\ inv' = [inv EXCEPT ![t] = OnFill(inv[t], q, c)]
      /\ moved' = [moved EXCEPT ![t] = moved[t] + c]
      /\ merged' = merged /\ held' = held /\ lost' = lost
      /\ lots' = lots /\ booked' = booked /\ cash' = cash /\ oversold' = oversold
  BY DEF MmFill, Send, mmVars, store
<1>4. r \in Rows
  BY <1>2 DEF Rows
<1> HIDE DEF r, c
<1>5. QueueOK(queue, held)' /\ queue \in Seq(Rows)
  BY <1>2, <1>3, <1>4, QueueSends DEF LedgerInv, QueueOK
<1>6. /\ inv \in [Outcome -> InventoryRecord] /\ moved \in [Outcome -> Int]
      /\ \A o \in Outcome : inv[o].realized - inv[o].basis = moved[o] /\ SignAgrees(inv[o])
  BY DEF LedgerInv, TypeInv, MakerInv
<1> DEFINE i == OnFill(inv[t], q, c)
<1>7. /\ i \in InventoryRecord /\ i.net = inv[t].net + q
      /\ i.realized - i.basis = inv[t].realized - inv[t].basis + c
  BY <1>1, <1>6, OnFillConserves
<1>8. SignAgrees(i)
  <2>1. (q > 0 => c <= 0) /\ (q < 0 => c >= 0)
    BY <1>1 DEF SignOK
  <2>2. QED
    BY <1>1, <1>6, <2>1, OnFillKeepsSign
<1> HIDE DEF i
<1>9. /\ inv' \in [Outcome -> InventoryRecord] /\ inv'[t] = i
      /\ moved' \in [Outcome -> Int] /\ moved'[t] = moved[t] + c
      /\ \A o \in Outcome : o # t => inv'[o] = inv[o] /\ moved'[o] = moved[o]
  BY <1>1, <1>3, <1>6, <1>7 DEF i
<1>10. TypeInv'
  BY <1>3, <1>9 DEF LedgerInv, TypeInv
<1>11. SidesInv' /\ StoreInv' /\ NoOversell'
  BY <1>3 DEF LedgerInv, SidesInv, StoreInv, NoOversell
<1>12. MakerInv'
  <2> SUFFICES ASSUME NEW o \in Outcome
               PROVE  inv'[o].realized - inv'[o].basis = moved'[o] /\ SignAgrees(inv'[o])
    BY DEF MakerInv
  <2>1. CASE o = t
    BY <1>6, <1>7, <1>8, <1>9, <2>1
  <2>2. CASE o # t
    BY <1>6, <1>9, <2>2
  <2>3. QED
    BY <2>1, <2>2
<1>13. WaysInv'
  <2> SUFFICES ASSUME NEW o \in Outcome
               PROVE  Shares(lots["mm"][o]) + OnTheWay(queue', o) + lost[o] = inv'[o].net + merged[o]
    BY <1>3 DEF WaysInv
  <2>1. Shares(lots["mm"][o]) + OnTheWay(queue, o) + lost[o] = inv[o].net + merged[o]
    BY DEF LedgerInv, WaysInv
  <2>2. /\ Shares(lots["mm"][o]) \in Int /\ OnTheWay(queue, o) \in Int /\ lost[o] \in Int
        /\ inv[o].net \in Int /\ merged[o] \in Int
    BY <1>5, Outcomes, StackSums, WaysAre DEF LedgerInv, TypeInv, InventoryRecord
  <2>3. OnTheWay(queue', o) = OnTheWay(queue, o) + Amount(r, o)
    BY <1>3, <1>4, <1>5, WaysAre
  <2>4. Amount(r, o) = IF o = t THEN q ELSE 0
    BY <1>2, <1>4, AmountsAre
  <2>5. inv'[o].net = inv[o].net + Amount(r, o)
    <3>1. CASE o = t
      BY <1>7, <1>9, <2>4, <3>1
    <3>2. CASE o # t
      BY <1>9, <2>2, <2>4, <3>2
    <3>3. QED
      BY <3>1, <3>2
  <2>6. Amount(r, o) \in Int
    BY <1>4, AmountsAre
  <2>7. QED
    BY <2>1, <2>2, <2>3, <2>5, <2>6
<1>14. QED
  BY <1>5, <1>10, <1>11, <1>12, <1>13 DEF LedgerInv
LEMMA MergeableIs == TypeInv => Mergeable \in Int
<1> SUFFICES ASSUME TypeInv PROVE Mergeable \in Int
  OBVIOUS
<1> DEFINE of(t) == IF inv[t].net > 0 THEN inv[t].net ELSE 0
           long == {of(t) : t \in Outcome}
<1>1. \A t \in Outcome : of(t) \in Int
  BY DEF TypeInv, InventoryRecord
<1>2. long = {of(Yes), of(No)}
  BY Outcomes
<1>3. of(Yes) \in Int /\ of(No) \in Int
  BY <1>1, Outcomes
<1> HIDE DEF of
<1>4. \E n \in long : \A m \in long : n <= m
  <2>1. of(Yes) <= of(No) \/ of(No) <= of(Yes)
    BY <1>3
  <2>2. QED
    BY <1>2, <1>3, <2>1
<1>5. (CHOOSE n \in long : \A m \in long : n <= m) \in long
  BY <1>4
<1>6. Mergeable = CHOOSE n \in long : \A m \in long : n <= m
  BY Zenon DEF Mergeable, of
<1>7. QED
  BY <1>2, <1>3, <1>5, <1>6

(* A merge of complete sets is a sale of both tokens, and no row.          *)
LEMMA MmMergeStep ==
  ASSUME LedgerInv, MmMerge
  PROVE  LedgerInv'
<1> DEFINE n == Mergeable
           c(t) == MergeCash(t)
<1>1. n \in Nat \ {0}
  BY MergeableIs DEF LedgerInv, MmMerge
<1>2. \A t : c(t) \in Nat
  <2>1. n \div 2 \in Nat /\ n - n \div 2 \in Nat
    BY <1>1
  <2>2. QED
    BY <2>1 DEF MergeCash
<1>3. /\ inv' = [t \in Outcome |-> OnFill(inv[t], -n, c(t))]
      /\ moved' = [t \in Outcome |-> moved[t] + c(t)]
      /\ merged' = [t \in Outcome |-> merged[t] + n]
      /\ queue' = queue /\ held' = held /\ lost' = lost
      /\ lots' = lots /\ booked' = booked /\ cash' = cash /\ oversold' = oversold
  BY DEF MmMerge, store
<1> HIDE DEF n, c
<1>4. /\ inv \in [Outcome -> InventoryRecord] /\ moved \in [Outcome -> Int] /\ merged \in [Outcome -> Int]
      /\ \A t \in Outcome : inv[t].realized - inv[t].basis = moved[t] /\ SignAgrees(inv[t])
  BY DEF LedgerInv, TypeInv, MakerInv
<1>5. ASSUME NEW t \in Outcome
      PROVE  /\ inv'[t] \in InventoryRecord /\ inv'[t].net = inv[t].net - n
             /\ inv'[t].realized - inv'[t].basis = inv[t].realized - inv[t].basis + c(t)
             /\ SignAgrees(inv'[t])
  <2>1. /\ inv[t] \in InventoryRecord /\ SignAgrees(inv[t]) /\ inv'[t] = OnFill(inv[t], -n, c(t))
        /\ c(t) \in Int /\ c(t) >= 0 /\ -n \in Int /\ -n # 0 /\ -n < 0 /\ inv[t].net \in Int
    BY <1>1, <1>2, <1>3, <1>4 DEF InventoryRecord
  <2> DEFINE q == -n
  <2>2. q \in Int /\ q # 0 /\ q < 0 /\ inv[t].net + q = inv[t].net - n /\ inv'[t] = OnFill(inv[t], q, c(t))
    BY <1>1, <2>1
  <2> HIDE DEF q
  <2>3. /\ OnFill(inv[t], q, c(t)) \in InventoryRecord /\ OnFill(inv[t], q, c(t)).net = inv[t].net + q
        /\ OnFill(inv[t], q, c(t)).realized - OnFill(inv[t], q, c(t)).basis
             = inv[t].realized - inv[t].basis + c(t)
    BY <2>1, <2>2, OnFillConserves
  <2>4. SignAgrees(OnFill(inv[t], q, c(t)))
    BY <2>1, <2>2, OnFillKeepsSign
  <2>5. QED
    BY <2>2, <2>3, <2>4
<1>6. TypeInv'
  <2>1. inv' \in [Outcome -> InventoryRecord]
    BY <1>3, <1>5
  <2>2. moved' \in [Outcome -> Int] /\ merged' \in [Outcome -> Int]
    BY <1>1, <1>2, <1>3, <1>4
  <2>3. QED
    BY <1>3, <2>1, <2>2 DEF LedgerInv, TypeInv
<1>7. SidesInv' /\ QueueOK(queue, held)' /\ StoreInv' /\ NoOversell'
  BY <1>3 DEF LedgerInv, SidesInv, StoreInv, NoOversell
<1>8. MakerInv'
  <2> SUFFICES ASSUME NEW t \in Outcome
               PROVE  inv'[t].realized - inv'[t].basis = moved'[t] /\ SignAgrees(inv'[t])
    BY DEF MakerInv
  <2>1. moved'[t] = moved[t] + c(t)
    BY <1>3
  <2>2. QED
    BY <1>4, <1>5, <2>1
<1>9. WaysInv'
  <2> SUFFICES ASSUME NEW t \in Outcome
               PROVE  Shares(lots["mm"][t]) + OnTheWay(queue, t) + lost[t] = inv'[t].net + merged'[t]
    BY <1>3 DEF WaysInv
  <2>1. Shares(lots["mm"][t]) + OnTheWay(queue, t) + lost[t] = inv[t].net + merged[t]
    BY DEF LedgerInv, WaysInv
  <2>2. inv[t].net \in Int /\ merged[t] \in Int /\ inv'[t].net = inv[t].net - n /\ merged'[t] = merged[t] + n
    BY <1>3, <1>4, <1>5 DEF InventoryRecord
  <2>3. QED
    BY <1>1, <2>1, <2>2
<1>10. QED
  BY <1>6, <1>7, <1>8, <1>9 DEF LedgerInv

(* A failed write: what the market maker's row held is lost.               *)
LEMMA FailStep ==
  ASSUME LedgerInv, WriteFails
  PROVE  LedgerInv'
<1> DEFINE r == Head(queue)
<1>1. /\ queue # <<>> /\ queue' = Tail(queue)
      /\ lost' = IF r.strategy = "mm" THEN [lost EXCEPT ![r.token] = lost[r.token] + r.qty] ELSE lost
      /\ inv' = inv /\ moved' = moved /\ merged' = merged /\ held' = held
      /\ lots' = lots /\ booked' = booked /\ cash' = cash /\ oversold' = oversold
  BY DEF WriteFails, RowLost, mmVars, store
<1>2. QueueOK(queue, held) /\ queue \in Seq(Rows)
  BY DEF LedgerInv, QueueOK
<1>3. r \in Rows /\ QueueOK(queue, held)'
  BY <1>1, <1>2, QueueTakes
<1>4. \A t \in Outcome : /\ OnTheWay(queue', t) = OnTheWay(queue, t) - Amount(r, t)
                         /\ OnTheWay(queue, t) \in Int /\ Amount(r, t) \in Int
  BY <1>1, <1>2, <1>3, WaysAre, AmountsAre
<1> HIDE DEF r
<1>5. lost \in [Outcome -> Int]
  BY DEF LedgerInv, TypeInv
<1>6. lost' \in [Outcome -> Int] /\ \A t \in Outcome : lost'[t] = lost[t] + Amount(r, t)
  <2>1. CASE r \in MmRows
    <3>1. r.token \in Outcome /\ r.qty \in Int /\ r.strategy = "mm"
      BY <2>1 DEF MmRows
    <3>2. lost' = [lost EXCEPT ![r.token] = lost[r.token] + r.qty]
      BY <1>1, <3>1
    <3>3. \A t \in Outcome : Amount(r, t) = IF r.token = t THEN r.qty ELSE 0
      BY <1>3, <2>1, AmountsAre
    <3>4. QED
      BY <1>5, <3>1, <3>2, <3>3
  <2>2. CASE r \notin MmRows
    <3>1. r.strategy = "arb"
      BY <1>3, <2>2, RowsAre DEF Rows
    <3>2. \A t \in Outcome : Amount(r, t) = 0
      BY <1>3, <2>2, AmountsAre
    <3>3. QED
      BY <1>1, <1>5, <3>1, <3>2
  <2>3. QED
    BY <2>1, <2>2
<1>7. TypeInv'
  BY <1>1, <1>6 DEF LedgerInv, TypeInv
<1>8. SidesInv' /\ StoreInv' /\ MakerInv' /\ NoOversell'
  BY <1>1 DEF LedgerInv, SidesInv, StoreInv, MakerInv, NoOversell
<1>9. WaysInv'
  <2> SUFFICES ASSUME NEW t \in Outcome
               PROVE  Shares(lots["mm"][t]) + OnTheWay(queue', t) + lost'[t] = inv[t].net + merged[t]
    BY <1>1 DEF WaysInv
  <2>1. Shares(lots["mm"][t]) + OnTheWay(queue, t) + lost[t] = inv[t].net + merged[t]
    BY DEF LedgerInv, WaysInv
  <2>2. Shares(lots["mm"][t]) \in Int /\ lost[t] \in Int
    BY <1>5, Outcomes, StackSums DEF LedgerInv, TypeInv
  <2>3. QED
    BY <1>4, <1>6, <2>1, <2>2
<1>10. QED
  BY <1>3, <1>7, <1>8, <1>9 DEF LedgerInv
(* The stack of one token is replaced: the books still balance when what   *)
(* was realized, less what its cost rose by, is the cash of the row.       *)
LEMMA StoreChanged ==
  ASSUME TypeInv, StoreInv, NEW s \in Strategy, NEW t \in Outcome, NEW st \in Stacks,
         NEW gain \in Int, NEW c \in Int, gain - Cost(st) = c - Cost(lots[s][t]),
         lots' = [lots EXCEPT ![s][t] = st],
         booked' = [booked EXCEPT ![s] = booked[s] + gain],
         cash' = [cash EXCEPT ![s] = cash[s] + c]
  PROVE  /\ StoreInv'
         /\ lots' \in [Strategy -> [Outcome -> Stacks]] /\ booked' \in [Strategy -> Int] /\ cash' \in [Strategy -> Int]
<1>1. /\ lots \in [Strategy -> [Outcome -> Stacks]] /\ booked \in [Strategy -> Int] /\ cash \in [Strategy -> Int]
  BY DEF TypeInv
<1>2. /\ lots' \in [Strategy -> [Outcome -> Stacks]] /\ booked' \in [Strategy -> Int] /\ cash' \in [Strategy -> Int]
  BY <1>1
<1>3. /\ lots'[s][t] = st
      /\ \A s2 \in Strategy, t2 \in Outcome : ~(s2 = s /\ t2 = t) => lots'[s2][t2] = lots[s2][t2]
  BY <1>1
<1>4. /\ booked'[s] = booked[s] + gain /\ cash'[s] = cash[s] + c
      /\ \A s2 \in Strategy : s2 # s => booked'[s2] = booked[s2] /\ cash'[s2] = cash[s2]
  BY <1>1
<1>5. Yes \in Outcome /\ No \in Outcome /\ Yes # No /\ (t = Yes \/ t = No)
  BY Outcomes
<1>6. \A s2 \in Strategy, t2 \in Outcome : Cost(lots[s2][t2]) \in Int
  BY <1>1, StackSums
<1>7. Cost(st) \in Int
  BY StackSums
<1>8. StoreInv'
  <2> SUFFICES ASSUME NEW s2 \in Strategy
               PROVE  booked'[s2] - (Cost(lots'[s2][Yes]) + Cost(lots'[s2][No])) = cash'[s2]
    BY DEF StoreInv
  <2>1. booked[s2] - (Cost(lots[s2][Yes]) + Cost(lots[s2][No])) = cash[s2]
    BY DEF StoreInv
  <2>2. booked[s2] \in Int /\ cash[s2] \in Int /\ Cost(lots[s2][Yes]) \in Int /\ Cost(lots[s2][No]) \in Int
    BY <1>1, <1>5, <1>6
  <2>3. CASE s2 # s
    BY <1>3, <1>4, <1>5, <2>1, <2>3
  <2>4. CASE s2 = s
    <3>1. booked'[s2] = booked[s2] + gain /\ cash'[s2] = cash[s2] + c
      BY <1>4, <2>4
    <3> DEFINE y == Cost(lots[s2][Yes])
               n == Cost(lots[s2][No])
               x == Cost(st)
               b == booked[s2]
               k == cash[s2]
    <3>2. /\ y \in Int /\ n \in Int /\ x \in Int /\ b \in Int /\ k \in Int /\ b - (y + n) = k
          /\ gain \in Int /\ c \in Int
      BY <1>7, <2>1, <2>2
    <3>3. \/ Cost(lots'[s2][Yes]) = x /\ Cost(lots'[s2][No]) = n /\ gain - x = c - y
          \/ Cost(lots'[s2][No]) = x /\ Cost(lots'[s2][Yes]) = y /\ gain - x = c - n
      <4>1. CASE t = Yes
        BY <1>3, <1>5, <2>4, <4>1
      <4>2. CASE t = No
        BY <1>3, <1>5, <2>4, <4>2
      <4>3. QED
        BY <1>5, <4>1, <4>2
    <3>4. booked'[s2] = b + gain /\ cash'[s2] = k + c
      BY <3>1
    <3> HIDE DEF y, n, x, b, k
    <3>5. (b + gain) - (x + n) = k + c \/ gain - x # c - y
      BY <3>2
    <3>6. (b + gain) - (y + x) = k + c \/ gain - x # c - n
      BY <3>2
    <3>7. QED
      BY <3>3, <3>4, <3>5, <3>6
  <2>5. QED
    BY <2>3, <2>4
<1>9. QED
  BY <1>2, <1>3, <1>8

(* A row of the market maker is committed: what was on its way is stored.  *)
LEMMA CommitMmStep ==
  ASSUME LedgerInv, CommitFill, Head(queue) \in MmRows
  PROVE  LedgerInv'
<1> DEFINE r == Head(queue)
           st == lots["mm"][r.token]
           done == SignedFill(st, r.qty, r.cash)
<1>1. /\ r.strategy = "mm" /\ r.signed = TRUE /\ r.token \in Outcome /\ r.kind = "fill"
      /\ r.qty \in Int /\ r.qty # 0 /\ r.cash \in Int /\ SignOK(r.qty, -r.cash) /\ r \in Rows
  BY DEF MmRows, Rows
<1>2. TypeInv /\ StoreInv /\ SidesInv
  BY DEF LedgerInv
<1>3. st \in Stacks /\ OneSided(st) /\ "mm" \in Strategy /\ "arb" \in Strategy
  BY <1>1, <1>2, Outcomes DEF TypeInv, SidesInv
<1>4. /\ done.stack \in Stacks /\ OneSided(done.stack) /\ ~done.short /\ done.realized \in Int
      /\ Shares(done.stack) = Shares(st) + r.qty
      /\ done.realized - Cost(done.stack) = r.cash - Cost(st)
  <2>1. done = SignedFill(st, r.qty, r.cash)
    OBVIOUS
  <2> DEFINE q == r.qty
             c == r.cash
  <2>2. st \in Stacks /\ OneSided(st) /\ q \in Int /\ q # 0 /\ c \in Int /\ SignOK(q, -c)
    BY <1>1, <1>3
  <2>3. done = SignedFill(st, q, c)
    BY <2>1
  <2> HIDE DEF r, st, done, q, c
  <2>4. done.stack \in Stacks /\ OneSided(done.stack) /\ ~done.short /\ done.realized \in Int
    BY ONLY <2>2, <2>3, SignedFillMoves
  <2>5. Shares(done.stack) = Shares(st) + q
    BY ONLY <2>2, <2>3, SignedFillMoves
  <2>6. done.realized - Cost(done.stack) = c - Cost(st)
    BY ONLY <2>2, <2>3, SignedFillMoves
  <2>7. QED
    BY <2>4, <2>5, <2>6 DEF q, c
<1>5. FillCommitted(r) = done
  BY <1>1 DEF FillCommitted
<1>6. /\ queue # <<>> /\ queue' = Tail(queue)
      /\ lots' = [lots EXCEPT !["mm"][r.token] = done.stack]
      /\ booked' = [booked EXCEPT !["mm"] = booked["mm"] + done.realized]
      /\ cash' = [cash EXCEPT !["mm"] = cash["mm"] + r.cash]
      /\ held' = Acked(r)
      /\ oversold' = oversold /\ lost' = lost /\ inv' = inv /\ moved' = moved /\ merged' = merged
  BY <1>1, <1>4, <1>5 DEF CommitFill, mmVars
<1>7. held' = held
  <2>1. held \in [Outcome -> Nat]
    BY <1>2 DEF TypeInv
  <2>2. Acked(r) = [t \in Outcome |-> held[t] + 0]
    BY <1>1 DEF Acked
  <2>3. \A t \in Outcome : held[t] + 0 = held[t]
    BY <2>1
  <2>4. QED
    BY <1>6, <2>1, <2>2, <2>3
<1>8. QueueOK(queue, held) /\ queue \in Seq(Rows)
  BY DEF LedgerInv, QueueOK
<1>9. QueueOK(queue, held)'
  BY <1>6, <1>7, <1>8, QueueTakes
<1>10. \A t \in Outcome : /\ OnTheWay(queue', t) = OnTheWay(queue, t) - Amount(r, t)
                          /\ OnTheWay(queue, t) \in Int
                          /\ Amount(r, t) = IF r.token = t THEN r.qty ELSE 0
  BY <1>1, <1>6, <1>8, WaysAre, AmountsAre
<1> HIDE DEF r, done
<1>11. /\ StoreInv'
       /\ lots' \in [Strategy -> [Outcome -> Stacks]] /\ booked' \in [Strategy -> Int] /\ cash' \in [Strategy -> Int]
       /\ lots'["mm"][r.token] = done.stack
       /\ \A s2 \in Strategy, t2 \in Outcome : ~(s2 = "mm" /\ t2 = r.token) => lots'[s2][t2] = lots[s2][t2]
  <2> DEFINE t == r.token
             new == done.stack
             gain == done.realized
             c == r.cash
  <2>1. /\ TypeInv /\ StoreInv /\ "mm" \in Strategy /\ t \in Outcome /\ new \in Stacks
        /\ gain \in Int /\ c \in Int /\ gain - Cost(new) = c - Cost(lots["mm"][t])
        /\ lots' = [lots EXCEPT !["mm"][t] = new]
        /\ booked' = [booked EXCEPT !["mm"] = booked["mm"] + gain]
        /\ cash' = [cash EXCEPT !["mm"] = cash["mm"] + c]
    BY <1>1, <1>2, <1>3, <1>4, <1>6
  <2> HIDE DEF t, new, gain, c
  <2>2. /\ StoreInv'
        /\ lots' \in [Strategy -> [Outcome -> Stacks]] /\ booked' \in [Strategy -> Int]
        /\ cash' \in [Strategy -> Int]
    BY ONLY <2>1, StoreChanged
  <2>3. /\ lots'["mm"][t] = new
        /\ \A s2 \in Strategy, t2 \in Outcome : ~(s2 = "mm" /\ t2 = t) => lots'[s2][t2] = lots[s2][t2]
    <3>1. lots \in [Strategy -> [Outcome -> Stacks]]
      BY <1>2 DEF TypeInv
    <3>2. QED
      BY <2>1, <3>1
  <2>4. QED
    BY <2>2, <2>3 DEF t, new
<1>12. TypeInv'
  BY <1>2, <1>6, <1>7, <1>11 DEF TypeInv
<1>13. SidesInv'
  <2> SUFFICES ASSUME NEW t \in Outcome
               PROVE  /\ OneSided(lots'["mm"][t])
                      /\ OnSide(lots'["arb"][t], 1) /\ held'[t] <= Shares(lots'["arb"][t])
    BY DEF SidesInv
  <2>1. lots'["arb"][t] = lots["arb"][t]
    BY <1>3, <1>11
  <2>2. OneSided(lots'["mm"][t])
    BY <1>2, <1>3, <1>4, <1>11 DEF SidesInv
  <2>3. QED
    BY <1>2, <1>7, <2>1, <2>2 DEF SidesInv
<1>14. MakerInv' /\ NoOversell'
  BY <1>6 DEF LedgerInv, MakerInv, NoOversell
<1>15. WaysInv'
  <2> SUFFICES ASSUME NEW t \in Outcome
               PROVE  Shares(lots'["mm"][t]) + OnTheWay(queue', t) + lost[t] = inv[t].net + merged[t]
    BY <1>6 DEF WaysInv
  <2>1. Shares(lots["mm"][t]) + OnTheWay(queue, t) + lost[t] = inv[t].net + merged[t]
    BY DEF LedgerInv, WaysInv
  <2>2. Shares(lots["mm"][t]) \in Int /\ lost[t] \in Int
    BY <1>2, <1>3, StackSums DEF TypeInv
  <2>3. Shares(lots'["mm"][t]) = Shares(lots["mm"][t]) + Amount(r, t)
    <3>1. CASE t = r.token
      BY <1>4, <1>10, <1>11, <3>1
    <3>2. CASE t # r.token
      BY <1>3, <1>10, <1>11, <2>2, <3>2
    <3>3. QED
      BY <3>1, <3>2
  <2>4. Amount(r, t) \in Int
    BY <1>1, AmountsAre
  <2>5. QED
    BY <1>10, <2>1, <2>2, <2>3, <2>4
<1>16. QED
  BY <1>9, <1>11, <1>12, <1>13, <1>14, <1>15 DEF LedgerInv

(* A row of the arb strategy is committed: its lots cover what it sells,   *)
(* since it counts on no more than it has.                                 *)
LEMMA CommitArbStep ==
  ASSUME LedgerInv, CommitFill, Head(queue) \in ArbRows
  PROVE  LedgerInv'
<1> DEFINE r == Head(queue)
           st == lots["arb"][r.token]
           done == StrictFill(st, r.qty, r.cash)
<1>1. /\ r.strategy = "arb" /\ r.signed = FALSE /\ r.token \in Outcome /\ r.kind = "fill"
      /\ r.qty \in Int /\ r.qty # 0 /\ r.cash \in Int /\ SignOK(r.qty, -r.cash) /\ r \in Rows
  BY DEF ArbRows, Rows
<1>2. TypeInv /\ StoreInv /\ SidesInv
  BY DEF LedgerInv
<1>3. st \in Stacks /\ OnSide(st, 1) /\ "mm" \in Strategy /\ "arb" \in Strategy
  BY <1>1, <1>2, Outcomes DEF TypeInv, SidesInv
<1>4. QueueOK(queue, held) /\ queue \in Seq(Rows) /\ queue # <<>> /\ queue' = Tail(queue)
  BY DEF LedgerInv, QueueOK, CommitFill
<1>5. Covered(r, held) /\ \A other : QueueOK(queue', other)
  BY <1>1, <1>4, QueueTakes
<1>6. -r.qty <= held[r.token] /\ held[r.token] <= Shares(st) /\ held[r.token] \in Nat /\ Shares(st) \in Int
  BY <1>1, <1>2, <1>3, <1>5, StackSums DEF Covered, SidesInv, TypeInv
<1>7. /\ done.stack \in Stacks /\ OnSide(done.stack, 1) /\ done.realized \in Int
      /\ ~done.short
      /\ Shares(done.stack) = Shares(st) + r.qty
      /\ done.realized - Cost(done.stack) = r.cash - Cost(st)
  <2> HIDE DEF r, st
  <2>1. -r.qty <= Shares(st)
    BY <1>1, <1>6
  <2>2. r.qty > 0 => r.cash <= 0
    BY <1>1 DEF SignOK
  <2>3. QED
    BY <1>1, <1>3, <2>1, <2>2, StrictFillMoves
<1>8. FillCommitted(r) = done
  BY <1>1 DEF FillCommitted
<1>9. /\ lots' = [lots EXCEPT !["arb"][r.token] = done.stack]
      /\ booked' = [booked EXCEPT !["arb"] = booked["arb"] + done.realized]
      /\ cash' = [cash EXCEPT !["arb"] = cash["arb"] + r.cash]
      /\ held' = Acked(r)
      /\ oversold' = oversold /\ lost' = lost /\ inv' = inv /\ moved' = moved /\ merged' = merged
  BY <1>1, <1>7, <1>8 DEF CommitFill, mmVars
<1>10. \A t \in Outcome : held'[t] = held[t] + (IF r.token = t THEN r.qty ELSE 0)
  BY <1>1, <1>9 DEF Acked
<1>11. \A t \in Outcome : OnTheWay(queue', t) = OnTheWay(queue, t)
  <2>1. r \notin MmRows
    BY <1>1, RowsAre
  <2>2. \A t \in Outcome : Amount(r, t) = 0 /\ OnTheWay(queue, t) \in Int
    BY <1>1, <1>4, <2>1, AmountsAre, WaysAre
  <2>3. QED
    BY <1>4, <2>2, WaysAre
<1> HIDE DEF r, done
<1>12. /\ StoreInv'
       /\ lots' \in [Strategy -> [Outcome -> Stacks]] /\ booked' \in [Strategy -> Int] /\ cash' \in [Strategy -> Int]
       /\ lots'["arb"][r.token] = done.stack
       /\ \A s2 \in Strategy, t2 \in Outcome : ~(s2 = "arb" /\ t2 = r.token) => lots'[s2][t2] = lots[s2][t2]
  <2> DEFINE t == r.token
             new == done.stack
             gain == done.realized
             c == r.cash
  <2>1. /\ TypeInv /\ StoreInv /\ "arb" \in Strategy /\ t \in Outcome /\ new \in Stacks
        /\ gain \in Int /\ c \in Int /\ gain - Cost(new) = c - Cost(lots["arb"][t])
        /\ lots' = [lots EXCEPT !["arb"][t] = new]
        /\ booked' = [booked EXCEPT !["arb"] = booked["arb"] + gain]
        /\ cash' = [cash EXCEPT !["arb"] = cash["arb"] + c]
    BY <1>1, <1>2, <1>3, <1>7, <1>9
  <2> HIDE DEF t, new, gain, c
  <2>2. /\ StoreInv'
        /\ lots' \in [Strategy -> [Outcome -> Stacks]] /\ booked' \in [Strategy -> Int]
        /\ cash' \in [Strategy -> Int]
    BY ONLY <2>1, StoreChanged
  <2>3. /\ lots'["arb"][t] = new
        /\ \A s2 \in Strategy, t2 \in Outcome : ~(s2 = "arb" /\ t2 = t) => lots'[s2][t2] = lots[s2][t2]
    <3>1. lots \in [Strategy -> [Outcome -> Stacks]]
      BY <1>2 DEF TypeInv
    <3>2. QED
      BY <2>1, <3>1
  <2>4. QED
    BY <2>2, <2>3 DEF t, new
<1>13. held' \in [Outcome -> Nat]
  <2>1. \A t \in Outcome : held'[t] \in Nat
    BY <1>1, <1>2, <1>6, <1>10 DEF TypeInv
  <2>2. held' = [t \in Outcome |-> held'[t]]
    BY <1>9 DEF Acked
  <2>3. QED
    BY <2>1, <2>2
<1>14. TypeInv'
  BY <1>2, <1>9, <1>12, <1>13 DEF TypeInv
<1>15. SidesInv'
  <2> SUFFICES ASSUME NEW t \in Outcome
               PROVE  /\ OneSided(lots'["mm"][t])
                      /\ OnSide(lots'["arb"][t], 1) /\ held'[t] <= Shares(lots'["arb"][t])
    BY DEF SidesInv
  <2>1. lots'["mm"][t] = lots["mm"][t] /\ OneSided(lots["mm"][t])
    BY <1>2, <1>3, <1>12 DEF SidesInv
  <2>2. CASE t = r.token
    BY <1>1, <1>6, <1>7, <1>10, <1>12, <2>1, <2>2
  <2>3. CASE t # r.token
    <3>1. lots'["arb"][t] = lots["arb"][t] /\ held'[t] = held[t]
      BY <1>2, <1>3, <1>10, <1>12, <2>3 DEF TypeInv
    <3>2. QED
      BY <1>2, <2>1, <3>1 DEF SidesInv
  <2>4. QED
    BY <2>2, <2>3
<1>16. MakerInv' /\ NoOversell'
  BY <1>9 DEF LedgerInv, MakerInv, NoOversell
<1>17. WaysInv'
  <2>1. \A t \in Outcome : lots'["mm"][t] = lots["mm"][t]
    BY <1>3, <1>12
  <2>2. QED
    BY <1>9, <1>11, <2>1 DEF LedgerInv, WaysInv
<1>18. QED
  BY <1>5, <1>12, <1>14, <1>15, <1>16, <1>17 DEF LedgerInv
(* Split and merge: both tokens or neither.                                *)
LEMMA CommitConversionStep ==
  ASSUME LedgerInv, CommitConversion
  PROVE  LedgerInv'
<1> DEFINE r == Head(queue)
           done == Conversion(r)
           c(t) == IF r.kind = "merge" THEN 0
                   ELSE IF t = Yes THEN -CeilDiv(r.units, 2) ELSE -(r.units \div 2)
           q == IF r.kind = "merge" THEN -r.units ELSE r.units
<1>1. TypeInv /\ StoreInv /\ SidesInv /\ QueueOK(queue, held) /\ queue \in Seq(Rows)
  BY DEF LedgerInv, QueueOK
<1>2. /\ queue # <<>> /\ queue' = Tail(queue) /\ r.kind \in {"split", "merge"}
      /\ lost' = lost /\ inv' = inv /\ moved' = moved /\ merged' = merged
  BY DEF CommitConversion, mmVars
<1>3. r \in Rows /\ r \in Conversions
  <2>1. r \in Rows
    BY <1>1, <1>2, QueueTakes
  <2>2. QED
    BY <1>2, <2>1, RowsAre DEF Rows
<1>4. /\ r.strategy = "arb" /\ r.units \in Nat \ {0} /\ r.cash \in Int
      /\ r.cash = IF r.kind = "split" THEN -r.units ELSE r.units
      /\ r \notin MmRows
  BY <1>3, RowsAre DEF Conversions
<1>5. Covered(r, held) /\ \A other : QueueOK(queue', other)
  BY <1>1, <1>2, <1>4, QueueTakes
<1>6. \A t \in Outcome : OnTheWay(queue', t) = OnTheWay(queue, t)
  <2>1. \A t \in Outcome : Amount(r, t) = 0 /\ OnTheWay(queue, t) \in Int
    BY <1>1, <1>3, <1>4, AmountsAre, WaysAre
  <2>2. QED
    BY <1>1, <1>2, <2>1, WaysAre
<1>7. \A t \in Outcome : done[t] = StrictFill(lots["arb"][t], q, c(t))
  <2>1. CASE r.kind = "split"
    BY <2>1 DEF Conversion, SplitCommitted
  <2>2. CASE r.kind = "merge"
    BY <2>2 DEF Conversion, MergeCommitted
  <2>3. QED
    BY <1>2, <2>1, <2>2
<1>8. /\ q \in Int /\ q # 0 /\ (q > 0 <=> r.kind = "split")
      /\ \A t : c(t) \in Int /\ (q > 0 => c(t) <= 0)
      /\ c(Yes) + c(No) = IF r.kind = "split" THEN -r.units ELSE 0
  <2>1. CASE r.kind = "split"
    <3> DEFINE u == r.units
               x == CeilDiv(u, 2)
               y == u \div 2
    <3>1. u \in Nat \ {0}
      BY <1>4
    <3> HIDE DEF u
    <3>2. x \in Nat /\ y \in Nat /\ x + y = u
      BY <3>1 DEF CeilDiv
    <3>3. q = u /\ c(Yes) = -x /\ c(No) = -y /\ \A t : c(t) = -x \/ c(t) = -y
      BY <2>1, Outcomes DEF u
    <3> HIDE DEF x, y, q, c
    <3>4. QED
      BY <2>1, <3>1, <3>2, <3>3 DEF u
  <2>2. CASE r.kind = "merge"
    BY <1>4, <2>2
  <2>3. QED
    BY <1>2, <2>1, <2>2
<1>9. /\ Yes \in Outcome /\ No \in Outcome /\ "arb" \in Strategy /\ "mm" \in Strategy
      /\ \A t \in Outcome : t = Yes \/ t = No
  BY Outcomes
<1>10. \A t \in Outcome : /\ lots["arb"][t] \in Stacks /\ OnSide(lots["arb"][t], 1)
                          /\ held[t] \in Nat /\ held[t] <= Shares(lots["arb"][t])
                          /\ Shares(lots["arb"][t]) \in Int /\ Cost(lots["arb"][t]) \in Int
  BY <1>1, <1>9, StackSums DEF TypeInv, SidesInv
<1>11. \A t \in Outcome : -q <= held[t]
  <2>1. CASE r.kind = "merge"
    BY <1>3, <1>4, <1>5, <2>1 DEF Covered
  <2>2. CASE r.kind = "split"
    BY <1>4, <1>10, <2>2
  <2>3. QED
    BY <1>2, <2>1, <2>2
<1> HIDE DEF q, c, done, r
<1>12. ASSUME NEW t \in Outcome
       PROVE  /\ done[t].stack \in Stacks /\ OnSide(done[t].stack, 1) /\ done[t].realized \in Int
              /\ q > 0 => done[t].realized = 0
              /\ ~done[t].short /\ Shares(done[t].stack) = Shares(lots["arb"][t]) + q
              /\ done[t].realized - Cost(done[t].stack) = c(t) - Cost(lots["arb"][t])
              /\ Cost(done[t].stack) \in Int
  <2> DEFINE st == lots["arb"][t]
             d == done[t]
             b == c(t)
  <2>1. /\ st \in Stacks /\ OnSide(st, 1) /\ b \in Int /\ (q > 0 => b <= 0) /\ d = StrictFill(st, q, b)
        /\ q \in Int /\ q # 0 /\ -q <= Shares(st)
    BY <1>7, <1>8, <1>10, <1>11
  <2> HIDE DEF st, d, b
  <2>2. d.stack \in Stacks /\ OnSide(d.stack, 1) /\ d.realized \in Int
    BY ONLY <2>1, StrictFillMoves
  <2>3. (q > 0 => d.realized = 0) /\ ~d.short
    BY ONLY <2>1, StrictFillMoves
  <2>4. Shares(d.stack) = Shares(st) + q
    BY ONLY <2>1, <2>3, StrictFillMoves
  <2>5. d.realized - Cost(d.stack) = b - Cost(st)
    BY ONLY <2>1, <2>3, StrictFillMoves
  <2>6. Cost(d.stack) \in Int
    BY <2>2, StackSums
  <2>7. QED
    BY <2>2, <2>3, <2>4, <2>5, <2>6 DEF st, d, b
<1>13. /\ lots' = [lots EXCEPT !["arb"] = [t \in Outcome |-> done[t].stack]]
       /\ booked' = [booked EXCEPT !["arb"] =
                       booked["arb"] + IF r.kind = "split" THEN 0
                                       ELSE r.cash + done[Yes].realized + done[No].realized]
       /\ cash' = [cash EXCEPT !["arb"] = cash["arb"] + r.cash]
       /\ held' = Acked(r) /\ oversold' = oversold
  <2>1. ~\E t \in Outcome : done[t].short
    BY <1>12
  <2>2. QED
    BY <2>1 DEF CommitConversion, done, r
<1>14. \A t \in Outcome : held'[t] = held[t] + q
  <2>1. \A t \in Outcome : held'[t] = held[t] + IF r.kind = "split" THEN r.units ELSE IF r.kind = "merge" THEN -r.units
                                     ELSE IF r.token = t THEN r.qty ELSE 0
    BY <1>4, <1>13 DEF Acked
  <2>2. QED
    BY <1>2, <2>1 DEF q
<1>15. lots \in [Strategy -> [Outcome -> Stacks]] /\ booked \in [Strategy -> Int] /\ cash \in [Strategy -> Int]
  BY <1>1 DEF TypeInv
<1> DEFINE gain == IF r.kind = "split" THEN 0 ELSE r.cash + done[Yes].realized + done[No].realized
<1>16. gain \in Int
  BY <1>4, <1>9, <1>12
<1>17. /\ lots' \in [Strategy -> [Outcome -> Stacks]]
       /\ \A t \in Outcome : lots'["arb"][t] = done[t].stack /\ lots'["mm"][t] = lots["mm"][t]
  <2>1. [t \in Outcome |-> done[t].stack] \in [Outcome -> Stacks]
    BY <1>12
  <2>2. QED
    BY <1>9, <1>13, <1>15, <2>1
<1>18. /\ booked' \in [Strategy -> Int] /\ cash' \in [Strategy -> Int]
       /\ booked'["arb"] = booked["arb"] + gain /\ cash'["arb"] = cash["arb"] + r.cash
       /\ booked'["mm"] = booked["mm"] /\ cash'["mm"] = cash["mm"]
  <2>1. booked' = [booked EXCEPT !["arb"] = booked["arb"] + gain]
    BY <1>13
  <2> HIDE DEF gain
  <2>2. QED
    BY <1>4, <1>9, <1>13, <1>15, <1>16, <2>1
<1>19. StoreInv'
  <2>1. booked'["mm"] - (Cost(lots'["mm"][Yes]) + Cost(lots'["mm"][No])) = cash'["mm"]
    BY <1>1, <1>9, <1>17, <1>18 DEF StoreInv
  <2>2. booked'["arb"] - (Cost(lots'["arb"][Yes]) + Cost(lots'["arb"][No])) = cash'["arb"]
    <3> DEFINE cy == Cost(lots["arb"][Yes])
               cn == Cost(lots["arb"][No])
               dy == Cost(done[Yes].stack)
               dn == Cost(done[No].stack)
               ry == done[Yes].realized
               rn == done[No].realized
    <3>1. /\ cy \in Int /\ cn \in Int /\ dy \in Int /\ dn \in Int /\ ry \in Int /\ rn \in Int
          /\ booked["arb"] \in Int /\ cash["arb"] \in Int /\ c(Yes) \in Int /\ c(No) \in Int
          /\ ry - dy = c(Yes) - cy /\ rn - dn = c(No) - cn
          /\ booked["arb"] - (cy + cn) = cash["arb"]
      BY <1>1, <1>8, <1>9, <1>10, <1>12, <1>15 DEF StoreInv
    <3>2. gain = IF r.kind = "split" THEN 0 ELSE r.cash + ry + rn
      OBVIOUS
    <3>3. (q > 0 => ry = 0 /\ rn = 0) /\ lots'["arb"][Yes] = done[Yes].stack /\ lots'["arb"][No] = done[No].stack
      BY <1>9, <1>12, <1>17
    <3> HIDE DEF cy, cn, dy, dn, ry, rn, gain
    <3>4. (dy + dn) = (ry + rn) + (cy + cn) - (c(Yes) + c(No))
      BY <3>1
    <3>5. gain - (dy + dn) = r.cash - (cy + cn)
      <4>1. CASE r.kind = "split"
        BY <1>4, <1>8, <3>1, <3>2, <3>3, <3>4, <4>1
      <4>2. CASE r.kind = "merge"
        BY <1>4, <1>8, <3>1, <3>2, <3>4, <4>2
      <4>3. QED
        BY <1>2, <4>1, <4>2 DEF r
    <3>6. booked'["arb"] - (dy + dn) = cash'["arb"]
      BY <1>4, <1>16, <1>18, <3>1, <3>5 DEF gain
    <3>7. QED
      BY <3>3, <3>6 DEF dy, dn
  <2>3. QED
    BY <2>1, <2>2, Outcomes DEF StoreInv
<1>20. held' \in [Outcome -> Nat]
  <2>1. \A t \in Outcome : held'[t] \in Nat
    BY <1>8, <1>10, <1>11, <1>14
  <2>2. held' = [t \in Outcome |-> held'[t]]
    BY <1>13 DEF Acked
  <2>3. QED
    BY <2>1, <2>2
<1>21. TypeInv'
  BY <1>1, <1>2, <1>17, <1>18, <1>20 DEF TypeInv
<1>22. SidesInv'
  <2> SUFFICES ASSUME NEW t \in Outcome
               PROVE  /\ OneSided(lots'["mm"][t])
                      /\ OnSide(lots'["arb"][t], 1) /\ held'[t] <= Shares(lots'["arb"][t])
    BY DEF SidesInv
  <2>1. OneSided(lots'["mm"][t])
    BY <1>1, <1>17 DEF SidesInv
  <2>2. held'[t] <= Shares(done[t].stack)
    BY <1>8, <1>10, <1>12, <1>14
  <2>3. QED
    BY <1>12, <1>17, <2>1, <2>2
<1>23. MakerInv' /\ NoOversell'
  BY <1>2, <1>13 DEF LedgerInv, MakerInv, NoOversell
<1>24. WaysInv'
  BY <1>2, <1>6, <1>17 DEF LedgerInv, WaysInv
<1>25. QED
  BY <1>5, <1>19, <1>21, <1>22, <1>23, <1>24 DEF LedgerInv

(* A new process takes its position from the store.                        *)
LEMMA RestartStep ==
  ASSUME LedgerInv, Restart
  PROVE  LedgerInv'
<1>1. /\ queue' = <<>> /\ held' = Nothing /\ merged' = Nothing /\ lost' = Nothing
      /\ inv' = [t \in Outcome |-> IF Shares(lots["mm"][t]) = 0 THEN Flat
                                   ELSE Seeded(Shares(lots["mm"][t]), Cost(lots["mm"][t]))]
      /\ moved' = [t \in Outcome |-> -inv'[t].basis]
      /\ lots' = lots /\ booked' = booked /\ cash' = cash /\ oversold' = oversold
  BY DEF Restart, store
<1>2. TypeInv /\ SidesInv
  BY DEF LedgerInv
<1>3. ASSUME NEW t \in Outcome
      PROVE  /\ inv'[t] \in InventoryRecord /\ inv'[t].net = Shares(lots["mm"][t]) /\ inv'[t].net \in Int
             /\ inv'[t].realized = 0 /\ inv'[t].basis \in Int /\ SignAgrees(inv'[t])
  <2> DEFINE st == lots["mm"][t]
             n == Shares(st)
             b == Cost(st)
  <2>1. st \in Stacks /\ OneSided(st)
    BY <1>2, Outcomes DEF TypeInv, SidesInv
  <2>2. inv'[t] = IF n = 0 THEN Flat ELSE Seeded(n, b)
    BY <1>1
  <2> HIDE DEF st
  <2>3. n \in Int /\ b \in Int /\ ((n \in Nat /\ b \in Nat) \/ (-n \in Nat /\ -b \in Nat))
    BY <2>1, StackSums, SideSums DEF OneSided
  <2> HIDE DEF n, b
  <2>4. CASE n = 0
    BY <2>2, <2>4, FlatIs DEF SignAgrees, n, st
  <2>5. CASE n # 0
    <3>1. /\ inv'[t] \in InventoryRecord /\ inv'[t].net = n /\ inv'[t].basis = b /\ inv'[t].realized = 0
      <4>1. n \in Int /\ b \in Int
        BY <2>3
      <4>2. inv'[t] = Seeded(n, b)
        BY <2>2, <2>5
      <4>3. QED
        BY ONLY <4>1, <4>2, FlatIs
    <3>2. SignAgrees(inv'[t])
      BY <2>3, <2>5, <3>1 DEF SignAgrees
    <3>3. QED
      BY <2>3, <3>1, <3>2 DEF n, st
  <2>6. QED
    BY <2>4, <2>5
<1>4. \A t \in Outcome : moved'[t] = -inv'[t].basis
  BY <1>1
<1>5. TypeInv'
  <2>1. inv' \in [Outcome -> InventoryRecord]
    BY <1>1, <1>3
  <2>2. moved' \in [Outcome -> Int]
    BY <1>1, <1>3
  <2>3. QED
    BY <1>1, <1>2, <2>1, <2>2 DEF TypeInv, Nothing
<1>6. SidesInv'
  <2>1. \A t \in Outcome : held'[t] = 0
    BY <1>1 DEF Nothing
  <2>2. \A t \in Outcome : lots["arb"][t] \in Stacks /\ OnSide(lots["arb"][t], 1)
    BY <1>2, Outcomes DEF TypeInv, SidesInv
  <2>3. \A t \in Outcome : Shares(lots["arb"][t]) \in Nat
    BY <2>2, SideSums
  <2>4. QED
    BY <1>1, <1>2, <2>1, <2>3 DEF SidesInv
<1>7. QueueOK(queue, held)'
  BY <1>1, EmptyIs
<1>8. StoreInv' /\ NoOversell'
  BY <1>1 DEF LedgerInv, StoreInv, NoOversell
<1>9. MakerInv'
  BY <1>3, <1>4 DEF MakerInv
<1>10. WaysInv'
  BY <1>1, <1>3, EmptyIs DEF WaysInv, Nothing
<1>11. QED
  BY <1>5, <1>6, <1>7, <1>8, <1>9, <1>10 DEF LedgerInv
LEMMA LedgerInvHolds == LedgerSpec => []LedgerInv
<1>1. LedgerInv /\ [LedgerNext]_ledgerVars => LedgerInv'
  <2> SUFFICES ASSUME LedgerInv, [LedgerNext]_ledgerVars PROVE LedgerInv'
    OBVIOUS
  <2>1. CASE UNCHANGED ledgerVars
    <3>1. /\ inv' = inv /\ moved' = moved /\ merged' = merged /\ held' = held /\ queue' = queue
          /\ lost' = lost /\ lots' = lots /\ booked' = booked /\ cash' = cash /\ oversold' = oversold
      BY <2>1 DEF ledgerVars, store
    <3>2. QED
      BY <3>1 DEF LedgerInv, TypeInv, SidesInv, StoreInv, MakerInv, WaysInv, NoOversell
  <2>2. ASSUME NEW t \in Outcome, NEW n \in Sizes, NEW sign \in {1, -1}, NEW px \in Prices,
               MmFill(t, sign * n, px) \/ ArbFill(t, sign * n, px)
        PROVE  LedgerInv'
    <3> DEFINE q == sign * n
    <3>1. n \in Nat \ {0}
      BY LedgerAssumption
    <3>2. q \in Int /\ q # 0
      BY <3>1
    <3>3. MmFill(t, q, px) \/ ArbFill(t, q, px)
      BY <2>2
    <3> HIDE DEF q
    <3>4. QED
      BY <3>2, <3>3, MmFillStep, ArbFillStep
  <2>3. ASSUME NEW n \in Sizes, ArbSplit(n) \/ ArbMerge(n) PROVE LedgerInv'
    BY <2>3, ArbConversionStep
  <2>4. CASE MmMerge
    BY <2>4, MmMergeStep
  <2>5. CASE WriteFails
    BY <2>5, FailStep
  <2>6. CASE CommitFill
    <3>1. Head(queue) \in Rows /\ Head(queue).kind = "fill"
      BY <2>6, QueueTakes DEF LedgerInv, CommitFill
    <3>2. Head(queue) \in MmRows \/ Head(queue) \in ArbRows
      BY <3>1, RowsAre DEF Rows
    <3>3. QED
      BY <2>6, <3>2, CommitMmStep, CommitArbStep
  <2>7. CASE CommitConversion
    BY <2>7, CommitConversionStep
  <2>8. CASE Restart
    BY <2>8, RestartStep
  <2>9. QED
    BY <2>1, <2>2, <2>3, <2>4, <2>5, <2>6, <2>7, <2>8 DEF LedgerNext
<1>2. QED
  BY LedgerInvInit, <1>1, PTL DEF LedgerSpec

(* BooksBalance, for every price and size: money is only moved between the *)
(* realized totals, the open lots and the cash, and part closes round      *)
(* against us.                                                             *)
THEOREM BooksAlwaysBalance == LedgerSpec => []BooksBalance
<1>1. LedgerInv => BooksBalance
  <2> SUFFICES ASSUME LedgerInv PROVE BooksBalance
    OBVIOUS
  <2>1. TypeInv /\ StoreInv /\ MakerInv
    BY DEF LedgerInv
  <2>2. ASSUME NEW s \in Strategy, NEW t \in Outcome, NEW i \in DOMAIN lots[s][t]
        PROVE  lots[s][t][i].cost * Abs(lots[s][t][i].qty0) <= lots[s][t][i].cost0 * Abs(lots[s][t][i].qty)
    <3>1. lots[s][t] \in Stacks
      BY <2>1 DEF TypeInv
    <3>2. lots[s][t][i] \in GoodLots
      BY <3>1 DEF Stacks
    <3>3. QED
      BY <3>2 DEF GoodLots, GoodLot
  <2>3. ASSUME NEW t \in Outcome
        PROVE  /\ inv[t].realized - inv[t].basis = moved[t]
               /\ (inv[t].net >= 0 => inv[t].basis >= 0) /\ (inv[t].net <= 0 => inv[t].basis <= 0)
    BY <2>1 DEF MakerInv, SignAgrees
  <2>4. QED
    BY <2>1, <2>2, <2>3 DEF BooksBalance, StoreInv
<1>2. QED
  BY LedgerInvHolds, <1>1, PTL

(* StoreFollows, for every queue and however many rows fail, are merged    *)
(* around or cross a restart: the FIFO lots and the average-cost inventory *)
(* count the same shares.                                                  *)
THEOREM StoreAlwaysFollows == LedgerSpec => []StoreFollows
<1>1. LedgerInv => StoreFollows
  <2>1. \A t : Queued(t) = OnTheWay(queue, t)
    BY Zenon DEF Queued, SumOver, OnTheWay, Amount
  <2>2. QED
    BY <2>1 DEF LedgerInv, WaysInv, StoreFollows
<1>2. QED
  BY LedgerInvHolds, <1>1, PTL

(* NoOversell: one row at a time, and none beyond what is acknowledged,    *)
(* keeps every sale and merge of the arb strategy within its lots.         *)
THEOREM NeverOversells == LedgerSpec => []NoOversell
<1>1. LedgerInv => NoOversell
  BY DEF LedgerInv
<1>2. QED
  BY LedgerInvHolds, <1>1, PTL

(* What a restart changes in the market maker's position, exactly: what it *)
(* merged comes back (a merge sends no row), and what was still queued or  *)
(* failed to be written is gone.                                           *)
THEOREM RestartsForget ==
  LedgerSpec =>
    [][Restart => \A t \in Outcome : inv'[t].net = inv[t].net + merged[t] - lost[t] - Queued(t)]_ledgerVars
<1> DEFINE Gap == \A t \in Outcome : inv'[t].net = inv[t].net + merged[t] - lost[t] - Queued(t)
<1>1. LedgerInv /\ [LedgerNext]_ledgerVars => [Restart => Gap]_ledgerVars
  <2> SUFFICES ASSUME LedgerInv, Restart, NEW t \in Outcome
               PROVE  inv'[t].net = inv[t].net + merged[t] - lost[t] - Queued(t)
    BY DEF ledgerVars
  <2> DEFINE st == lots["mm"][t]
  <2>1. st \in Stacks /\ inv[t].net \in Int /\ merged[t] \in Int /\ lost[t] \in Int /\ queue \in Seq(Rows)
    BY Outcomes DEF LedgerInv, TypeInv, InventoryRecord, QueueOK
  <2>2. Queued(t) = OnTheWay(queue, t)
    BY Zenon DEF Queued, SumOver, OnTheWay, Amount
  <2>3. Shares(st) + Queued(t) + lost[t] = inv[t].net + merged[t] /\ Queued(t) \in Int /\ Shares(st) \in Int
    BY <2>1, <2>2, StackSums, WaysAre DEF LedgerInv, WaysInv
  <2>4. inv'[t].net = Shares(st)
    <3>1. inv'[t] = IF Shares(st) = 0 THEN Flat ELSE Seeded(Shares(st), Cost(st))
      BY DEF Restart
    <3>2. Cost(st) \in Int
      BY <2>1, StackSums
    <3> HIDE DEF st
    <3>3. QED
      BY <2>3, <3>1, <3>2, FlatIs
  <2> DEFINE x == Shares(st)
             y == Queued(t)
             z == lost[t]
             v == inv[t].net
             w == merged[t]
  <2>5. x + y + z = v + w /\ x \in Int /\ y \in Int /\ z \in Int /\ v \in Int /\ w \in Int
    BY <2>1, <2>3
  <2> HIDE DEF x, y, z, v, w
  <2>6. x = v + w - z - y
    BY ONLY <2>5
  <2>7. QED
    BY <2>4, <2>6 DEF x, y, z, v, w
<1> HIDE DEF Gap
<1>2. LedgerSpec => [][Restart => Gap]_ledgerVars
  BY LedgerInvHolds, <1>1, PTL DEF LedgerSpec
<1>3. QED
  BY <1>2 DEF Gap
=============================================================================
