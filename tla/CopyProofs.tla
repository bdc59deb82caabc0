------------------------------ MODULE CopyProofs ------------------------------
(***************************************************************************)
(* Safety of the copy strategy, for every set of markets and keys, every   *)
(* configuration of caps and limits, and any number of restarts.  The loss *)
(* cap binds whatever the writer's channel drops; what a restart loads is  *)
(* within the other bounds as long as the channel, which try_send does not *)
(* wait for, has room for every row of the book.                           *)
(***************************************************************************)
EXTENDS Copy, FiniteSums

USE CopyAssumption
USE DEF CopyAssumption

-----------------------------------------------------------------------------
(* The inductive invariant.                                                *)

Equities == Equity \cup {Unknown}
Fits(gross) == \E e \in Equities : gross <= GrossCap(e)
Room(k) == k[1] \notin HeldConds /\ Cardinality(Held) < MaxConcurrent

\* Nothing but its answer touches what a call is about, so a sale does not exceed
\* the position, a purchase still finds its market free, a slot and the capital,
\* and a redeem of the sweep still fits in the sweep's limit.
CallOK ==
  /\ call.op \in {"sell", "sold"} => call.f <= open[call.key]
  /\ call.op \in {"buy", "bought"} =>
       Room(call.key) /\ Fits(Total(open, Key) + call.f)
  /\ call.op = "redeem" /\ call.then = "sweep" => swept < SweepMax

\* The book is what the store will hold once the writer has committed its queue.
Mirror ==
  \A k \in Key : open[k] = IF storeQ.row[k] = NoRow THEN rows[k] ELSE storeQ.row[k]

Stock(f) == {k \in Key : f[k] > 0}

\* One side of each market, a slot for each position, and a gross that fits, in
\* the book and in the store that a restart loads.
Good(f) ==
  /\ \A k, l \in Stock(f) : k[1] = l[1] => k = l
  /\ Cardinality(Stock(f)) <= MaxConcurrent
  /\ Fits(Total(f, Key))

\* What the channel took of the day is in the store's row or queued for it.
Booked == booked = dayRow + storeQ.day

\* A cycle that began at the cap is halted, and a halted cycle does not get to
\* its entries.
Latched ==
  /\ pastCap /\ pc # "idle" => dayHalted
  /\ pc = "entry" => ~dayHalted

\* What depends on every row of the book reaching the store.
RowsFit == "row" \notin MayDrop
Stored == Mirror /\ Good(open) /\ Good(rows)

IInv ==
  /\ TypeOK /\ equity \in Equities /\ CallOK
  /\ Booked /\ Latched
  /\ RowsFit => Stored

USE DEF chain, store, book, latches, bounds, disk, money, cycle, quiet, vars

-----------------------------------------------------------------------------
(* Type correctness, one group of variables at a time.  The last case of   *)
(* each lemma is about the actions that leave the group alone.             *)

Sale     == [op: {"sell", "sold"}, key: Key, f: Nat, px: ExitPx]
Purchase == [op: {"buy", "bought"}, key: Key, f: Nat]

LEMMA Calls ==
  ASSUME TypeOK
  PROVE  /\ call.op \in {"sell", "sold"} => call \in Sale
         /\ call.op \in {"buy", "bought"} => call \in Purchase
         /\ call.op = "redeem" => call.cond \in Cond
<1>1. call \in Call
  BY DEF TypeOK, CycleOK
<1>2. QED
  BY <1>1 DEF Call, NoCall, Sale, Purchase

LEMMA Orders ==
  ASSUME TypeOK
  PROVE  /\ call.op \in {"sell", "sold", "buy", "bought"} => call.key \in Key /\ call.f \in Nat
         /\ call.op \in {"sell", "sold"} => call.px \in Int
<1>1. \A px \in ExitPx : px \in Int
  OBVIOUS
<1>2. \A c \in Sale : c.key \in Key /\ c.f \in Nat /\ c.px \in ExitPx
  BY DEF Sale
<1>3. \A c \in Purchase : c.key \in Key /\ c.f \in Nat
  BY DEF Purchase
<1>4. QED
  BY <1>1, <1>2, <1>3, Calls, Zenon

LEMMA ChainStep == TypeOK /\ [Next]_vars => ChainOK'
<1> SUFFICES ASSUME TypeOK, [Next]_vars PROVE ChainOK'
  OBVIOUS
<1> USE DEF ChainOK
<1>1. CASE \E c \in Cond, o \in {0, 1} : Resolve(c, o)
  BY <1>1 DEF Resolve, TypeOK
<1>2. CASE \E k \in Key : ExternalClose(k)
  BY <1>2 DEF ExternalClose, TypeOK
<1>3. CASE ApiSync
  BY <1>3 DEF ApiSync, TypeOK
<1>4. CASE \E landed, ok \in BOOLEAN : RedeemReturn(landed, ok)
  BY <1>4 DEF RedeemReturn, TypeOK
<1>5. CASE \E k \in Key, f \in 0..PerPosition, px \in ExitPx : SendSell(k, f, px)
  BY <1>5 DEF SendSell, TypeOK, StoreOK, BookOK
<1>6. CASE \E k \in Key, f \in 0..PerPosition : SendBuy(k, f)
  BY <1>6 DEF SendBuy, TypeOK
<1>7. CASE UNCHANGED <<wallet, resolved, synced>>
  BY <1>7 DEF TypeOK
<1>8. QED
  BY <1>1, <1>2, <1>3, <1>4, <1>5, <1>6, <1>7
     DEF Next, Environment, Midnight, WriterCommit, StartCycle, ReconSkip, ReconFetch,
         ReconDone, SweepDone, RefreshEquity, ReconKey, SweepKey, ExitSettle, ExitHold,
         ExitDust, SellKept, SellTerminal, SellBooked, SellClosed, Mark, EntryConsumed,
         EntrySkipped, BuyRefused, BuyBooked, BuyOpened, EntriesDone, Timeout, Reexec,
         Crash, Restart

LEMMA StoreStep == TypeOK /\ CallOK /\ [Next]_vars => StoreOK'
<1> SUFFICES ASSUME TypeOK /\ CallOK, [Next]_vars PROVE StoreOK'
  OBVIOUS
<1> USE DEF StoreOK
<1>1. CASE WriterCommit
  BY <1>1 DEF WriterCommit, TypeOK, NoMessages
<1>2. CASE Midnight
  BY <1>2 DEF Midnight, TypeOK
<1>3. CASE \E k \in Key, class \in Classes : ReconKey(k, class)
  BY <1>3 DEF ReconKey, TypeOK, ReconGone, PruneGone, CloseAt, Ledger, SendRow, Taken,
      BookOK
<1>4. CASE \E k \in Key : ExitSettle(k)
  BY <1>4 DEF ExitSettle, TypeOK, CloseAt, Ledger, SendRow, Taken, BookOK
<1>5. CASE \E k \in Key : ExitDust(k)
  BY <1>5 DEF ExitDust, TypeOK, PruneGone, SendRow, Taken, BookOK
<1>6. CASE SellTerminal
  BY <1>6, Orders DEF SellTerminal, TypeOK, PruneGone, SendRow, Taken, BookOK
<1>7. CASE SellClosed
  BY <1>7, Orders DEF SellClosed, TypeOK, Ledger, SendRow, Taken, BookOK, CallOK
<1>8. CASE BuyOpened
  BY <1>8, Orders DEF BuyOpened, TypeOK, SendRow, Taken, BookOK
<1>9. CASE Reexec
  BY <1>9 DEF Reexec, TypeOK, Restart, NoMessages
<1>10. CASE Crash
  BY <1>10 DEF Crash, TypeOK, Restart, NoMessages
<1>11. CASE UNCHANGED <<rows, dayRow, storeQ>>
  BY <1>11 DEF TypeOK
<1>12. QED
  BY <1>1, <1>2, <1>3, <1>4, <1>5, <1>6, <1>7, <1>8, <1>9, <1>10, <1>11
     DEF Next, Environment, Resolve, ExternalClose, ApiSync, StartCycle, ReconSkip,
         ReconFetch, ReconDone, SweepDone, RefreshEquity, SweepKey, RedeemReturn, ExitHold,
         SendSell, SellKept, SellBooked, Mark, EntryConsumed, EntrySkipped, SendBuy,
         BuyRefused, BuyBooked, EntriesDone, Timeout

LEMMA BookStep == TypeOK /\ CallOK /\ [Next]_vars => BookOK'
<1> SUFFICES ASSUME TypeOK /\ CallOK, [Next]_vars PROVE BookOK'
  OBVIOUS
<1> USE DEF BookOK
<1>1. CASE \E k \in Key, class \in Classes : ReconKey(k, class)
  BY <1>1 DEF ReconKey, TypeOK, ReconGone, PruneGone, CloseAt
<1>2. CASE \E k \in Key : ExitSettle(k)
  BY <1>2 DEF ExitSettle, TypeOK, CloseAt
<1>3. CASE \E k \in Key : ExitDust(k)
  BY <1>3 DEF ExitDust, TypeOK, PruneGone
<1>4. CASE SellTerminal
  BY <1>4, Orders DEF SellTerminal, TypeOK, PruneGone
<1>5. CASE SellBooked
  BY <1>5, Orders DEF SellBooked, TypeOK
<1>6. CASE SellClosed
  BY <1>6, Orders DEF SellClosed, TypeOK, CallOK
<1>7. CASE \E k \in Key : EntryConsumed(k)
  BY <1>7 DEF EntryConsumed, TypeOK
<1>8. CASE BuyRefused
  BY <1>8, Orders DEF BuyRefused, TypeOK
<1>9. CASE BuyBooked
  BY <1>9, Orders DEF BuyBooked, TypeOK
<1>10. CASE BuyOpened
  BY <1>10, Orders DEF BuyOpened, TypeOK
<1>11. CASE Reexec
  BY <1>11 DEF Reexec, TypeOK, Restart, StoreOK
<1>12. CASE Crash
  BY <1>12 DEF Crash, TypeOK, Restart, StoreOK
<1>13. CASE UNCHANGED <<open, miss, seen, inv>>
  BY <1>13 DEF TypeOK
<1>14. QED
  BY <1>1, <1>2, <1>3, <1>4, <1>5, <1>6, <1>7, <1>8, <1>9, <1>10, <1>11, <1>12, <1>13
     DEF Next, Environment, Resolve, ExternalClose, ApiSync, Midnight, WriterCommit,
         StartCycle, ReconSkip, ReconFetch, ReconDone, SweepDone, RefreshEquity, SweepKey,
         RedeemReturn, ExitHold, SendSell, SellKept, Mark, EntrySkipped, SendBuy,
         EntriesDone, Timeout

LEMMA MoneyStep == TypeOK /\ [Next]_vars => MoneyOK'
<1> SUFFICES ASSUME TypeOK, [Next]_vars PROVE MoneyOK'
  OBVIOUS
<1> USE DEF MoneyOK
<1>1. CASE Midnight
  <2>1. realized' \in Int /\ booked' \in Int /\ equity' \in Int
    BY <1>1 DEF Midnight, TypeOK
  <2>2. /\ halted' \in BOOLEAN /\ dayHalted' \in BOOLEAN
        /\ newDay' \in BOOLEAN /\ pastCap' \in BOOLEAN
    BY <1>1, Zenon DEF Midnight, TypeOK
  <2>3. QED
    BY <2>1, <2>2
<1>2. CASE StartCycle
  <2>1. realized' \in Int /\ booked' \in Int /\ equity' \in Int
    BY <1>2 DEF StartCycle, TypeOK
  <2>2. halted' \in BOOLEAN /\ newDay' \in BOOLEAN
    BY <1>2, Zenon DEF StartCycle, TypeOK
  <2>3. dayHalted' \in BOOLEAN
    BY <1>2, Zenon DEF StartCycle
  <2>4. pastCap' \in BOOLEAN
    BY <1>2 DEF StartCycle, TypeOK
  <2>5. QED
    BY <2>1, <2>2, <2>3, <2>4
<1>3. CASE \E k \in Key, class \in Classes : ReconKey(k, class)
  <2>1. PICK k \in Key, class \in Classes : ReconKey(k, class)
    BY <1>3
  <2>2. \/ UNCHANGED <<realized, booked>>
        \/ PruneGone(k)
        \/ CloseAt(k, 0)
        \/ CloseAt(k, Face * open[k])
    BY <2>1, Zenon DEF ReconKey, ReconGone
  <2>3. UNCHANGED <<equity, halted, dayHalted, newDay, pastCap>>
    BY <2>1 DEF ReconKey
  <2>4. realized' \in Int /\ booked' \in Int
    BY <2>2 DEF TypeOK, PruneGone, CloseAt, Ledger, Taken, BookOK
  <2>5. QED
    BY <2>3, <2>4 DEF TypeOK
<1>4. CASE RefreshEquity
  BY <1>4 DEF RefreshEquity, TypeOK
<1>5. CASE \E k \in Key : ExitSettle(k)
  BY <1>5 DEF ExitSettle, TypeOK, CloseAt, Ledger, Taken, BookOK
<1>6. CASE \E k \in Key : ExitDust(k)
  BY <1>6 DEF ExitDust, TypeOK, PruneGone
<1>7. CASE SellTerminal
  BY <1>7 DEF SellTerminal, TypeOK, PruneGone
<1>8. CASE SellBooked
  BY <1>8, Orders DEF SellBooked, TypeOK
<1>9. CASE SellClosed
  BY <1>9, Orders DEF SellClosed, TypeOK, Ledger, Taken
<1>10. CASE Mark
  BY <1>10 DEF Mark, TypeOK
<1>11. CASE Reexec
  <2>1. realized' \in Int /\ booked' \in Int /\ equity' \in Int
    BY <1>11 DEF Reexec, TypeOK, Restart, Unknown
  <2>2. halted' \in BOOLEAN /\ newDay' \in BOOLEAN
    BY <1>11, Zenon DEF Reexec, TypeOK, Restart
  <2>3. dayHalted' \in BOOLEAN
    BY <1>11, SMT DEF Reexec, Restart
  <2>4. pastCap' \in BOOLEAN
    BY <1>11 DEF Reexec, TypeOK, Restart
  <2>5. QED
    BY <2>1, <2>2, <2>3, <2>4
<1>12. CASE Crash
  <2>1. realized' \in Int /\ booked' \in Int /\ equity' \in Int
    BY <1>12 DEF Crash, TypeOK, Restart, StoreOK, Unknown
  <2>2. halted' \in BOOLEAN /\ newDay' \in BOOLEAN
    BY <1>12, Zenon DEF Crash, TypeOK, Restart
  <2>3. dayHalted' \in BOOLEAN
    BY <1>12, SMT DEF Crash, Restart
  <2>4. pastCap' \in BOOLEAN
    BY <1>12 DEF Crash, TypeOK, Restart
  <2>5. QED
    BY <2>1, <2>2, <2>3, <2>4
<1>13. CASE UNCHANGED <<realized, booked, equity, halted, dayHalted, newDay, pastCap>>
  BY <1>13 DEF TypeOK
<1>14. QED
  BY <1>1, <1>2, <1>3, <1>4, <1>5, <1>6, <1>7, <1>8, <1>9, <1>10, <1>11, <1>12, <1>13
     DEF Next, Environment, Resolve, ExternalClose, ApiSync, WriterCommit, ReconSkip,
         ReconFetch, ReconDone, SweepDone, SweepKey, RedeemReturn, ExitHold, SendSell,
         SellKept, EntryConsumed, EntrySkipped, SendBuy, BuyRefused, BuyBooked, BuyOpened,
         EntriesDone, Timeout

LEMMA Made ==
  /\ NoCall \in Call
  /\ \A k \in Key, t \in {"reconKeys", "sweep", "exit"} : Redeem(k[1], t) \in Call
  /\ Sale \subseteq Call /\ Purchase \subseteq Call
<1>1. \A k \in Key : k[1] \in Cond
  OBVIOUS
<1>2. \A c \in Cond, t \in {"reconKeys", "sweep", "exit"} : Redeem(c, t) \in Call
  BY DEF Redeem, Call
<1>3. QED
  BY <1>1, <1>2 DEF Call, Sale, Purchase

LEMMA CycleStep == TypeOK /\ CallOK /\ [Next]_vars => CycleOK'
<1> SUFFICES ASSUME TypeOK /\ CallOK, [Next]_vars PROVE CycleOK'
  OBVIOUS
<1> USE DEF CycleOK
<1>1. CASE StartCycle
  BY <1>1 DEF StartCycle, TypeOK
<1>2. CASE ReconSkip
  BY <1>2 DEF ReconSkip, TypeOK
<1>3. CASE ReconFetch
  BY <1>3 DEF ReconFetch, TypeOK, Held
<1>4. CASE ReconDone
  BY <1>4 DEF ReconDone, TypeOK
<1>5. CASE SweepDone
  BY <1>5 DEF SweepDone, TypeOK
<1>6. CASE RefreshEquity
  BY <1>6 DEF RefreshEquity, TypeOK, Held
<1>7. CASE \E k \in Key, class \in Classes : ReconKey(k, class)
  BY <1>7, Made DEF ReconKey, TypeOK
<1>8. CASE \E k \in Key : SweepKey(k)
  BY <1>8, Made DEF SweepKey, TypeOK
<1>9. CASE \E landed, ok \in BOOLEAN : RedeemReturn(landed, ok)
  BY <1>9, Made DEF RedeemReturn, TypeOK, CallOK
<1>10. CASE \E k \in Key : ExitSettle(k)
  BY <1>10, Made DEF ExitSettle, TypeOK
<1>11. CASE \E k \in Key : ExitHold(k)
  BY <1>11 DEF ExitHold, TypeOK
<1>12. CASE \E k \in Key : ExitDust(k)
  BY <1>12 DEF ExitDust, TypeOK
<1>13. CASE \E k \in Key, f \in 0..PerPosition, px \in ExitPx : SendSell(k, f, px)
  BY <1>13, Made DEF SendSell, TypeOK, Sale
<1>14. CASE SellKept
  BY <1>14, Made DEF SellKept, TypeOK
<1>15. CASE SellTerminal
  BY <1>15, Made DEF SellTerminal, TypeOK
<1>16. CASE SellBooked
  BY <1>16, Made, Calls DEF SellBooked, TypeOK, Sale
<1>17. CASE SellClosed
  BY <1>17, Made DEF SellClosed, TypeOK
<1>18. CASE Mark
  BY <1>18 DEF Mark, TypeOK
<1>19. CASE \E k \in Key : EntryConsumed(k)
  BY <1>19 DEF EntryConsumed, TypeOK, OtherMarkets
<1>20. CASE \E k \in Key : EntrySkipped(k)
  BY <1>20 DEF EntrySkipped, TypeOK, OtherMarkets
<1>21. CASE \E k \in Key, f \in 0..PerPosition : SendBuy(k, f)
  BY <1>21, Made DEF SendBuy, TypeOK, OtherMarkets, Purchase
<1>22. CASE BuyRefused
  BY <1>22, Made DEF BuyRefused, TypeOK
<1>23. CASE BuyBooked
  BY <1>23, Made, Calls DEF BuyBooked, TypeOK, Purchase
<1>24. CASE BuyOpened
  BY <1>24, Made DEF BuyOpened, TypeOK
<1>25. CASE EntriesDone
  BY <1>25 DEF EntriesDone, TypeOK
<1>26. CASE Timeout
  BY <1>26, Made DEF Timeout, TypeOK
<1>27. CASE Reexec
  BY <1>27, Made DEF Reexec, TypeOK, Restart
<1>28. CASE Crash
  BY <1>28, Made DEF Crash, TypeOK, Restart
<1>29. CASE UNCHANGED <<pc, todo, call, swept, signals, restarts>>
  BY <1>29 DEF TypeOK
<1>30. QED
  BY <1>1, <1>2, <1>3, <1>4, <1>5, <1>6, <1>7, <1>8, <1>9, <1>10, <1>11, <1>12, <1>13,
      <1>14, <1>15, <1>16, <1>17, <1>18, <1>19, <1>20, <1>21, <1>22, <1>23, <1>24, <1>25,
      <1>26, <1>27, <1>28, <1>29
     DEF Next, Environment, Resolve, ExternalClose, ApiSync, Midnight, WriterCommit

LEMMA SmallerBound ==
  ASSUME NEW x \in Int, NEW y \in Int
  PROVE  SmallerOf(x, y) \in Int /\ SmallerOf(x, y) <= y
BY DEF SmallerOf

LEMMA SlotsBounded == TypeOK => Slots \in Int /\ Slots <= MaxConcurrent
<1> SUFFICES ASSUME TypeOK PROVE Slots \in Int /\ Slots <= MaxConcurrent
  OBVIOUS
<1>1. MaxConcurrent \in Int /\ PerPosition \in Int /\ PerPosition > 0 /\ GrossPct \in Int
  OBVIOUS
<1>2. equity \in Int
  BY DEF TypeOK, MoneyOK
<1>3. Scaled(equity) \in Int
  BY <1>1, <1>2 DEF Scaled
<1>4. Scaled(equity) \div PerPosition \in Int
  BY <1>1, <1>3
<1>5. LET s == SmallerOf(Scaled(equity) \div PerPosition, MaxConcurrent)
      IN  s \in Int /\ s <= MaxConcurrent
  BY <1>1, <1>4, SmallerBound, Zenon
<1>6. Slots \in {MaxConcurrent, SmallerOf(Scaled(equity) \div PerPosition, MaxConcurrent)}
  BY Zenon DEF Slots
<1>7. QED
  BY <1>1, <1>5, <1>6

LEMMA HeldFinite == IsFiniteSet(Held) /\ Cardinality(Held) \in Nat
BY FS_Subset, FS_CardinalityType DEF Held

LEMMA GrossInt == \A e \in Int : GrossCap(e) \in Int
BY DEF GrossCap, UseStatic, Scaled, SmallerOf

\* What the book deploys, over all the keys.
LEMMA DeployedIs ==
  TypeOK => /\ Deployed = Total(open, Key) /\ Total(open, Key) \in Nat
            /\ Total(rows, Key) \in Nat
<1> SUFFICES ASSUME TypeOK
             PROVE  /\ Deployed = Total(open, Key) /\ Total(open, Key) \in Nat
                    /\ Total(rows, Key) \in Nat
  OBVIOUS
<1>1. open \in [Key -> Nat] /\ rows \in [Key -> Nat]
  BY DEF TypeOK, BookOK, StoreOK
<1>2. Deployed = Total(open, Held)
  BY Zenon DEF Deployed, Total
<1>3. /\ \A k \in Key : open[k] \in Int /\ open[k] \in Nat /\ rows[k] \in Nat
      /\ \A k \in Key \ Held : open[k] = 0
      /\ Held \in SUBSET Key
  BY <1>1 DEF Held
<1>4. Total(open, Key) = Total(open, Held)
  BY <1>3, TotalSupport
<1>5. Total(open, Key) \in Nat /\ Total(rows, Key) \in Nat
  BY <1>3, TotalType
<1>6. QED
  BY <1>2, <1>4, <1>5

\* An order of the size the caps leave fits beside what is deployed.
LEMMA SizeFits ==
  ASSUME TypeOK, equity \in Equities, NEW f \in 0..PositionSize, PositionSize > 0
  PROVE  Fits(Total(open, Key) + f)
<1>1. /\ equity \in Int /\ GrossCap(equity) \in Int /\ PerPosition \in Int /\ MinShares \in Int
      /\ Deployed \in Int /\ Deployed = Total(open, Key)
  BY GrossInt, DeployedIs DEF TypeOK, MoneyOK
<1>2. CapLeft = GrossCap(equity) - Deployed /\ CapLeft \in Int
  BY <1>1 DEF CapLeft
<1> DEFINE size == SmallerOf(PerPosition, CapLeft)
<1>3. size \in Int /\ size <= CapLeft
  BY <1>1, <1>2, SmallerBound
<1>4. PositionSize \in {0, size}
  BY Zenon DEF PositionSize
<1> HIDE DEF size
<1>5. f \in Int /\ f <= size
  BY <1>3, <1>4
<1>6. Total(open, Key) + f <= GrossCap(equity)
  BY <1>1, <1>2, <1>3, <1>5
<1>7. QED
  BY <1>6 DEF Fits

(* What a call is about stays as it was until it is answered.              *)

LEMMA CallStep == TypeOK /\ (equity \in Equities) /\ CallOK /\ [Next]_vars => CallOK'
<1> SUFFICES ASSUME TypeOK /\ (equity \in Equities) /\ CallOK, [Next]_vars PROVE CallOK'
  OBVIOUS
<1>1. CASE \E k \in Key : SweepKey(k)
  BY <1>1 DEF SweepKey, CallOK, Redeem
<1>2. CASE \E k \in Key, class \in Classes : ReconKey(k, class)
  BY <1>2 DEF ReconKey, CallOK, Redeem, NoCall
<1>3. CASE \E k \in Key : ExitSettle(k)
  BY <1>3 DEF ExitSettle, CallOK, Redeem
<1>4. CASE \E k \in Key, f \in 0..PerPosition, px \in ExitPx : SendSell(k, f, px)
  <2>1. call'.op = "sell" /\ call'.f <= open[call'.key] /\ open' = open
    BY <1>4 DEF SendSell, TypeOK, BookOK
  <2>2. QED
    BY <2>1 DEF CallOK
<1>5. CASE \E k \in Key, f \in 0..PerPosition : SendBuy(k, f)
  <2>1. PICK k \in Key, f \in 0..PerPosition : SendBuy(k, f)
    BY <1>5
  <2>2. k[1] \notin HeldConds /\ Cardinality(Held) < MaxConcurrent
    <3>1. Cardinality(Held) < Slots /\ k[1] \notin HeldConds
      BY <2>1 DEF SendBuy, Entrable
    <3>2. MaxConcurrent \in Int
      OBVIOUS
    <3>3. QED
      BY <3>1, <3>2, HeldFinite, SlotsBounded
  <2>3. call' = [op |-> "buy", key |-> k, f |-> f] /\ open' = open
    BY <2>1 DEF SendBuy
  <2>4. Fits(Total(open, Key) + f)
    <3>1. f \in 0..PositionSize /\ PositionSize > 0
      BY <2>1 DEF SendBuy, Entrable
    <3>2. QED
      BY <3>1, SizeFits
  <2>5. Room(k)' /\ Fits(Total(open, Key) + f)'
    BY <2>2, <2>3, <2>4 DEF Room, Held, HeldConds, Fits, Equities
  <2>6. QED
    BY <2>3, <2>5 DEF CallOK
<1>6. CASE SellBooked
  <2>1. /\ call' = [call EXCEPT !.op = "sold"] /\ open' = open /\ call.op = "sell"
    BY <1>6 DEF SellBooked
  <2>2. call'.op = "sold" /\ call'.f = call.f /\ call'.key = call.key
    BY <2>1, Calls DEF Sale
  <2>3. QED
    BY <2>1, <2>2 DEF CallOK
<1>7. CASE BuyBooked
  <2>1. /\ call' = [call EXCEPT !.op = "bought"] /\ open' = open /\ call.op = "buy"
    BY <1>7 DEF BuyBooked
  <2>2. call'.op = "bought" /\ call'.key = call.key /\ call'.f = call.f
    BY <2>1, Calls DEF Purchase
  <2>3. /\ Room(call.key)' <=> Room(call.key)
        /\ Fits(Total(open, Key) + call.f)' <=> Fits(Total(open, Key) + call.f)
    BY <2>1, <2>2 DEF Room, Held, HeldConds, Fits, Equities
  <2>4. QED
    BY <2>1, <2>2, <2>3 DEF CallOK
<1>8. CASE call' = NoCall
  BY <1>8 DEF CallOK, NoCall
<1>9. CASE UNCHANGED <<call, open, swept>>
  <2>1. Held' = Held /\ HeldConds' = HeldConds
    BY <1>9 DEF Held, HeldConds
  <2>2. QED
    BY <1>9, <2>1 DEF CallOK, Room, Fits, Equities
<1>10. QED
  BY <1>1, <1>2, <1>3, <1>4, <1>5, <1>6, <1>7, <1>8, <1>9
     DEF Next, Environment, Resolve, ExternalClose, ApiSync, Midnight, WriterCommit,
         StartCycle, ReconSkip, ReconFetch, ReconDone, SweepDone, RefreshEquity,
         RedeemReturn, ExitHold, ExitDust, SellKept, SellTerminal, SellClosed, Mark,
         EntryConsumed, EntrySkipped, BuyRefused, BuyOpened, EntriesDone, Timeout, Reexec,
         Crash, Restart

-----------------------------------------------------------------------------
(* How a step moves the book and its rows.                                 *)

LEMMA SentDay ==
  ASSUME NEW k, NEW q, NEW delta, SendRow(k, q, delta)
  PROVE  storeQ'.day = storeQ.day + delta
BY DEF SendRow

LEMMA SentRow ==
  ASSUME RowsFit, NEW k, NEW q, NEW delta, SendRow(k, q, delta)
  PROVE  storeQ'.row = [storeQ.row EXCEPT ![k] = q]
BY DEF SendRow, Taken, RowsFit

Kept == open' = open /\ rows' = rows /\ storeQ'.row = storeQ.row

Set(k, q) ==
  /\ open' = [open EXCEPT ![k] = q]
  /\ storeQ'.row = [storeQ.row EXCEPT ![k] = q]
  /\ rows' = rows

Opens(k, q) == Room(k) /\ Fits(Total(open, Key) + q)

\* A step keeps the book, lowers one position, opens one where there is room, or
\* is a commit or a restart.
LEMMA BookMoves ==
  RowsFit /\ TypeOK /\ CallOK /\ [Next]_vars =>
    \/ Kept
    \/ \E k \in Key, q \in Nat : Set(k, q) /\ (q <= open[k] \/ Opens(k, q))
    \/ open' = open /\ WriterCommit
    \/ open' = rows /\ rows' = rows /\ storeQ' = NoMessages
<1> SUFFICES ASSUME RowsFit, TypeOK, CallOK, [Next]_vars
             PROVE  \/ Kept
                    \/ \E k \in Key, q \in Nat : Set(k, q) /\ (q <= open[k] \/ Opens(k, q))
                    \/ open' = open /\ WriterCommit
                    \/ open' = rows /\ rows' = rows /\ storeQ' = NoMessages
  OBVIOUS
<1> DEFINE Moves == \E k \in Key, q \in Nat : Set(k, q) /\ (q <= open[k] \/ Opens(k, q))
<1>1. ASSUME NEW k \in Key, Set(k, 0) PROVE Moves
  <2>1. open[k] \in Nat
    BY DEF TypeOK, BookOK
  <2>2. QED
    BY <1>1, <2>1
<1> HIDE DEF Moves
<1>2. ASSUME NEW k \in Key, PruneGone(k), rows' = rows PROVE Moves
  <2>1. open' = [open EXCEPT ![k] = 0] /\ SendRow(k, 0, 0)
    BY <1>2 DEF PruneGone
  <2>2. Set(k, 0)
    BY <1>2, <2>1, SentRow DEF Set
  <2>3. QED
    BY <2>2, <1>1
<1>3. ASSUME NEW k \in Key, NEW v, CloseAt(k, v), rows' = rows PROVE Moves
  <2>1. PICK told \in Taken("day", 0, v - open[k]) :
          open' = [open EXCEPT ![k] = 0] /\ SendRow(k, 0, told)
    BY <1>3 DEF CloseAt, Ledger
  <2>2. Set(k, 0)
    BY <1>3, <2>1, SentRow DEF Set
  <2>3. QED
    BY <2>2, <1>1
<1>4. CASE WriterCommit
  BY <1>4 DEF WriterCommit
<1>5. CASE Midnight
  <2>1. storeQ \in [row: [Key -> Nat \cup {NoRow}], day: Int]
    BY DEF TypeOK, StoreOK
  <2>2. QED
    BY <1>5, <2>1 DEF Midnight, Kept
<1>6. CASE \E k \in Key, class \in Classes : ReconKey(k, class)
  <2>1. PICK k \in Key, class \in Classes : ReconKey(k, class)
    BY <1>6
  <2>2. \/ UNCHANGED <<open, storeQ>>
        \/ PruneGone(k)
        \/ \E v : CloseAt(k, v)
    BY <2>1, Zenon DEF ReconKey, ReconGone
  <2>3. rows' = rows
    BY <2>1 DEF ReconKey
  <2>4. QED
    BY <2>2, <2>3, <1>2, <1>3 DEF Kept, Moves
<1>7. CASE \E k \in Key : ExitSettle(k)
  <2>1. PICK k \in Key : ExitSettle(k)
    BY <1>7
  <2>2. (\E v : CloseAt(k, v)) /\ rows' = rows
    BY <2>1, Zenon DEF ExitSettle
  <2>3. QED
    BY <2>2, <1>3 DEF Moves
<1>8. CASE \E k \in Key : ExitDust(k)
  BY <1>8, <1>2 DEF ExitDust, Moves
<1>9. CASE SellTerminal
  BY <1>9, <1>2, Orders DEF SellTerminal, Moves
<1>10. CASE SellClosed
  <2>1. /\ call.key \in Key /\ call.f \in Nat /\ call.f <= open[call.key]
        /\ open[call.key] \in Nat
    BY <1>10, Orders DEF SellClosed, CallOK, TypeOK, BookOK
  <2>2. open'[call.key] = open[call.key] - call.f
    BY <1>10, <2>1 DEF SellClosed, TypeOK, BookOK
  <2>3. Set(call.key, open'[call.key])
    <3>1. PICK told \in Taken("day", 0, call.f * (call.px - 1)) :
            /\ open' = [open EXCEPT ![call.key] = @ - call.f] /\ rows' = rows
            /\ SendRow(call.key, open'[call.key], told)
      BY <1>10 DEF SellClosed, Ledger
    <3>2. storeQ'.row = [storeQ.row EXCEPT ![call.key] = open'[call.key]]
      BY <3>1, SentRow
    <3>3. open' = [open EXCEPT ![call.key] = open'[call.key]]
      BY <3>1, <2>1 DEF TypeOK, BookOK
    <3>4. QED
      BY <3>1, <3>2, <3>3 DEF Set
  <2>4. open'[call.key] \in Nat /\ open'[call.key] <= open[call.key]
    BY <2>1, <2>2
  <2>5. QED
    BY <2>1, <2>3, <2>4 DEF Moves
<1>11. CASE BuyOpened
  <2>1. call.key \in Key /\ call.f \in Nat /\ Opens(call.key, call.f)
    BY <1>11, Orders DEF BuyOpened, CallOK, Opens
  <2>2. Set(call.key, call.f)
    BY <1>11, SentRow DEF BuyOpened, Set
  <2>3. QED
    BY <2>1, <2>2 DEF Moves
<1>12. CASE Reexec
  BY <1>12 DEF Reexec, Restart
<1>13. CASE Crash
  BY <1>13 DEF Crash, Restart
<1>14. CASE UNCHANGED <<open, rows, storeQ>>
  BY <1>14 DEF Kept
<1>15. QED
  BY <1>4, <1>5, <1>6, <1>7, <1>8, <1>9, <1>10, <1>11, <1>12, <1>13, <1>14
     DEF Next, Environment, Resolve, ExternalClose, ApiSync, StartCycle, ReconSkip,
         ReconFetch, ReconDone, SweepDone, RefreshEquity, SweepKey, RedeemReturn, ExitHold,
         SendSell, SellKept, SellBooked, Mark, EntryConsumed, EntrySkipped, SendBuy,
         BuyRefused, BuyBooked, EntriesDone, Timeout, Moves

LEMMA MirrorStep == RowsFit /\ TypeOK /\ CallOK /\ Mirror /\ [Next]_vars => Mirror'
<1> SUFFICES ASSUME RowsFit, TypeOK, CallOK, Mirror, [Next]_vars PROVE Mirror'
  OBVIOUS
<1>1. CASE Kept
  BY <1>1 DEF Kept, Mirror
<1>2. ASSUME NEW k \in Key, NEW q \in Nat, Set(k, q) PROVE Mirror'
  <2>1. q # NoRow /\ open \in [Key -> Nat] /\ storeQ.row \in [Key -> Nat \cup {NoRow}]
    BY DEF TypeOK, BookOK, StoreOK, NoRow
  <2>2. QED
    BY <1>2, <2>1 DEF Set, Mirror
<1>3. CASE open' = open /\ WriterCommit
  BY <1>3 DEF WriterCommit, NoMessages, Mirror
<1>4. CASE open' = rows /\ rows' = rows /\ storeQ' = NoMessages
  BY <1>4 DEF NoMessages, Mirror
<1>5. QED
  BY <1>1, <1>2, <1>3, <1>4, BookMoves

LEMMA GoodSet ==
  ASSUME NEW f \in [Key -> Nat], NEW k \in Key, NEW q \in Nat, Good(f),
         \/ q <= f[k]
         \/ /\ \A l \in Stock(f) : l[1] # k[1]
            /\ Cardinality(Stock(f)) < MaxConcurrent
            /\ Fits(Total(f, Key) + q)
  PROVE  Good([f EXCEPT ![k] = q])
<1> DEFINE g == [f EXCEPT ![k] = q]
<1>1. IsFiniteSet(Stock(f)) /\ Cardinality(Stock(f)) \in Nat /\ MaxConcurrent \in Nat
  BY FS_Subset, FS_CardinalityType DEF Stock
<1>0. /\ Total(g, Key) = Total(f, Key) - f[k] + q
      /\ Total(f, Key) \in Nat /\ f[k] \in Nat
  <2>1. /\ \A x \in Key : f[x] \in Int /\ g[x] \in Int
        /\ \A x \in Key : f[x] \in Nat
        /\ \A x \in Key \ {k} : f[x] = g[x]
        /\ g[k] = q
    OBVIOUS
  <2> HIDE DEF g
  <2>2. Total(g, Key) = Total(f, Key) - f[k] + g[k]
    BY <2>1, TotalChange
  <2>3. Total(f, Key) \in Nat
    BY <2>1, TotalType
  <2>4. QED
    BY <2>1, <2>2, <2>3
<1>2. CASE q <= f[k]
  <2>1. Stock(g) \subseteq Stock(f)
    BY <1>2 DEF Stock
  <2>2. Cardinality(Stock(g)) <= Cardinality(Stock(f)) /\ Cardinality(Stock(g)) \in Nat
    BY <2>1, <1>1, FS_Subset, FS_CardinalityType
  <2> HIDE DEF g
  <2>3. Cardinality(Stock(f)) <= MaxConcurrent
    BY DEF Good
  <2>4. Cardinality(Stock(g)) <= MaxConcurrent
    BY <2>2, <2>3, <1>1
  <2>5. \A l, m \in Stock(g) : l[1] = m[1] => l = m
    BY <2>1, Zenon DEF Good
  <2>6. Fits(Total(g, Key))
    <3>1. PICK e \in Equities : Total(f, Key) <= GrossCap(e)
      BY DEF Good, Fits
    <3>2. GrossCap(e) \in Int /\ Total(g, Key) <= Total(f, Key) /\ Total(g, Key) \in Int
      BY <1>0, <1>2, GrossInt DEF Equities, Unknown
    <3>3. Total(g, Key) <= GrossCap(e)
      BY <3>1, <3>2, <1>0
    <3>4. QED
      BY <3>3 DEF Fits
  <2>7. QED
    BY <2>4, <2>5, <2>6, Zenon DEF Good, g
<1>3. CASE /\ \A l \in Stock(f) : l[1] # k[1]
           /\ Cardinality(Stock(f)) < MaxConcurrent
           /\ Fits(Total(f, Key) + q)
  <2>1. Stock(g) \subseteq Stock(f) \cup {k}
    BY DEF Stock
  <2>2. IsFiniteSet(Stock(f) \cup {k})
        /\ Cardinality(Stock(f) \cup {k}) <= Cardinality(Stock(f)) + 1
    <3>1. /\ IsFiniteSet(Stock(f) \cup {k})
          /\ Cardinality(Stock(f) \cup {k}) = IF k \in Stock(f) THEN Cardinality(Stock(f))
                                            ELSE Cardinality(Stock(f)) + 1
      BY <1>1, FS_AddElement, Zenon
    <3> HIDE DEF Stock
    <3>2. QED
      BY <1>1, <3>1
  <2>3. /\ Cardinality(Stock(g)) <= Cardinality(Stock(f) \cup {k})
        /\ Cardinality(Stock(g)) \in Nat /\ Cardinality(Stock(f) \cup {k}) \in Nat
    BY <2>1, <2>2, FS_Subset, FS_CardinalityType
  <2>4. Cardinality(Stock(g)) <= MaxConcurrent
    BY <2>2, <2>3, <1>1, <1>3
  <2>5. \A l, m \in Stock(g) : l[1] = m[1] => l = m
    BY <2>1, <1>3 DEF Good
  <2>6. f[k] = 0 \/ k \in Stock(f)
    BY <1>0 DEF Stock
  <2> HIDE DEF g
  <2>7. Total(g, Key) = Total(f, Key) + q
    BY <2>6, <1>0, <1>3
  <2>8. QED
    BY <2>4, <2>5, <2>7, <1>3 DEF Good, g
<1>4. QED
  BY <1>2, <1>3

LEMMA GoodStep ==
  RowsFit /\ TypeOK /\ CallOK /\ Mirror /\ Good(open) /\ Good(rows) /\ [Next]_vars
    => Good(open') /\ Good(rows')
<1> SUFFICES ASSUME RowsFit, TypeOK, CallOK, Mirror, Good(open), Good(rows), [Next]_vars
             PROVE  Good(open') /\ Good(rows')
  OBVIOUS
<1>1. CASE Kept
  BY <1>1 DEF Kept
<1>2. ASSUME NEW k \in Key, NEW q \in Nat, Set(k, q), q <= open[k] \/ Opens(k, q)
      PROVE  Good(open') /\ Good(rows')
  <2>1. open \in [Key -> Nat] /\ Held = Stock(open)
    BY DEF TypeOK, BookOK, Held, Stock
  <2>2. Room(k) => /\ \A l \in Stock(open) : l[1] # k[1]
                   /\ Cardinality(Stock(open)) < MaxConcurrent
    BY <2>1 DEF Room, HeldConds
  <2>3. QED
    BY <1>2, <2>1, <2>2, GoodSet DEF Set, Opens
<1>3. CASE open' = open /\ WriterCommit
  <2>1. open = [k \in Key |-> open[k]]
    BY DEF TypeOK, BookOK
  <2>2. rows' = open
    BY <1>3, <2>1 DEF WriterCommit, Mirror
  <2>3. QED
    BY <1>3, <2>2
<1>4. CASE open' = rows /\ rows' = rows /\ storeQ' = NoMessages
  BY <1>4
<1>5. QED
  BY <1>1, <1>2, <1>3, <1>4, BookMoves

-----------------------------------------------------------------------------
(* The day's ledger and the loss latch.                                    *)

LEMMA Numbers ==
  ASSUME TypeOK
  PROVE  /\ booked \in Int /\ dayRow \in Int /\ storeQ.day \in Int /\ DailyLoss \in Int
         /\ storeQ \in [row: [Key -> Nat \cup {NoRow}], day: Int]
BY DEF TypeOK, MoneyOK, StoreOK

LEMMA LedgerBooked ==
  ASSUME TypeOK, Booked, NEW delta \in Int, NEW k, NEW q, Ledger(delta, k, q), dayRow' = dayRow
  PROVE  Booked'
<1>1. PICK told \in Taken("day", 0, delta) : booked' = booked + told /\ SendRow(k, q, told)
  BY DEF Ledger
<1>2. told \in Int /\ storeQ'.day = storeQ.day + told
  BY <1>1, SentDay DEF Taken
<1>3. QED
  BY <1>1, <1>2, Numbers DEF Booked

LEMMA CloseBooked ==
  ASSUME TypeOK, Booked, NEW k \in Key, NEW v \in Int, CloseAt(k, v), dayRow' = dayRow
  PROVE  Booked'
<1>1. v - open[k] \in Int
  BY DEF TypeOK, BookOK
<1>2. QED
  BY <1>1, LedgerBooked DEF CloseAt

LEMMA PruneBooked ==
  ASSUME TypeOK, Booked, NEW k \in Key, PruneGone(k), dayRow' = dayRow
  PROVE  Booked'
<1>1. booked' = booked /\ storeQ'.day = storeQ.day + 0
  BY SentDay DEF PruneGone
<1>2. QED
  BY <1>1, Numbers DEF Booked

LEMMA BookedStep == TypeOK /\ CallOK /\ Booked /\ [Next]_vars => Booked'
<1> SUFFICES ASSUME TypeOK /\ CallOK /\ Booked, [Next]_vars PROVE Booked'
  OBVIOUS
<1>1. CASE Midnight
  <2>1. booked' = 0 /\ dayRow' = 0 /\ storeQ'.day = 0
    BY <1>1, Numbers DEF Midnight
  <2>2. QED
    BY <2>1 DEF Booked
<1>2. CASE WriterCommit
  <2>1. booked' = booked /\ dayRow' = dayRow + storeQ.day /\ storeQ'.day = 0
    BY <1>2 DEF WriterCommit, NoMessages
  <2>2. QED
    BY <2>1, Numbers DEF Booked
<1>3. CASE \E k \in Key, class \in Classes : ReconKey(k, class)
  <2>1. PICK k \in Key, class \in Classes : ReconKey(k, class)
    BY <1>3
  <2>2. Face * open[k] \in Int
    BY DEF TypeOK, BookOK
  <2>3. dayRow' = dayRow
    BY <2>1 DEF ReconKey
  <2>4. \/ UNCHANGED <<booked, storeQ>>
        \/ PruneGone(k)
        \/ CloseAt(k, 0)
        \/ CloseAt(k, Face * open[k])
    BY <2>1, Zenon DEF ReconKey, ReconGone
  <2>5. QED
    BY <2>2, <2>3, <2>4, CloseBooked, PruneBooked DEF Booked
<1>4. CASE \E k \in Key : ExitSettle(k)
  <2>1. PICK k \in Key : ExitSettle(k)
    BY <1>4
  <2>2. Face * open[k] \in Int
    BY DEF TypeOK, BookOK
  <2>3. dayRow' = dayRow /\ (CloseAt(k, 0) \/ CloseAt(k, Face * open[k]))
    BY <2>1, Zenon DEF ExitSettle
  <2>4. QED
    BY <2>2, <2>3, CloseBooked
<1>5. CASE \E k \in Key : ExitDust(k)
  BY <1>5, PruneBooked DEF ExitDust
<1>6. CASE SellTerminal
  BY <1>6, PruneBooked, Orders DEF SellTerminal
<1>7. CASE SellClosed
  <2>1. call.f \in Int /\ call.px \in Int
    BY <1>7, Orders DEF SellClosed
  <2>2. call.f * (call.px - 1) \in Int
    BY <2>1
  <2>3. QED
    BY <1>7, <2>2, LedgerBooked DEF SellClosed
<1>8. CASE BuyOpened
  <2>1. booked' = booked /\ dayRow' = dayRow /\ storeQ'.day = storeQ.day + 0
    BY <1>8, SentDay DEF BuyOpened
  <2>2. QED
    BY <2>1, Numbers DEF Booked
<1>9. CASE Crash
  <2>1. booked' = booked - storeQ.day /\ dayRow' = dayRow /\ storeQ'.day = 0
    BY <1>9 DEF Crash, Restart, NoMessages
  <2>2. QED
    BY <2>1, Numbers DEF Booked
<1>10. CASE UNCHANGED <<booked, dayRow, storeQ>>
  BY <1>10 DEF Booked
<1>11. QED
  BY <1>1, <1>2, <1>3, <1>4, <1>5, <1>6, <1>7, <1>8, <1>9, <1>10
     DEF Next, Environment, Resolve, ExternalClose, ApiSync, StartCycle, ReconSkip,
         ReconFetch, ReconDone, SweepDone, RefreshEquity, SweepKey, RedeemReturn, ExitHold,
         SendSell, SellKept, SellBooked, Mark, EntryConsumed, EntrySkipped, SendBuy,
         BuyRefused, BuyBooked, EntriesDone, Timeout, Reexec, Restart


LEMMA LatchedStep == TypeOK /\ Booked /\ Latched /\ [Next]_vars => Latched'
<1> SUFFICES ASSUME TypeOK /\ Booked /\ Latched, [Next]_vars PROVE Latched'
  OBVIOUS
<1>1. CASE StartCycle
  <2>1. booked - storeQ.day = dayRow
    BY Numbers DEF Booked
  <2>2. pc' = "recon" /\ (pastCap' => dayHalted')
    BY <1>1, <2>1, Zenon DEF StartCycle
  <2>3. QED
    BY <2>2 DEF Latched
<1>2. CASE Midnight
  BY <1>2 DEF Midnight, Latched
<1>3. CASE Mark
  <2>1. dayHalted' = dayHalted /\ pastCap' = pastCap /\ pc = "exit"
    BY <1>3 DEF Mark
  <2>2. pc' = "idle" \/ (pc' = "entry" /\ ~dayHalted)
    BY <1>3, Zenon DEF Mark
  <2>3. QED
    BY <2>1, <2>2 DEF Latched
<1>4. CASE ReconSkip
  BY <1>4 DEF ReconSkip, Latched
<1>5. CASE ReconFetch
  BY <1>5 DEF ReconFetch, Latched
<1>6. CASE ReconDone
  BY <1>6 DEF ReconDone, Latched
<1>7. CASE SweepDone
  BY <1>7 DEF SweepDone, Latched
<1>8. CASE RefreshEquity
  BY <1>8 DEF RefreshEquity, Latched
<1>9. CASE pc' = "idle"
  BY <1>9 DEF Latched
<1>10. CASE UNCHANGED <<pastCap, pc, dayHalted>>
  BY <1>10 DEF Latched
<1>11. QED
  BY <1>1, <1>2, <1>3, <1>4, <1>5, <1>6, <1>7, <1>8, <1>9, <1>10
     DEF Next, Environment, Resolve, ExternalClose, ApiSync, WriterCommit, ReconKey,
         SweepKey, RedeemReturn, ExitSettle, ExitHold, ExitDust, SendSell, SellKept,
         SellTerminal, SellBooked, SellClosed, EntryConsumed, EntrySkipped, SendBuy,
         BuyRefused, BuyBooked, BuyOpened, EntriesDone, Timeout, Reexec, Crash, Restart

LEMMA EquityStep == equity \in Equities /\ [Next]_vars => (equity \in Equities)'
<1> SUFFICES ASSUME equity \in Equities, [Next]_vars PROVE equity' \in Equities
  BY DEF Equities
<1>1. CASE RefreshEquity
  BY <1>1 DEF RefreshEquity, Equities
<1>2. CASE Reexec
  BY <1>2 DEF Reexec, Restart, Equities
<1>3. CASE Crash
  BY <1>3 DEF Crash, Restart, Equities
<1>4. CASE UNCHANGED equity
  BY <1>4
<1>5. QED
  BY <1>1, <1>2, <1>3, <1>4
     DEF Next, Environment, Resolve, ExternalClose, ApiSync, Midnight, WriterCommit,
         StartCycle, ReconSkip, ReconFetch, ReconDone, SweepDone, ReconKey, SweepKey,
         RedeemReturn, ExitSettle, ExitHold, ExitDust, SendSell, SellKept, SellTerminal,
         SellBooked, SellClosed, Mark, EntryConsumed, EntrySkipped, SendBuy, BuyRefused,
         BuyBooked, BuyOpened, EntriesDone, Timeout

-----------------------------------------------------------------------------
(* The theorems.                                                           *)

LEMMA Initially == Init => IInv
<1> SUFFICES ASSUME Init PROVE IInv
  OBVIOUS
<1>1. TypeOK
  <2>1. ChainOK /\ StoreOK
    <3>1. ChainOK
      BY DEF Init, ChainOK
    <3>2. storeQ \in [row: [Key -> Nat \cup {NoRow}], day: Int]
      BY DEF Init, NoMessages
    <3>3. QED
      BY <3>1, <3>2 DEF Init, StoreOK
  <2>2. BookOK
    BY DEF Init, BookOK
  <2>3. MoneyOK
    <3>1. realized \in Int /\ booked \in Int /\ equity \in Int
      BY DEF Init, Unknown
    <3>2. QED
      BY <3>1 DEF Init, MoneyOK
  <2>4. CycleOK
    BY Made DEF Init, CycleOK
  <2>5. QED
    BY <2>1, <2>2, <2>3, <2>4 DEF TypeOK
<1>2. CallOK
  BY DEF Init, CallOK, NoCall
<1>3. Mirror
  BY DEF Init, Mirror, NoMessages, NoRow
<1>4. Good(open) /\ Good(rows)
  <2>1. Stock(open) = {} /\ Stock(rows) = {}
    BY DEF Init, Stock
  <2>2. MaxConcurrent \in Nat
    OBVIOUS
  <2>3. Total(open, Key) = 0 /\ Total(rows, Key) = 0
    <3>1. /\ \A k \in Key : open[k] \in Int /\ rows[k] \in Int
          /\ \A k \in Key \ {} : open[k] = 0 /\ rows[k] = 0
          /\ {} \in SUBSET Key
      BY DEF Init
    <3>2. Total(open, Key) = Total(open, {}) /\ Total(rows, Key) = Total(rows, {})
      BY <3>1, TotalSupport
    <3>3. QED
      BY <3>2, TotalEmpty
  <2>4. 0 <= GrossCap(Unknown)
    BY DEF GrossCap, UseStatic, Unknown, SmallerOf
  <2>5. Fits(Total(open, Key)) /\ Fits(Total(rows, Key))
    BY <2>3, <2>4 DEF Fits, Equities
  <2>6. QED
    BY <2>1, <2>2, <2>5, FS_EmptySet DEF Good
<1>5. Booked /\ Latched
  BY DEF Init, Booked, Latched, NoMessages
<1>6. equity \in Equities
  BY DEF Init, Equities
<1>7. QED
  BY <1>1, <1>2, <1>3, <1>4, <1>5, <1>6 DEF IInv, Stored

LEMMA Step == IInv /\ [Next]_vars => IInv'
<1> SUFFICES ASSUME IInv, [Next]_vars PROVE IInv'
  OBVIOUS
<1>1. TypeOK'
  BY ChainStep, StoreStep, BookStep, MoneyStep, CycleStep DEF IInv, TypeOK
<1>2. CallOK'
  BY CallStep DEF IInv
<1>3. Booked' /\ Latched'
  BY BookedStep, LatchedStep DEF IInv
<1>4. ASSUME RowsFit PROVE Stored'
  <2>1. Mirror'
    BY <1>4, MirrorStep DEF IInv, Stored
  <2>2. Good(open') /\ Good(rows')
    BY <1>4, GoodStep DEF IInv, Stored
  <2>3. QED
    BY <2>1, <2>2 DEF Stored, Good
<1>5. (equity \in Equities)'
  BY EquityStep DEF IInv
<1>6. QED
  BY <1>1, <1>2, <1>3, <1>4, <1>5 DEF IInv, RowsFit

\* Every reachable state satisfies the inductive invariant: a sale never exceeds
\* the position, what the channel took of the day's results is written or queued, and
\* while no row of the book is dropped the store will hold what the book holds.
THEOREM Inductive == Spec => []IInv
<1>1. QED
  BY Initially, Step, PTL DEF Spec

\* Type correctness of the copy strategy: no sale, prune or settlement makes a
\* holding negative, in the wallet, the book or the store.
THEOREM TypeCorrect == Spec => []TypeOK
<1>1. IInv => TypeOK
  BY DEF IInv
<1>2. QED
  BY <1>1, Inductive, PTL

\* The book never holds both outcomes of a market, through the timeouts that drop
\* an order before it is booked and the restarts that load an older store.
THEOREM OneSideHolds == ASSUME RowsFit PROVE Spec => []OneSide
<1>1. IInv => OneSide
  BY DEF IInv, Stored, Good, Stock, OneSide, Held
<1>2. QED
  BY <1>1, Inductive, PTL

\* run_entries never deploys more than a gross that the configuration allows, for
\* the equity that was read, nor holds more than max_concurrent positions, and a
\* restart does not load more.
THEOREM CapsHeld == ASSUME RowsFit PROVE Spec => []CapsHold
<1>1. IInv => CapsHold
  <2> SUFFICES ASSUME IInv PROVE CapsHold
    OBVIOUS
  <2>1. SlotsHold
    BY DEF IInv, Stored, Good, Stock, SlotsHold, Held
  <2>2. \E e \in Equity \cup {Unknown} : Deployed <= GrossCap(e)
    BY DeployedIs DEF IInv, Stored, Good, Fits, Equities
  <2>3. QED
    BY <2>1, <2>2 DEF CapsHold
<1>2. QED
  BY <1>1, Inductive, PTL

\* No cycle that began with the day's written closes at the daily cap enters a
\* position, in the process that booked them or in one that restarted since, and
\* whatever the channel dropped, the queue held or a crash lost before.
THEOREM LossCapHolds == Spec => LossCapBinds
<1>1. IInv /\ [Next]_vars => [signals' # signals => ~pastCap]_vars
  <2> SUFFICES ASSUME IInv, [Next]_vars, signals' # signals PROVE ~pastCap
    BY Zenon
  <2>1. pc = "entry"
    BY DEF Next, Environment, Resolve, ExternalClose, ApiSync, Midnight, WriterCommit,
           StartCycle, ReconSkip, ReconFetch, ReconDone, SweepDone, RefreshEquity,
           ReconKey, SweepKey, RedeemReturn, ExitSettle, ExitHold, ExitDust, SendSell,
           SellKept, SellTerminal, SellBooked, SellClosed, Mark, EntryConsumed,
           EntrySkipped, SendBuy, BuyRefused, BuyBooked, BuyOpened, EntriesDone,
           Timeout, Reexec, Crash, Restart
  <2>2. QED
    BY <2>1 DEF IInv, Latched
<1>2. QED
  BY <1>1, Inductive, PTL DEF LossCapBinds, Spec

===============================================================================
