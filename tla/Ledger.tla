------------------------------- MODULE Ledger -------------------------------
(***************************************************************************)
(* Two strategies and one store: the paper market maker's inventory in     *)
(* memory (average cost), the arb strategy's holdings, and the lots of     *)
(* both (crates/store: FIFO, one stack per token and strategy), fed by a   *)
(* bounded queue that one writer task empties in order.                    *)
(*                                                                         *)
(*   mm  --FillSigned-->            \                                      *)
(*                                   queue --> writer --> lots --> restart *)
(*   arb --Fill, Conversion (acked)-/                                      *)
(*                                                                         *)
(* Arb rows are acknowledged: arb has one outstanding and acts on it only  *)
(* when it is committed.  The market maker never waits for its own.  The   *)
(* other rows of the queue (opportunities, orders, snapshots) leave the    *)
(* lots alone and are left out.                                            *)
(***************************************************************************)
EXTENDS Inventory, SequencesExt

CONSTANTS
  Yes, No,             \* the two tokens of a market: one of each redeems for a Share
  Share,               \* ONE_SHARE_MICRO, and the price of a complete set
  Sizes, Prices,       \* of fills and conversions
  QueueCap,            \* the writer's channel
  MaxRows              \* fills and conversions, in all

Outcome == {Yes, No}
Strategy == {"arb", "mm"}

ASSUME LedgerAssumption ==
  /\ Yes # No /\ Share \in Nat \ {0}
  /\ Sizes \subseteq Nat \ {0} /\ Prices \subseteq 0..Share
  /\ QueueCap \in Nat \ {0} /\ MaxRows \in Nat

VARIABLES
  inv,                 \* MmLoop.inv
  hedging,             \* reward_farm.hedging_enabled of this process: bids only, sets are merged
  held,                \* what the arb process has of each token
  queue,
  lots, booked,        \* the store: open lots in id order, and the realized total
  cash,                \* ghost: the cash of the committed rows
  moved,               \* ghost: the cash of the seed and of every change since
  merged, lost,        \* ghosts: shares merged, shares of failed rows, since the start
  oversold,            \* ghost: a row was refused for lack of lots
  rows

store == <<lots, booked, cash, oversold>>
mmVars == <<inv, moved, merged>>
ledgerVars == <<inv, hedging, held, queue, store, moved, merged, lost, rows>>

CeilDiv(a, b) == (a + b - 1) \div b

\* buy_cost rounds up, sell_proceeds down
CashOf(q, px) == IF q > 0 THEN -CeilDiv(px * q, Share) ELSE (px * (-q)) \div Share

-----------------------------------------------------------------------------
(* lots.rs: a lot is the quantity and the cost it was opened with and what *)
(* remains of them; shorts are negative.                                   *)

Lot(q, c) == [qty0 |-> q, cost0 |-> c, qty |-> q, cost |-> c]

SumOver(F(_), seq) == SumFunction([i \in DOMAIN seq |-> F(seq[i])])
Shares(stack) == SumOver(LAMBDA l : l.qty, stack)
Cost(stack) == SumOver(LAMBDA l : l.cost, stack)

\* what is taken from a lot in full is exact, in part it is rounded against us
CostOfPart(l, take) ==
  IF take = Abs(l.qty) THEN l.cost
  ELSE IF l.qty > 0 THEN CeilDiv(l.cost * take, l.qty)
  ELSE -(((-l.cost) * take) \div (-l.qty))

\* one lot of the loop: of this side, and while anything is needed
TakeFrom(acc, l, sign) ==
  LET take == IF l.qty * sign <= 0 \/ acc.need = 0 THEN 0
              ELSE IF acc.need < Abs(l.qty) THEN acc.need ELSE Abs(l.qty)
      left == IF take = 0 THEN l
              ELSE [l EXCEPT !.qty = @ - sign * take, !.cost = @ - CostOfPart(l, take)]
  IN  [need |-> acc.need - take,
       cost |-> acc.cost + (l.cost - left.cost),
       stack |-> IF left.qty = 0 THEN acc.stack ELSE Append(acc.stack, left)]

\* consume_open_side (and consume_lots): the oldest lots of one side first
Consume(stack, want, sign) ==
  FoldLeft(LAMBDA acc, l : TakeFrom(acc, l, sign), [need |-> want, cost |-> 0, stack |-> <<>>], stack)

\* Mutant: the lot a flip opens takes the whole cash.
SignedFillUnsplit(stack, q, c) ==
  LET n == Abs(q)
      closing == Consume(stack, n, IF q > 0 THEN -1 ELSE 1)
      sign == IF q > 0 THEN 1 ELSE -1
  IN  [stack |-> IF closing.need = 0 THEN closing.stack
                 ELSE Append(closing.stack, Lot(sign * closing.need, -c)),
       realized |-> IF closing.need = n THEN 0 ELSE c - closing.cost,
       short |-> FALSE]

\* sell_signed, buy_signed: close the other side, open this one with the rest
SignedFill(stack, q, c) ==
  LET n == Abs(q)
      closing == Consume(stack, n, IF q > 0 THEN -1 ELSE 1)
      closed == n - closing.need
      cashClosed == IF closing.need = 0 THEN c
                    ELSE IF q > 0 THEN -CeilDiv((-c) * closed, n) ELSE (c * closed) \div n
      sign == IF q > 0 THEN 1 ELSE -1
  IN  [stack |-> IF closing.need = 0 THEN closing.stack
                 ELSE Append(closing.stack, Lot(sign * closing.need, -(c - cashClosed))),
       realized |-> cashClosed - closing.cost,
       short |-> FALSE]

\* insert_fill: a buy opens a lot, a sell must be covered
StrictFill(stack, q, c) ==
  IF q > 0 THEN [stack |-> Append(stack, Lot(q, -c)), realized |-> 0, short |-> FALSE]
  ELSE LET closing == Consume(stack, -q, 1)
       IN  [stack |-> closing.stack, realized |-> c - closing.cost, short |-> closing.need > 0]

-----------------------------------------------------------------------------
(* Rows. *)

FillSigned(t, q, c) == [kind |-> "fill", strategy |-> "mm", signed |-> TRUE, token |-> t, qty |-> q, cash |-> c]
Fill(t, q, c) == [FillSigned(t, q, c) EXCEPT !.strategy = "arb", !.signed = FALSE]
Split(n) == [kind |-> "split", strategy |-> "arb", units |-> n, cash |-> -n]
Merge(n) == [kind |-> "merge", strategy |-> "arb", units |-> n, cash |-> n]

FillCommitted(r) ==
  LET stack == lots[r.strategy][r.token]
  IN  IF r.signed THEN SignedFill(stack, r.qty, r.cash) ELSE StrictFill(stack, r.qty, r.cash)

\* apply_conversion: both tokens or neither; a split's odd unit goes to Yes
SplitCommitted(r) ==
  [t \in Outcome |-> StrictFill(lots["arb"][t], r.units,
                              IF t = Yes THEN -CeilDiv(r.units, 2) ELSE -(r.units \div 2))]
MergeCommitted(r) == [t \in Outcome |-> StrictFill(lots["arb"][t], -r.units, 0)]

Conversion(r) == IF r.kind = "split" THEN SplitCommitted(r) ELSE MergeCommitted(r)

-----------------------------------------------------------------------------
Nothing == [t \in Outcome |-> 0]

LedgerInit ==
  /\ inv = [t \in Outcome |-> Flat] /\ hedging \in BOOLEAN
  /\ held = Nothing /\ queue = <<>>
  /\ lots = [s \in Strategy |-> [t \in Outcome |-> <<>>]]
  /\ booked = [s \in Strategy |-> 0] /\ cash = [s \in Strategy |-> 0]
  /\ moved = Nothing /\ merged = Nothing /\ lost = Nothing /\ oversold = FALSE /\ rows = 0

\* a row goes into the queue; the sender waits for room
Send(r) ==
  /\ rows < MaxRows /\ rows' = rows + 1
  /\ Len(queue) < QueueCap
  /\ queue' = Append(queue, r)

\* MmLoop::consume_fills: the inventory first, then the row
MmFill(t, q, px) ==
  /\ q > 0 \/ ~hedging
  /\ Send(FillSigned(t, q, CashOf(q, px)))
  /\ inv' = [inv EXCEPT ![t] = OnFill(@, q, CashOf(q, px))]
  /\ moved' = [moved EXCEPT ![t] = @ + CashOf(q, px)]
  /\ UNCHANGED <<hedging, held, store, merged, lost>>

\* maybe_merge_sets on paper: apply_merge_result, and no row
Mergeable == LET long == {IF inv[t].net > 0 THEN inv[t].net ELSE 0 : t \in Outcome} IN CHOOSE n \in long : \A m \in long : n <= m
MergeCash(t) == IF t = Yes THEN Mergeable \div 2 ELSE Mergeable - Mergeable \div 2
MmMerge ==
  /\ hedging /\ Mergeable > 0
  /\ inv' = [t \in Outcome |-> OnFill(inv[t], -Mergeable, MergeCash(t))]
  /\ moved' = [t \in Outcome |-> moved[t] + MergeCash(t)]
  /\ merged' = [t \in Outcome |-> merged[t] + Mergeable]
  /\ UNCHANGED <<hedging, held, queue, store, lost, rows>>

\* a basket of the arb strategy: what it sells or merges it has
ArbIdle == ~\E i \in DOMAIN queue : queue[i].strategy = "arb"
\* Mutant: the next row does not wait for the last one's ack.
ArbSendsUnacked(r) == Send(r) /\ UNCHANGED <<mmVars, hedging, held, store, lost>>

ArbSends(r) == ArbIdle /\ Send(r) /\ UNCHANGED <<mmVars, hedging, held, store, lost>>

ArbFill(t, q, px) ==
  /\ held[t] + q >= 0
  /\ ArbSends(Fill(t, q, CashOf(q, px)))
ArbSplit(n) == ArbSends(Split(n))
ArbMerge(n) == (\A t \in Outcome : held[t] >= n) /\ ArbSends(Merge(n))

-----------------------------------------------------------------------------
(* run_writer. *)

\* what the arb strategy has once its row is acknowledged
Acked(r) ==
  [t \in Outcome |->
     held[t] + IF r.strategy = "mm" THEN 0
               ELSE IF r.kind = "split" THEN r.units
               ELSE IF r.kind = "merge" THEN -r.units
               ELSE IF r.token = t THEN r.qty ELSE 0]

RowLost(r) ==
  lost' = IF r.strategy = "mm" THEN [lost EXCEPT ![r.token] = @ + r.qty] ELSE lost

\* a transaction that fails is rolled back, and its ack dropped
WriteFails ==
  /\ queue # <<>>
  /\ queue' = Tail(queue) /\ RowLost(Head(queue))
  /\ UNCHANGED <<mmVars, hedging, held, store, rows>>

CommitFill ==
  /\ queue # <<>>
  /\ LET r == Head(queue)
         done == FillCommitted(r)
     IN  /\ r.kind = "fill" /\ queue' = Tail(queue)
         /\ IF done.short
            THEN oversold' = TRUE /\ RowLost(r) /\ UNCHANGED <<lots, booked, cash, held>>
            ELSE /\ lots' = [lots EXCEPT ![r.strategy][r.token] = done.stack]
                 /\ booked' = [booked EXCEPT ![r.strategy] = @ + done.realized]
                 /\ cash' = [cash EXCEPT ![r.strategy] = @ + r.cash]
                 /\ held' = Acked(r)
                 /\ UNCHANGED <<oversold, lost>>
  /\ UNCHANGED <<mmVars, hedging, rows>>

CommitConversion ==
  /\ queue # <<>>
  /\ LET r == Head(queue)
         done == Conversion(r)
     IN  /\ r.kind \in {"split", "merge"} /\ queue' = Tail(queue)
         /\ IF \E t \in Outcome : done[t].short
            THEN oversold' = TRUE /\ UNCHANGED <<lots, booked, cash, held>>
            ELSE /\ lots' = [lots EXCEPT !["arb"] = [t \in Outcome |-> done[t].stack]]
                 /\ booked' = [booked EXCEPT !["arb"] =
                                @ + IF r.kind = "split" THEN 0
                                    ELSE r.cash + done[Yes].realized + done[No].realized]
                 /\ cash' = [cash EXCEPT !["arb"] = @ + r.cash]
                 /\ held' = Acked(r)
                 /\ UNCHANGED oversold
  /\ UNCHANGED <<mmVars, hedging, lost, rows>>

\* Mutant: the seed is Store::position, the lots of both strategies.
RestartPosition ==
  /\ queue' = <<>> /\ held' = Nothing /\ hedging' \in BOOLEAN
  /\ inv' = [t \in Outcome |->
               LET stack == lots["mm"][t] \o lots["arb"][t]
               IN  IF Shares(stack) = 0 THEN Flat ELSE Seeded(Shares(stack), Cost(stack))]
  /\ moved' = [t \in Outcome |-> -inv'[t].basis]
  /\ merged' = Nothing /\ lost' = Nothing
  /\ UNCHANGED <<store, rows>>

\* the process ends, with what is queued, and another starts: with_seed
\* from open_positions, for strategy "mm" and a net that is not zero
Restart ==
  /\ queue' = <<>> /\ held' = Nothing /\ hedging' \in BOOLEAN
  /\ inv' = [t \in Outcome |->
               LET stack == lots["mm"][t]
               IN  IF Shares(stack) = 0 THEN Flat ELSE Seeded(Shares(stack), Cost(stack))]
  /\ moved' = [t \in Outcome |-> -inv'[t].basis]
  /\ merged' = Nothing /\ lost' = Nothing
  /\ UNCHANGED <<store, rows>>

LedgerNext ==
  \/ \E t \in Outcome, n \in Sizes, sign \in {1, -1}, px \in Prices :
       MmFill(t, sign * n, px) \/ ArbFill(t, sign * n, px)
  \/ \E n \in Sizes : ArbSplit(n) \/ ArbMerge(n)
  \/ MmMerge \/ WriteFails \/ CommitFill \/ CommitConversion \/ Restart

LedgerSpec == LedgerInit /\ [][LedgerNext]_ledgerVars

-----------------------------------------------------------------------------
(* Properties. *)

(* Every micro of cash a committed row moved is in the realized total or   *)
(* in the cost of an open lot, through part closes, flips, splits, merges  *)
(* and failed writes; and however often a lot is closed in part, it keeps  *)
(* no more of its cost (for a short, no less of its proceeds) than its     *)
(* exact share: what was realized is a floor.  The market maker's own      *)
(* inventory balances too, on the side of its net.  insert_fill_core,      *)
(* apply_conversion, consume_lots; on_fill, apply_merge_result.            *)
BooksBalance ==
  /\ \A s \in Strategy :
       /\ booked[s] - (Cost(lots[s][Yes]) + Cost(lots[s][No])) = cash[s]
       /\ \A t \in Outcome : \A i \in DOMAIN lots[s][t] :
            LET l == lots[s][t][i] IN l.cost * Abs(l.qty0) <= l.cost0 * Abs(l.qty)
  /\ \A t \in Outcome :
       LET i == inv[t]
       IN  /\ i.realized - i.basis = moved[t]
           /\ (i.net >= 0 => i.basis >= 0) /\ (i.net <= 0 => i.basis <= 0)

(* The FIFO lots and the average-cost inventory agree on the shares of     *)
(* every token: what is stored and queued is what the market maker has,    *)
(* plus what it merged and less the rows that failed, whatever the arb     *)
(* strategy did to the same token.  consume_fills, run_writer, with_seed.  *)
Queued(t) ==
  SumOver(LAMBDA r : IF r.strategy = "mm" /\ r.token = t THEN r.qty ELSE 0, queue)
StoreFollows ==
  \A t \in Outcome :
    Shares(lots["mm"][t]) + Queued(t) + lost[t] = inv[t].net + merged[t]

(* No row is refused for lack of lots: the arb strategy's own lots always  *)
(* cover what it sells and merges, though it acts on acknowledgements      *)
(* alone and the market maker trades the same tokens.  consume_lots.       *)
NoOversell == ~oversold

(* A process that starts after everything was written resumes from the     *)
(* position the last one held (with_seed, main.rs).                        *)
RestartResumes ==
  [][Restart /\ queue = <<>> /\ lost = Nothing => \A t \in Outcome : inv'[t].net = inv[t].net]_ledgerVars
=============================================================================
