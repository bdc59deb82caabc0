--------------------------------- MODULE Copy ---------------------------------
(***************************************************************************)
(* The copy-trading strategy (crates/app/src/strategy/copy.rs): one task   *)
(* that polls the trades of a whitelist of wallets, signals what they buy,    *)
(* and manages what it holds.  A poll cycle is                             *)
(*                                                                         *)
(*   day gate - reconcile - equity - exit sweep - mark - entries           *)
(*                                                                         *)
(* and a timeout drops it at any of its awaits: the venue may have traded  *)
(* by then.  Beside the task stand the wallet on the chain, a data API     *)
(* whose view of the wallet lags, the store's writer, and the restarts.    *)
(*                                                                         *)
(* A share costs one unit when it is bought and pays Face when its outcome *)
(* wins; ExitPx are the bids it can be sold at.                            *)
(***************************************************************************)
EXTENDS Integers, FiniteSets, FiniteSetsExt

CONSTANTS
  Cond,              \* markets (condition ids)
  Key,               \* the <<market, outcome>> pairs that trade
  PerPosition,       \* per_position_micro
  Capital, MaxGross, \* the static caps
  MaxConcurrent,
  GrossPct,          \* gross_pct, in percent; 0 turns equity scaling off
  Equity,            \* equities a refresh may find
  DailyLoss, StopLoss, \* daily_loss_usd, the unrealized stop
  MinShares,         \* MIN_COPY_SHARES_MICRO
  MissPrune,         \* RECON_MISS_PRUNE
  SweepMax,          \* RECON_SWEEP_MAX_PER_CYCLE
  Face, ExitPx,
  MayTimeout,        \* a cycle may hit POLL_CYCLE_TIMEOUT
  MayDrop,           \* what try_send may drop when the writer's channel is full:
                     \* "row" (a position), "day" (a result)
  MayResolve,        \* markets that may resolve
  MaxSignals, MaxRestarts \* bounds: candidates acted on, restarts

ASSUME CopyAssumption ==
  /\ Key \subseteq Cond \X {0, 1} /\ IsFiniteSet(Key)
  /\ {PerPosition, Capital, MaxGross, MaxConcurrent, GrossPct} \subseteq Nat
  /\ PerPosition > 0 /\ {MaxSignals, MaxRestarts} \subseteq Nat
  /\ {DailyLoss, StopLoss, MinShares, MissPrune, SweepMax} \subseteq Nat \ {0}
  /\ Face \in Nat /\ ExitPx \subseteq Nat /\ Equity \subseteq Int
  /\ MayResolve \subseteq Cond
  /\ MayTimeout \in BOOLEAN /\ MayDrop \subseteq {"row", "day"}

Unknown == -1          \* no equity yet: as a wiped-out one, it leaves the static caps
Unresolved == -1
NoCall == [op |-> "none"]

VARIABLES
  wallet, resolved,  \* the chain: shares held, outcome of each market
  synced,            \* the data API has caught up with the chain for good
  rows, dayRow,      \* the store: open positions, today's realized result
  storeQ,            \* what the writer has not committed, per key and for the day
  open, miss, seen,  \* the book, consecutive misses, keys acted on
  inv, realized,     \* InventoryRisk: net per token, result since the day rolled
  halted, dayHalted, \* the two loss latches
  equity,
  pc, todo, call,    \* where the cycle is, what is left of its loop, the await
  swept,             \* redeems of the orphan-winner sweep so far
  newDay,            \* midnight passed and no cycle has looked yet
  signals, restarts,    \* bounds
  booked,            \* history: today's results that the channel took and no crash lost
  pastCap            \* history: of these, the written ones were at the cap at its start

chain   == <<wallet, resolved, synced>>
store   == <<rows, dayRow, storeQ>>
book    == <<open, miss, inv>>
latches == <<halted, dayHalted, newDay>>
bounds  == <<signals, restarts>>
disk    == <<rows, dayRow>>
money   == <<realized, booked>>
cycle   == <<pc, todo, call, swept>>
quiet   == <<latches, equity, bounds, pastCap>>   \* what few steps touch
vars == <<chain, store, book, seen, money, cycle, quiet>>

-----------------------------------------------------------------------------
(* Helpers. *)

Held == {k \in Key : open[k] > 0}
HeldConds == {k[1] : k \in Held}
Deployed == MapThenSumSet(LAMBDA k : open[k], Held)   \* cost basis: one unit a share

SmallerOf(a, b) == IF a < b THEN a ELSE b

\* effective_caps: scaled to the live account once its equity is known
Scaled(e) == (e * GrossPct) \div 100
UseStatic(e) == GrossPct = 0 \/ e <= 0 \/ Scaled(e) <= 0
GrossCap(e) == IF UseStatic(e) THEN SmallerOf(Capital, MaxGross) ELSE Scaled(e)

\* Mutant: what is deployed already is not counted.
CapLeftGross == GrossCap(equity)

CapLeft == GrossCap(equity) - Deployed
Slots == IF UseStatic(equity) THEN MaxConcurrent
         ELSE SmallerOf(Scaled(equity) \div PerPosition, MaxConcurrent)

\* copy_position_size_micro at a price of one unit a share
PositionSize ==
  LET size == SmallerOf(PerPosition, CapLeft)
  IN  IF size < MinShares THEN 0 ELSE size

\* how the data API may class a key (reconcile_action): while it lags, a purchase
\* is missing, a sale or redemption still shows, or a resolution does not
Classes == {"gone", "live", "won", "lost"}
Unclosed(k) == IF resolved[k[1]] = Unresolved THEN "live"
               ELSE IF resolved[k[1]] = k[2] THEN "won" ELSE "lost"
Class(k) ==
  IF ~synced THEN {"gone", "live", Unclosed(k)}
  ELSE IF wallet[k] = 0 THEN {"gone"} ELSE {Unclosed(k)}

\* the writer's channel is FIFO: what it will leave in the store is the last row
\* sent for each key and the sum of the day's results; a full one drops the message
NoRow == -1
NoMessages == [row |-> [k \in Key |-> NoRow], day |-> 0]
Taken(what, old, new) == IF what \in MayDrop THEN {old, new} ELSE {new}
SendRow(k, qty, delta) ==
  \E row \in Taken("row", storeQ.row[k], qty) :
    storeQ' = [row |-> [storeQ.row EXCEPT ![k] = row], day |-> storeQ.day + delta]

\* Mutant: the result stays out of the day's ledger.
LedgerSilent(delta, k, qty) ==
  /\ booked' = booked + delta
  /\ SendRow(k, qty, 0)

\* the ledger of the day is told what a close realized, then the row is updated
Ledger(delta, k, qty) ==
  \E told \in Taken("day", 0, delta) :
    /\ booked' = booked + told
    /\ SendRow(k, qty, told)

\* settle_resolution, settle_reconciled: booked before the redeem is sent
CloseAt(k, value) ==
  /\ open' = [open EXCEPT ![k] = 0]
  /\ inv' = [inv EXCEPT ![k] = @ - open[k]]
  /\ realized' = realized + value - open[k]
  /\ Ledger(value - open[k], k, 0)

\* prune_gone: flatten at cost, nothing realized
PruneGone(k) ==
  /\ open' = [open EXCEPT ![k] = 0]
  /\ inv' = [inv EXCEPT ![k] = @ - open[k]]
  /\ SendRow(k, 0, 0)
  /\ UNCHANGED <<money>>

-----------------------------------------------------------------------------
Init ==
  /\ wallet = [k \in Key |-> 0] /\ resolved = [c \in Cond |-> Unresolved]
  /\ synced = FALSE
  /\ rows = [k \in Key |-> 0] /\ dayRow = 0 /\ storeQ = NoMessages
  /\ open = [k \in Key |-> 0] /\ miss = [k \in Key |-> 0] /\ seen = {}
  /\ inv = [k \in Key |-> 0] /\ realized = 0
  /\ halted = FALSE /\ dayHalted = FALSE
  /\ equity = Unknown
  /\ pc = "idle" /\ todo = {} /\ call = NoCall /\ swept = 0
  /\ newDay = FALSE
  /\ signals = 0 /\ restarts = 0
  /\ booked = 0 /\ pastCap = FALSE

-----------------------------------------------------------------------------
(* The rest of the world. *)

Resolve(c, o) ==
  /\ c \in MayResolve /\ resolved[c] = Unresolved
  /\ resolved' = [resolved EXCEPT ![c] = o]
  /\ UNCHANGED <<wallet, synced, store, book, quiet, seen, money, cycle>>

\* between two cycles, the holder sells or another process redeems
ExternalClose(k) ==
  /\ wallet[k] > 0 /\ pc = "idle"
  /\ wallet' = [wallet EXCEPT ![k] = 0]
  /\ UNCHANGED <<resolved, synced, store, book, quiet, seen, money, cycle>>

\* from here on the API shows the wallet as it is
ApiSync ==
  /\ ~synced /\ synced' = TRUE
  /\ UNCHANGED <<wallet, resolved, store, book, quiet, seen, money, cycle>>

\* the writer commits what has arrived
WriterCommit ==
  /\ storeQ # NoMessages
  /\ rows' = [k \in Key |-> IF storeQ.row[k] = NoRow THEN rows[k] ELSE storeQ.row[k]]
  /\ dayRow' = dayRow + storeQ.day
  /\ storeQ' = NoMessages
  /\ UNCHANGED <<chain, book, quiet, seen, money, cycle>>

\* results queued before midnight go to the day that ended
Midnight ==
  /\ ~newDay
  /\ newDay' = TRUE
  /\ dayRow' = 0 /\ booked' = 0 /\ pastCap' = FALSE
  /\ storeQ' = [storeQ EXCEPT !.day = 0]
  /\ UNCHANGED <<chain, rows, book, halted, dayHalted, seen, realized, equity, cycle, bounds>>

-----------------------------------------------------------------------------
(* The head of a cycle. *)

\* refresh_day_loss_gate reads what the writer has committed by now
StartCycle ==
  /\ pc = "idle"
  /\ pc' = "recon"
  /\ halted' = (halted /\ ~newDay)
  /\ realized' = IF newDay THEN 0 ELSE realized
  /\ dayHalted' = ((dayHalted /\ ~newDay) \/ dayRow <= -DailyLoss)
  /\ newDay' = FALSE
  /\ pastCap' = (booked - storeQ.day <= -DailyLoss)
  /\ UNCHANGED <<chain, store, book, seen, booked, equity, todo, call, swept, bounds>>

(***************************************************************************)
(* reconcile_positions: nothing tracked, a fresh result, a failed fetch:   *)
(* skipped.  Otherwise every tracked key is kept, settled or, at the       *)
(* MissPrune'th miss in a row, pruned; then winners the book does not know *)
(* are redeemed.                                                           *)
(***************************************************************************)
ReconSkip ==
  /\ pc = "recon"
  /\ pc' = "equity"
  /\ UNCHANGED <<chain, store, book, quiet, seen, money, todo, call, swept>>

ReconFetch ==
  /\ pc = "recon" /\ Held # {}
  /\ pc' = "reconKeys" /\ todo' = Held
  /\ UNCHANGED <<chain, store, book, quiet, seen, money, call, swept>>

Redeem(c, then) == [op |-> "redeem", cond |-> c, then |-> then]

\* Mutant: a miss is not remembered.
ReconGoneForgets(k) == UNCHANGED <<miss, open, inv, money, storeQ>>

ReconGone(k) ==
  IF miss[k] + 1 >= MissPrune
  THEN miss' = [miss EXCEPT ![k] = 0] /\ PruneGone(k)
  ELSE /\ miss' = [miss EXCEPT ![k] = @ + 1]
       /\ UNCHANGED <<open, inv, money, storeQ>>

ReconKey(k, class) ==
  /\ pc = "reconKeys" /\ call = NoCall /\ k \in todo /\ class \in Class(k)
  /\ todo' = todo \ {k}
  /\ call' = IF class = "won" THEN Redeem(k[1], "reconKeys") ELSE NoCall
  /\ \/ class = "gone" /\ ReconGone(k)
     \/ /\ class # "gone" /\ miss' = [miss EXCEPT ![k] = 0]
        /\ \/ class = "live" /\ UNCHANGED <<open, inv, money, storeQ>>
           \/ class = "won" /\ CloseAt(k, Face * open[k])
           \/ class = "lost" /\ CloseAt(k, 0)
  /\ UNCHANGED <<chain, disk, quiet, seen, pc, swept>>

ReconDone ==
  /\ pc = "reconKeys" /\ call = NoCall /\ todo = {}
  /\ pc' = "sweep"
  /\ todo' = {k \in Key : "won" \in Class(k) /\ open[k] = 0}
  /\ UNCHANGED <<chain, store, book, quiet, seen, money, call, swept>>

SweepKey(k) ==
  /\ pc = "sweep" /\ call = NoCall /\ k \in todo /\ swept < SweepMax
  /\ todo' = todo \ {k}
  /\ call' = Redeem(k[1], "sweep")
  /\ UNCHANGED <<chain, store, book, quiet, seen, money, pc, swept>>

SweepDone ==
  /\ pc = "sweep" /\ call = NoCall /\ (todo = {} \/ swept = SweepMax)
  /\ pc' = "equity" /\ todo' = {} /\ swept' = 0
  /\ UNCHANGED <<chain, store, book, quiet, seen, money, call>>

\* the relayer answers; an Err may come after the transaction went through
RedeemReturn(landed, ok) ==
  /\ call.op = "redeem" /\ (ok => landed)
  /\ wallet' = IF landed THEN [k \in Key |-> IF k[1] = call.cond THEN 0 ELSE wallet[k]]
                         ELSE wallet
  /\ swept' = IF ok /\ call.then = "sweep" THEN swept + 1 ELSE swept
  /\ call' = NoCall
  /\ UNCHANGED <<resolved, synced, store, book, quiet, seen, money, pc, todo>>

\* refresh_equity_if_stale (both legs answered, or the old value stays)
RefreshEquity ==
  /\ pc = "equity"
  /\ \E e \in Equity \cup {equity} : equity' = e
  /\ pc' = "exit" /\ todo' = Held
  /\ UNCHANGED <<chain, store, book, latches, seen, money, call, swept, bounds, pastCap>>

-----------------------------------------------------------------------------
(***************************************************************************)
(* run_exit_sweep: a resolved market is settled; else a position whose     *)
(* source sold, or that is marked down far enough, is sold at the bid.     *)
(***************************************************************************)
ExitSettle(k) ==
  /\ pc = "exit" /\ call = NoCall /\ k \in todo
  /\ resolved[k[1]] # Unresolved
  /\ todo' = todo \ {k}
  /\ CloseAt(k, IF resolved[k[1]] = k[2] THEN Face * open[k] ELSE 0)
  /\ call' = Redeem(k[1], "exit")
  /\ UNCHANGED <<chain, disk, miss, quiet, seen, pc, swept>>

\* no signal, no bid, or a resolution nobody reported yet
ExitHold(k) ==
  /\ pc = "exit" /\ call = NoCall /\ k \in todo
  /\ todo' = todo \ {k}
  /\ UNCHANGED <<chain, store, book, quiet, seen, money, pc, call, swept>>

ExitDust(k) ==
  /\ pc = "exit" /\ call = NoCall /\ k \in todo
  /\ resolved[k[1]] = Unresolved /\ open[k] < MinShares
  /\ todo' = todo \ {k}
  /\ PruneGone(k)
  /\ UNCHANGED <<chain, disk, miss, quiet, seen, pc, call, swept>>

\* the venue sells what the wallet has
SendSell(k, f, px) ==
  /\ pc = "exit" /\ call = NoCall /\ k \in todo
  /\ resolved[k[1]] = Unresolved /\ open[k] >= MinShares
  /\ f \in 0..(IF wallet[k] < open[k] THEN 0 ELSE open[k])
  /\ todo' = todo \ {k}
  /\ wallet' = [wallet EXCEPT ![k] = @ - f]
  /\ call' = [op |-> "sell", key |-> k, f |-> f, px |-> px]
  /\ UNCHANGED <<resolved, synced, store, book, quiet, seen, money, pc, swept>>

\* nothing filled, or a transient error (the answer of a fill may be lost): kept
SellKept ==
  /\ call.op = "sell"
  /\ call' = NoCall
  /\ UNCHANGED <<chain, store, book, quiet, seen, money, pc, todo, swept>>

\* rejected for balance: not held as tracked
SellTerminal ==
  /\ call.op = "sell" /\ wallet[call.key] + call.f < open[call.key]
  /\ call' = NoCall
  /\ PruneGone(call.key)
  /\ UNCHANGED <<chain, disk, miss, quiet, seen, pc, todo, swept>>

\* book_fills: the fill is in the inventory before the store is told of it
SellBooked ==
  /\ call.op = "sell" /\ call.f > 0
  /\ inv' = [inv EXCEPT ![call.key] = @ - call.f]
  /\ realized' = realized + call.f * (call.px - 1)
  /\ call' = [call EXCEPT !.op = "sold"]
  /\ UNCHANGED <<chain, store, open, miss, booked, quiet, seen, pc, todo, swept>>

SellClosed ==
  /\ call.op = "sold"
  /\ open' = [open EXCEPT ![call.key] = @ - call.f]
  /\ Ledger(call.f * (call.px - 1), call.key, open'[call.key])
  /\ call' = NoCall
  /\ UNCHANGED <<chain, disk, miss, inv, realized, quiet, seen, pc, todo, swept>>

(***************************************************************************)
(* mark_and_check: the loss floors are tested only when every token with   *)
(* inventory has a bid; the bids are read for the keys of `open'.          *)
(***************************************************************************)
Breach(unrealized) ==
  unrealized <= -StopLoss \/ realized + unrealized <= -DailyLoss

Mark ==
  /\ pc = "exit" /\ call = NoCall /\ todo = {}
  /\ \E all \in BOOLEAN, u \in -Deployed..(Deployed * (Face - 1)) :
       /\ (Held = {}) => all
       /\ (\E k \in Key : inv[k] # 0 /\ open[k] = 0) => ~all
       /\ halted' = (halted \/ (all /\ Breach(u)))
  /\ \/ (halted' \/ dayHalted) /\ pc' = "idle" /\ todo' = {}
     \/ ~(halted' \/ dayHalted) /\ pc' = "entry" /\ todo' = Key \ seen
  /\ UNCHANGED <<chain, store, book, dayHalted, newDay, seen, money, equity, call, swept, bounds, pastCap>>

-----------------------------------------------------------------------------
(***************************************************************************)
(* run_entries and enter.  select_signals keeps fresh signals on keys not     *)
(* acted on, and none on a market both of whose sides were bought: a       *)
(* candidate is any key in `todo', and takes its market out of it.         *)
(***************************************************************************)
OtherMarkets(k) == {l \in todo : l[1] # k[1]}

\* untradeable, no ask, or past the drift gate: consumed
EntryConsumed(k) ==
  /\ pc = "entry" /\ call = NoCall /\ k \in todo
  /\ k[1] \notin HeldConds /\ signals < MaxSignals
  /\ todo' = OtherMarkets(k)
  /\ seen' = seen \cup {k} /\ signals' = signals + 1
  /\ UNCHANGED <<chain, store, book, latches, equity, restarts, pastCap, money,
                 pc, call, swept>>

\* Mutant: only the key itself must be free.
EntrableOnKey(k) ==
  /\ k \notin Held
  /\ Cardinality(Held) < Slots
  /\ PositionSize > 0

Entrable(k) ==
  /\ k[1] \notin HeldConds
  /\ Cardinality(Held) < Slots
  /\ PositionSize > 0

\* the market is held, or the caps leave no room: skipped, still fresh
EntrySkipped(k) ==
  /\ pc = "entry" /\ call = NoCall /\ k \in todo
  /\ ~Entrable(k)
  /\ todo' = OtherMarkets(k)
  /\ UNCHANGED <<chain, store, book, quiet, seen, money, pc, call, swept>>

SendBuy(k, f) ==
  /\ pc = "entry" /\ call = NoCall /\ k \in todo
  /\ Entrable(k) /\ resolved[k[1]] = Unresolved
  /\ f \in 0..PositionSize /\ signals < MaxSignals
  /\ todo' = OtherMarkets(k)
  /\ wallet' = [wallet EXCEPT ![k] = @ + f]
  /\ call' = [op |-> "buy", key |-> k, f |-> f]
  /\ signals' = signals + 1
  /\ UNCHANGED <<resolved, synced, store, book, latches, seen, money, equity, pc, swept, restarts, pastCap>>

\* nothing filled, or an error (the answer of a fill may be lost): consumed
BuyRefused ==
  /\ call.op = "buy"
  /\ call' = NoCall
  /\ seen' = seen \cup {call.key}
  /\ UNCHANGED <<chain, store, book, quiet, money, pc, todo, swept>>

BuyBooked ==
  /\ call.op = "buy" /\ call.f > 0
  /\ inv' = [inv EXCEPT ![call.key] = @ + call.f]
  /\ call' = [call EXCEPT !.op = "bought"]
  /\ UNCHANGED <<chain, store, open, miss, quiet, seen, money, pc, todo, swept>>

BuyOpened ==
  /\ call.op = "bought"
  /\ open' = [open EXCEPT ![call.key] = call.f]
  /\ SendRow(call.key, call.f, 0)
  /\ seen' = seen \cup {call.key}
  /\ call' = NoCall
  /\ UNCHANGED <<chain, disk, miss, inv, quiet, money, pc, todo, swept>>

EntriesDone ==
  /\ pc = "entry" /\ call = NoCall
  /\ pc' = "idle" /\ todo' = {}
  /\ UNCHANGED <<chain, store, book, quiet, seen, money, call, swept>>

-----------------------------------------------------------------------------
(* What ends a cycle early. *)

\* POLL_CYCLE_TIMEOUT drops the cycle at the await it is in
Timeout ==
  /\ MayTimeout /\ pc # "idle"
  /\ pc' = "idle" /\ todo' = {} /\ call' = NoCall /\ swept' = 0
  /\ UNCHANGED <<chain, store, book, quiet, seen, money>>

\* run_copy_loop's prologue: reload_positions, arm_day_loss_gate
Restart ==
  /\ restarts < MaxRestarts
  /\ restarts' = restarts + 1
  /\ open' = rows /\ inv' = rows
  /\ miss' = [k \in Key |-> 0] /\ seen' = {} /\ realized' = 0
  /\ halted' = FALSE /\ dayHalted' = (dayRow <= -DailyLoss) /\ newDay' = FALSE
  /\ equity' = Unknown
  /\ pc' = "idle" /\ todo' = {} /\ call' = NoCall /\ swept' = 0
  /\ UNCHANGED <<chain, disk, signals, pastCap>>

\* auto_restart: between cycles, after the writer drained
Reexec ==
  /\ pc = "idle" /\ storeQ = NoMessages
  /\ Restart
  /\ UNCHANGED <<storeQ, booked>>

\* what the writer had not committed is gone
Crash ==
  /\ Restart
  /\ booked' = booked - storeQ.day
  /\ storeQ' = NoMessages
-----------------------------------------------------------------------------
Environment ==
  \/ \E c \in Cond, o \in {0, 1} : Resolve(c, o)
  \/ \E k \in Key : ExternalClose(k)
  \/ ApiSync \/ Midnight

Next ==
  \/ Environment \/ WriterCommit
  \/ StartCycle \/ ReconSkip \/ ReconFetch \/ ReconDone \/ SweepDone \/ RefreshEquity
  \/ \E k \in Key, class \in Classes : ReconKey(k, class)
  \/ \E k \in Key : SweepKey(k)
  \/ \E landed, ok \in BOOLEAN : RedeemReturn(landed, ok)
  \/ \E k \in Key : ExitSettle(k) \/ ExitHold(k) \/ ExitDust(k)
  \/ \E k \in Key, f \in 0..PerPosition, px \in ExitPx : SendSell(k, f, px)
  \/ SellKept \/ SellTerminal \/ SellBooked \/ SellClosed \/ Mark
  \/ \E k \in Key : EntryConsumed(k) \/ EntrySkipped(k)
  \/ \E k \in Key, f \in 0..PerPosition : SendBuy(k, f)
  \/ BuyRefused \/ BuyBooked \/ BuyOpened \/ EntriesDone
  \/ Timeout \/ Reexec \/ Crash

Spec == Init /\ [][Next]_vars

(***************************************************************************)
(* Fairness: the poll and the timeout are timers; the API catches up in    *)
(* the end; and the hang that cuts a cycle short does not strike before    *)
(* the same call of every cycle for ever.                                  *)
(***************************************************************************)
Fairness ==
  /\ WF_vars(StartCycle) /\ WF_vars(Timeout) /\ WF_vars(ApiSync)
  /\ SF_vars(ReconFetch)
  /\ \A k \in Key : SF_vars(\E class \in Classes : ReconKey(k, class))

FairSpec == Spec /\ Fairness
-----------------------------------------------------------------------------
(* Properties. *)

ChainOK ==
  /\ wallet \in [Key -> Nat] /\ resolved \in [Cond -> {0, 1, Unresolved}]
  /\ synced \in BOOLEAN
StoreOK ==
  /\ rows \in [Key -> Nat] /\ dayRow \in Int
  /\ storeQ \in [row: [Key -> Nat \cup {NoRow}], day: Int]
BookOK ==
  /\ open \in [Key -> Nat] /\ miss \in [Key -> 0..(MissPrune - 1)] /\ seen \subseteq Key
  /\ inv \in [Key -> Int]
MoneyOK ==
  /\ realized \in Int /\ booked \in Int /\ equity \in Int
  /\ halted \in BOOLEAN /\ dayHalted \in BOOLEAN /\ newDay \in BOOLEAN /\ pastCap \in BOOLEAN
Call ==
  {NoCall}
  \cup [op: {"redeem"}, cond: Cond, then: {"reconKeys", "sweep", "exit"}]
  \cup [op: {"sell", "sold"}, key: Key, f: Nat, px: ExitPx]
  \cup [op: {"buy", "bought"}, key: Key, f: Nat]
CycleOK ==
  /\ pc \in {"idle", "recon", "reconKeys", "sweep", "equity", "exit", "entry"}
  /\ todo \subseteq Key /\ call \in Call /\ swept \in 0..SweepMax
  /\ signals \in 0..MaxSignals /\ restarts \in 0..MaxRestarts

\* Every variable keeps its type: in particular no step makes a holding negative.
TypeOK == ChainOK /\ StoreOK /\ BookOK /\ MoneyOK /\ CycleOK

\* The book never holds both outcomes of a market, which would lock in a loss:
\* run_entries looks at the open book before each candidate, and select_signals
\* at one poll's trades, but a timeout can come between an order and the book.
OneSide == \A k, l \in Held : k[1] = l[1] => k = l

\* What is deployed stays within a gross the configuration allows, for no equity
\* or one that a refresh may have found, and within the configured count, through
\* timeouts that drop an order and restarts that reload the book.
SlotsHold == Cardinality(Held) <= MaxConcurrent
CapsHold ==
  /\ \E e \in Equity \cup {Unknown} : Deployed <= GrossCap(e)
  /\ SlotsHold

\* Once the day's closes that are written have reached the daily cap, no cycle that
\* starts then enters a position that day, in this process or the next one, however
\* results were written, queued, dropped by a full channel or lost in a crash before
\* (arm_day_loss_gate, refresh_day_loss_gate).  What the channel dropped or still
\* holds does not bind: the writer's documentation calls that ledger best effort.
LossCapBinds ==
  [][signals' # signals => ~pastCap]_vars

\* A key whose shares are in the wallet is not bought again in the same process:
\* run_entries marks what it acted on as seen.
BoughtOnce ==
  [][\A k \in Key : wallet[k] > 0 => wallet'[k] <= wallet[k]]_vars

\* A position that is no longer in the wallet does not stay in the book, where
\* it would take a slot and capital for ever: two misses in a row prune it.
PhantomsPruned ==
  \A k \in Key : open[k] > 0 /\ wallet[k] = 0 ~> open[k] = 0 \/ wallet[k] > 0
=============================================================================
