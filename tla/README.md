# polybot: a TLA+ verification project

polybot (Rust, a workspace of crates under `crates/`) watches Polymarket order books,
detects baskets whose legs together pay more than they cost, executes them under a risk
engine, makes markets on chosen tokens and copies other traders. Everything runs as tasks
of one tokio process around a SQLite store. This directory models the parts in which
order, failure and concurrency decide whether money is safe, checks them with TLC on small
instances and proves the core for all of them with TLAPS.

Paths below are relative to `crates/`.

## 1. Inventory

### The parts, their state, and who talks to whom

```
 venue metadata --> synchronizer --> registry --> components, quoted markets, seed
                                                        | (start-up and every re-execution)
 market WS / REST --> ingestion shards --books--> detectors, LP pool
                                                      | opps (mpsc)
 operator (TUI) --ctl--> strategy host --ctl--> arb coordinator --execQ--> execution task
 kill watcher (flag, signals, kill file) ------>  | risk engine |            | execute_basket
                                                  | positions   | <-reportQ- |   | venue: paper / live
                                                                             |   | store: order, fill rows
 strategy host --ctl--> market maker loop --> quote manager --> maker venue --fills--> loop
                              |--> merge and redeem tasks --> relayer --> chain
 strategy host --ctl--> copy loop --> copy venue
 every task ---------------------------------------------> store writer (one task, mpsc) --> SQLite
```

| Part | State | Operations | What makes it correct |
|---|---|---|---|
| Risk engine (`risk/src/lib.rs`) | exposure (global, per market, legs), pause/kill/halt latches, error window, equity peak | `pre_check`, `reserve`, `release`, `commit_position`, `record_error/success`, `update_equity`, `update_session_pnl`, `note_session_start` | exposure equals positions plus reservations; halts latch; caps hold over any sequence of reports |
| Arb coordinator (`app/src/coordinator.rs`, `kill.rs`, `positions.rs`) | select loop, one basket in flight, live-release latch, halt row, status | batch of opportunities, dispatch, report, control, P&L tick, drain | one basket at a time; a stop is never overtaken; a halt is logged; shutdown leaves nothing executing |
| Cooldown (`engine/src/dedup.rs`) | per shape: time and net of the last admission | `admit`, coalescing | a shape is not repeated inside its window unless it pays better |
| Basket execution (`execution/src/basket.rs`, `lib.rs`) | orders and their state machine, ledger, store rows | split, write-ahead open, submit window, close, repair round, unwind, merge-back | every order the venue saw has a row; report, store and venue agree; nothing is sold that is not held |
| Venues (`execution/src/venue.rs`, `live.rs`) | orders at the exchange | `submit_all`, `poll_fills`, maker `place/cancel/replace` | external: a fill never exceeds its order |
| Quote manager (`execution/src/quote_manager.rs`) and maker venues (`paper_maker.rs`, `live.rs`) | the quote believed to rest per token and side | `reconcile`, `cancel_all`, `cancel_one`, `note_fill` | what is believed is what rests; no orphan |
| Market maker (`app/src/strategy/mm.rs`), inventory risk (`risk/src/inventory.rs`) | pause/halt/day-loss/veto flags, signed average-cost inventory, `placed` map | `tick` (quote, fills, mark), commands, kill, merges, redeems | inventory is true and bounded; a stopped side is empty; books conserve cash |
| Fills and user stream (`execution/src/fills.rs`, `user_ws.rs`, `split_venue.rs`) | seen trade ids, socket session, fill channel | poll, reconnect | each fill once; none lost |
| Relayer (`execution/src/relayer.rs`) | nonce, transactions in flight | split, merge, redeem | a transaction is applied once to the books |
| Copy strategy (`app/src/strategy/copy.rs`) | followed wallets, seen trades, positions, day latch | poll cycle: reconcile, sweep, exits, entries | one side per market; caps and the daily loss cap hold, through timeouts and restarts |
| Strategy host (`app/src/strategy/host.rs`) | allocations, forwarders, status bridges, join handles | start, command fan-out, join | commands reach their strategy; join returns |
| Process (`app/src/main.rs`, `wiring.rs`) | epoch, live release, channels, tasks, slices, seed | assemble, run, shutdown cascade, re-execute | no live order before a confirmation; nothing lost on the way down; exit status earned; what is resumed is really there |
| Synchronizer and registry (`ingestion/src/sync.rs`, `registry/`) | events, lookups, dense ids, partitions, relations, components | page or favoured walk, concurrent lookups, assembly, verification | the set fetched is the sequential one; a verified partition is a complete set |
| Opportunity engine (`engine/`), detectors (`app/src/detector.rs`, `lp_pool.rs`) | books read through a snapshot; basket cursors | classes 1 to 4, ladder walk, limits, worlds | an opportunity pays its net in every world; it sells no more than it splits |
| Ingestion (`ingestion/`) | shard of books, subscription, staleness | snapshot, delta, resync, reconnect | a book that is served is the venue's; a gap heals |
| Store (`store/`) | SQLite, writer queue, FIFO lots | ordered writes with acks, conversions, day ledger | an acked row survives; lots conserve cash and shares |
| Core types (`core/`) | ladders, fixed-point numbers | `set`, `rescan`, price and fee arithmetic | the cached best level is the best level |
| Configuration, TUI, data API, backtest, signing | tables, presentation, clients | load, validate, render, fetch, replay, sign | see section 7 |

### What is hard here

* **Interleaving.** The kill flag is an atomic raised on another thread; control,
  opportunities, reports and ticks compete in one `select!`, which takes any arm that is
  ready; the venue trades between any two calls of the market maker; merge and redeem tasks report into a later tick.
* **Failure in the middle.** A basket is a sequence of awaits over venue and store; the
  execution task can panic with a basket out; `replace` is a cancel and a place; `cancel_all`
  stops at its first error; a copy cycle is dropped by a timeout at any await.
* **Lost or late answers.** Fill windows expire while the venue answers; POST answers and
  user-socket frames get lost; a relayer batch is confirmed after its caller gave up; REST
  snapshots are overtaken by deltas.
* **Stale reads.** Caps are checked against an inventory that lacks unpolled fills; cooldown
  slots are taken before the gates; the data API's view of the wallet lags the chain.
* **Restarts.** The process re-executes itself to follow the venue's listing; the store, the
  wallet and an environment variable are all that survives.
* **Arithmetic.** Rounded costs of part closes, limit prices, worst cases over worlds.

`PROJECT.json` lists these as hazards, each at its line and with the properties that would
catch it going wrong.

## 2. Plan

Done, in this order: `RiskEngine` and `Coordinator` (proved), `Basket`, `QuoteManager` and
`MarketMaker` (all invariants proved), `Exposure` and the proof that
`Coordinator` implements it, `Copy`, `Ladder`, `Feed` and `QuotedFeed` (proved), `Relay` (proved),
`Inventory` and `Ledger` (all invariants proved), `Quoting` (proved), `Session` (proved), `Worlds`, `Engine` and
`Universe` (all invariants proved), `Startup` (proved).

What is left, most useful first:

1. Restarts of `Relay` and of the resting quotes of `MarketMaker` (a crash leaves them on the
   venue; the application never adopts them).
2. Orphan liquidation and universe refresh of `Copy`; resolving markets on demand.
3. The detector's `Dedup`, reward estimates and shadow mode of the market maker.

Each module takes its bounds as CONSTANTS, has one action per operation, and states
invariants as conjunctions of parts, so that it can be proved about as it stands.

## 3. The modules

Every await that another task can use is a step boundary; statements between two awaits are
one step. Prices, fees, wording, telemetry and logging are left out except where said.

### `RiskEngine`, `Coordinator` and `Exposure`

`RiskEngine` is the pure engine: a record and one operator per method (`Reserve`, `Release`,
`Commit`, `RecordErrors`, `UpdateEquity`, `UpdateSessionPnl`, `NoteSessionStarts`,
`PreCheck`'s parts). Money is in integer units. How many of the errors in the window have
aged out is chosen (`MayAge`), since the window is wall-clock time.

`Coordinator` is `run()` with the tasks around it.

| Model | Code |
|---|---|
| `pc = "top"`, `LoopTop` | the top of the loop: `check_kill`, halt logging |
| `pc = "select"` and the Take/Handle/Tick actions | the arms of the `select!` (`app/src/coordinator.rs:303`), which takes any that is ready |
| `batch`, `ProcessOpp` and its alternatives | `process_opp` over the coalesced batch, one opportunity per step |
| `pc = "dispatch"` | the await of `exec_tx.send` |
| `execQ`, `running`, `reportQ` | the execution task and its two channels |
| `pc = "drain"`, `"final"`, `"done"` | shutdown: wait for the outstanding report, last snapshot, return |
| `TripKill` | `spawn_kill_watch`: any of its sources raises the flag |

Abstractions that a reader should know: the contents of the opportunity and control channels
are chosen when they are read (nobody sees them before); `killLogged` is merged into
`risk.killed`; an execution task dies only by a panic that unwinds (`ExecMayPanic`); the
failing branch of the dispatch send is kept though it is defensive. `sent` is a history of one
shape, any one (`Watched`): the net of its last dispatch inside the cooldown window. What a basket reports
is `ExecResult`: any outcome `Basket` shows to be possible, with leftovers from a small set
and an overrun of at most `Overrun`.

`Exposure` is what the pipeline promises without its tasks and queues: admit under no stop and
within the bankroll, execute once, report or be lost, settle by replacing the worst case with
exactly what the execution left. `ImplementsExposure` instantiates it in `Coordinator`:
`Stage` reads the stage off the place the basket is in (dispatch await, queue, running, report
queue, dead task), `LeftBehind` what it left, and `Latched` the stops that never go away. An
action of the loop that touches none of these stutters.

### `Basket`

One call of `execute_basket`. Three records of the same basket are kept apart: `chain` (what
the venue did), `durable` (rows of the store) and `hold` (the ledger in memory, from which the
report is read). The process may die between any two steps, so an invariant over `chain` and
`durable` is a statement about what a restart finds. Orders go through the code's own state
machine (`CanTransition` is `can_transition`). `live` is chosen at the start: `PaperVenue`
answers all legs after one sleep, `LiveVenue` sends and polls leg by leg inside the window.
The window may expire at any point of a live submission. A store write may fail at any point
when `StoreMayFail`.

Cash is left out but for the cap on a leg and on what a repair would have to pay. That a fill
never exceeds its order is assumed of the venue.

### `QuoteManager` and `MarketMaker`

`QuoteManager` pairs the tracking map (`tracked`) with the venue's book of our orders (`order`).
`MarketMaker` extends it with `run_mm_loop`: `pc` runs from `top` (kill check) and `select` through a pass -
`stale` and `place`/`replace` (the two stages of `reconcile`, one venue call per step, errors
skipped as the code does), `poll`, `mark` - or through `flatten` (`cancel_all`, aborting at the
first error). Between any two steps a live venue may trade against what rests; the paper
venue trades inside `poll` only. Which quotes the book and the policy suggest is left open:
any candidate per side, or none. Vetoes, `no_naked_shorts`, `check_quote` and sticky
re-quoting then decide as in the code.

Abstractions: a share is worth one unit, so caps on notional are caps on shares; a mark may
halt at any time; the REST and the socket fill source are one live source that may return
only part of what was traded; the kill flag is raised at the loop's top, because only the top
reads it; ids are reused once nothing refers to them. Merges and redeems are in `Relay`.

### `Inventory` and `Ledger`

`Inventory` is `InventoryRisk`'s arithmetic for one token: `OnFill` splits a fill into the part
that closes at the rounded average cost and the part that opens, with truncating division.
`Ledger` puts it beside the store: a market maker that never waits for its rows, an arb
strategy that waits for every one, one bounded queue, one writer, FIFO lots per token and
strategy (`consume_lots`, `apply_conversion`, `insert_fill_core`), writes that fail, and restarts
that seed the inventory from the lots. A handle means the same token in every process here;
what happens when it does not is in `Startup`.

### `Quoting`

What a policy offers on a book: `SpreadTicks` around the mid leaned by `SkewFair` (SpreadCapture),
`RewardQuotes` around the size-weighted `Microprice` (RewardFarm), `QuoteSize` in the grains the
venue takes. RewardFarm computes in doubles; in the model in fractions, and a price that lies on
a tick may come out a tick off when divided by the tick (`slip`): (0.30 - 0.01) / 0.01 is
28.999999999999996, so that a bid of 29 cents becomes one of 28. How RewardFarm leans its sizes
is left out.

### `Relay`

Merges and redeems of a live, hedged market maker. The loop spawns a task per kind
(`merge_inflight`), the task walks `fetch - nonce - submit - poll` and reports into a channel that
a later tick drains; a batch at the relayer outlives the task that gave up on it. Fills and
positions arrive late. `owed` is a ghost: what the chain paid less what the loop booked.

### `Copy`

`run_copy_loop`: day gate, reconcile (book against wallet, prune after `RECON_MISS_PRUNE`
misses, orphan-winner sweep), equity, exit sweep, mark, entries. The cycle is one task whose
awaits are steps; a timeout may drop it at any of them (`call` says what the venue may still have
done). The store's writer is asynchronous (`storeQ`: the last row sent for each key and the sum
of the day's results, which is what its FIFO channel leaves in the store), the data API lags,
and the process may crash, restart or re-execute. A channel of 4096 rows that is full when a row or a
day's result is sent drops it, and the loop goes on (`try_send`): `MayDrop` says which of the two kinds of
messages a full channel may meet. Nothing in the loop waits for the writer, nor does it in the model: a cycle may start with
any rows queued.

### `Ladder`, `Feed` and `QuotedFeed`

`Ladder` is one side of a book with its cached best level (`Set`, and the scan after the best
level empties). `Feed` is a supervisor's session over live books: connect, subscribe, frames in
a bounded socket, one REST snapshot at a time with frames waiting behind it, crossing and
off-tick rules, the sweeps for stale and silent books, silence and reconnect. `work` is the
stack of what the running arm of the session's `select!` has left to do. `QuotedFeed` composes
`Feed` with `Quoting`: at any moment either policy may quote on a book the supervisor serves as
valid, from the best levels its ladders have cached.

### `Worlds`, `Engine` and `Universe`

`Worlds` enumerates what a component can resolve to (`lp.rs`); `Resolutions` is the reference: what
the venue can do. `Engine` sizes baskets of classes 1 to 3 by the walker's greedy march over the
legs' ladders, sets limit prices, and re-prices any answer of at most three columns of the LP
solver exactly (class 4). Fixed-point rounding, fees and gas are kept, scaled down: a dollar
is `Dollar` micro-dollars. `Universe` builds what it works on: `sync_once` over the venue's events
(keyset pages or favoured conditions, concurrent lookups under a cap and a priority cut,
assembly), `RegistryBuilder` (dense ids, partitions and why one is not verified, the
relationship file, components), `build_component_index`, and then `Engine` on every component.

The registry is that of the release build, in which the `debug_assert_eq!` on ids
(`registry/src/lib.rs:257-274`) is compiled out. A condition that the venue lists twice is interned once and
pushed twice: from there on an id is not the index of its entry. `Index` is the place in the
vector, `IdOf` the interned id, `Described` the entry that an id reads, and the outcomes of a partition are a
vector that may name a market more than once (`TimesIn`); class 2 then buys one lane per mention
(`Lanes`), each of which takes from the same book as if it were alone.

### `Session`

One process from confirmation to exit, and its re-executions: keys through the dashboard's
queue, commands fanned out to the bridge and the loops, the kill switch, the shutdown cascade
(`main.pc`: grace, join, drain, screen, exit), the tasks and the channels whose closing ends
them, panics and failed writes, health and exit status, and what a re-execution carries over
(`Resumes`). What a strategy trades is in the other modules. The writer takes two kinds of
messages: rows, whose failure health counts, and adds to the day's ledger (`days`), which it drops with a
warning and by its documentation does not count (`store/src/writer.rs:40-46`, `:113-126`); `lost` is the history of what it
failed on. A market maker that stops calls `cancel_all` and discards the result
(`app/src/strategy/mm.rs:2662-2668`): it may have stopped at its first error and left quotes on the book
(`stuck`).

### `Startup`

What main assembles before it trades, launch after launch: validation of fields against each
other, the store's stranded orders, the universe in whatever order the venue lists it, the
slices of the bankroll, the markets the market maker quotes (`mm_market_selection`,
`select_reward_markets`), the supervisors' chunks (`pack_components`) and the seed of the
inventory from the store, reconciled with the wallet (`reconcile_seed_with_positions`). A token
has two names, the venue's and the handle of this process's registry: the store knows the
handle, the wallet the venue's name.

## 4. The runs

| Run | Module, config | Question | Size |
|---|---|---|---|
| `coordinator_all` | `MCCoordinator`, `Coordinator_all.cfg` | Do reservations balance, are halts logged, is shutdown clean, does the pipeline implement `Exposure`, do session and kill make progress, over all interleavings of a real-money session? | 144 K states |
| `basket_all` | `MCBasket`, `Basket_all.cfg` | Is a basket of any shape safe on either venue with failures anywhere, and does the call return? | 1.06 M states |
| `mm_all` | `MCMarketMaker`, `MarketMaker_all.cfg` | Is the inventory true and bounded, is nothing orphaned, are stopped sides empty? | 2.0 M states |
| `copy_all` | `MCCopy`, `Copy_all.cfg` | Does a position that left the wallet leave the book? | 216 K states |
| `copy_caps` | `MCCopy`, `Copy_caps.cfg` | Do one-sidedness, the caps and the daily loss cap survive timeouts, a full queue and a restart? | 2.4 M states |
| `feed` | `MCFeed`, `Feed.cfg` | Is a valid book the venue's, and does every book become valid again? Do the quotes made on it rest? | 74 K states |
| `ledger` | `MCLedger`, `Ledger_books.cfg` | Do lots, inventory and cash agree? | 432 K states |
| `relay` | `Relay`, `Relay.cfg` | Is nothing forgotten or credited twice, is a winner collected? | 291 K states |
| `engine` | `MCUniverse`, `Universe.cfg` | Does what is detected pay, whatever resolves, from any listing? | 95.7 K states |
| `session` | `MCSession`, `Session.cfg` | Is live trading confirmed, shutdown lossless and finite, the exit status earned? | 561 K states |
| `startup` | `MCStartup`, `Startup.cfg` | Is what a launch resumes really in the wallet, and are its markets and chunks what the limits allow? | 936 K states |
| `universe_cut` | `MCUniverse`, `Universe_cut.cfg` | violation: a verified partition is not a complete set | counterexample in seconds |

### Properties

*Arbitrage pipeline.* `ExposureAccounted`: the engine's exposure is the position book's cost
basis plus the one reservation, globally, per market and in legs. `ExposureBounded`: caps
are passed by at most one basket's repair overrun, never by accumulation. `HaltLogged` and
`CleanEnd` as commented in the module. `RepeatsImprove`: between two dispatches of a shape inside its
window the net improves by the configured percentage, though `admit` takes the slot before the gates and
what they hold, reject or suppress is never sent: it may raise the bar, never lower it. `ImplementsExposure`: the refinement,
which contains that nothing is admitted under a stop and that there is one basket at a time.
Liveness: `SessionEnds`, `KillTrips`.

*Basket.* `WriteAhead`: whenever the process dies, every order the venue has seen has a row
that says so. `ReportIsTruth`: a paper report agrees with store and venue. `WithinMeans`: the
repair and unwind rounds neither buy more than was meant nor sell what is not there.
`ReportAsAssumed`: what the coordinator's model takes from a report. `Returns`.

*Market maker.* `NoOrphan`: a venue order we do not track exists only where an answer was
lost. `InventoryTrue`: inventory plus unpolled fills is what the venue traded, late fills of
replaced and cancelled orders included. `InventoryBounded`: what was really traded passes
`Ceiling` by at most one quote, and one more per fault - the bound `check_quote` can give,
since it sees neither unpolled fills nor a replaced quote. The ceiling is the cap, or half a
quote where that is more: see the observations of section 6. `StopsFlat`: a paused, halted,
vetoed or ended side is empty but for orders whose cancel failed.

*Copy.* `PhantomsPruned` (liveness): a position that left the wallet leaves the book.
`OneSide`: never both outcomes of a market. `CapsHold`: the deployed gross is one the
configuration allows for no equity or one that a refresh may have found, and the count is within
its cap, through restarts. `LossCapBinds`: once the
day's closes *that are written* reach the cap, no cycle that starts then enters that day, in this process
or the next. What a full queue drops, and what a crash finds still queued, does not bind: the writer calls
that ledger best effort (see the observations of section 6).

*Feed.* `NothingLost`: a valid book, with what is still in the socket applied, is the venue's.
`Recovers` (liveness): every book becomes valid again after finitely many faults.
`PostOnly`: on a book that is served as valid, nothing either policy offers meets the book's other
side or the other quote, whatever the inventory, spread, sizes and rounding.

*Ledger.* `BooksBalance`: every micro of cash of a committed row is in the realized total or in
an open lot, what was realized is a floor, and the inventory's own books balance. `StoreFollows`: lots plus queue are the
inventory. `NoOversell`: no row is refused for lack of lots.

*Relay.* `NothingForgotten`: the loop never believes it holds less than it does.
`NeverOvercredited`: it never books collateral the chain did not pay. `WinnerCollected`
(liveness).

*Engine and universe.* `Riskless`: an opportunity pays at least its net whatever the events
resolve to, when the events of its partitions came into the universe whole (`TakenWhole`) and
the venue lists no condition twice (`ListedOnce`). Without either premise it is false: finding 1, and
`SetsPay` in section 6. `FetchIsTheWalk`: the concurrent lookups are those of the
sequential walk. `LimitsStillPay`: filled at its limit prices a basket still gains before gas.
`BestSize`: no other number of units the depth and the cap allow nets more.

*Session.* `ConfirmedLive`: no release of real money before a confirmation, across re-executions.
`HealthTruth`: exit 0 only when the coordinator and every strategy came to their end and the writer failed on no
row; 2 only when one of them died or a row failed; a failed add to the day's ledger decides neither.
`Drained`: nothing is left in a channel whose reader came to its end, and no quote rests for a maker that ended,
unless its last `cancel_all` was refused. `Stops` (liveness): a session told to stop exits or re-executes
itself, whatever task died, unless main waits for a dashboard that waits for room in the command queue
(`Wedged`: the counterexample of `Session_keys.cfg`, here an exception in the open, which the run reaches).

*Startup.* `NoPhantomAsk`: a live market maker never offers shares the wallet does not have,
whatever lots the store resumes - rows of paper runs, of resolved markets, of other tokens
under the same handle. Its premise is that no copy strategy trades live from the same wallet:
with one, TLC finds the market maker resuming copy's shares through a re-used handle, which
copy then sells. `Assembled`: the markets quoted are the best the limits allow, and no
component is split between supervisors.

### Bounds

* `MCCoordinator`: two markets, two shapes, one of them in two qualities, an implausible and
  a selling opportunity; the bankroll fits one basket and then not every second one; one
  error halts, so does the third session start; two opportunities a turn; equity that can only
  fall; leftovers within and beyond the worst case. Two baskets in sequence are enough for
  every carry-over from report to check, since only totals are carried.
* `MCBasket`: two legs, two markets, quantities of one to three, seven shapes: both sides of a
  market, two markets in unequal sizes, split and sell, half of each, two levels of one book, held to
  resolution, over the unhedged cap. Two legs already have a constrained and a surplus leg.
* `MCMarketMaker`: both sides of one token, two prices, quotes of two shares that may fill by
  halves, a cap of one quote, one fault (failed cancel or poll, lost answer or frame).
  With one token the gross cap is not exercised.
* `MCCopy`: one signal on either side of a market with a resolution, a redeem and a restart
  (`copy_all`); two signals among three keys of two markets (`copy_caps`). Two misses prune in `copy_all`, as in
  the code, and one in `copy_caps`; one orphan sweep per cycle; one timeout point per await. Of what a full channel
  may drop, `copy_caps` takes the day's results; `copy_all` takes nothing, and finds no equity,
  to stay short: its property holds with both kinds dropped too. `copy_caps` does not look past the moment at which
  the data API has caught up for good (`Lagging`): one that lags may answer all that it answers afterwards.
* `MCFeed`: two tokens, three price levels and an off-tick price, one frame in the socket - what
  is sent while it is full is what the venue coalesces or the link loses - and one fault. The
  off-tick threshold of two is reached by two moves.
* `MCLedger`: sizes two and three at a price that no share divides, a queue of two, four rows:
  open, part close, flip and a conversion fit.
* `Relay.cfg`: three fills over two tokens, two faults.
* `MCUniverse`: a dollar of twelve micro-dollars, a basis point of a hundredth, fees of 0 and 10;
  lookups two at a time (32 in the code), two pages (50), a priority pool of three (5000); three
  conditions, one closed and one of an unsupported tick; seventeen listings, chosen so that every
  exclusion reason, cut and relation kind occurs, and a condition listed twice in one event and in two; solver answers for two-market components only.
* `MCSession`: one loop beside arb, channels of one slot, one re-execution; one key at any time and one
  more after shutdown began, so that the command queue fills; one fault of any kind: a panic of any of
  five tasks, a refused `cancel_all`, a failed row or a failed add to the day's ledger.
* `MCStartup`: three markets of two events, six files (one valid only without copying, two
  invalid or asking for too much), three launches, two trades of any kind between them.

### Fairness

`Coordinator`: weak fairness of each task's step and of the coordinator's loop - tokio polls
every ready task - and strong fairness of two arms of the select, the tick and
the closed channel: it has no `biased;` and starts at an arm picked at random, so that one which is ready turn
after turn is taken. The other arms need none. Nothing is assumed of the operator, the
detectors or the kill sources. `Basket`: weak fairness of `Step` - the store acks or drops its
ack, the paper sleep is bounded, every live HTTP request has a 10 s timeout
(`execution/src/live.rs:233`). `Copy`: the poll timer fires, the cycle's timeout fires, the API
catches up; and of the reconcile's fetch, again and again possible, one
succeeds. `Feed`: the session's arms are served, a subscription tried again and again is once
answered, and the socket is again and again drained (the premise of `Recovers`). `Relay`: the tick
runs, polls are answered, the data API indexes. `Session`: every task that can step does, the
dashboard's thread included. `MarketMaker`, `Ledger`, `Universe` and `Startup` have no liveness
property: their code promises none beyond a pass that ends.

Deadlock checking is off where the system may really stop: the market maker, copy, ledger,
relay, session and start-up runs end with a process that returned or with bounds used up.

## 5. What is proved

`ArbProofs`, of `Coordinator`, for every universe, opportunity set, cap, channel bound and threshold,
under `RiskConfigAssumption` and `CoordinatorAssumption` (constants have their types; the
limits that the configuration's validation makes positive are positive):

| Theorem | Statement |
|---|---|
| `Invariance` | `Spec => []IInv` |
| `TypeCorrect` | `Spec => []TypeOK` |
| `ExposureCorrect` | `Spec => []ExposureAccounted` |
| `OneBasket` | `Spec => []SingleInFlight` |
| `BoundedExposure` | `Spec => []ExposureBounded` |
| `EndsClean` | `Spec => []CleanEnd` |
| `StopsHold` | `Spec => StopHolds` |
| `HaltsAreLogged` | `Spec => []HaltLogged` |
| `RepeatsAlwaysImprove` | `Spec => RepeatsImprove` |
| `Implements` | `Spec => ImplementsExposure` |

The inductive invariant is `IInv == TypeOK /\ Pipeline /\ ExposureAccounted /\ Caps`. The
checked invariants are not inductive by themselves: `handle_report` releases the check that
the *report* carries, so exposure stays balanced only if that is the basket which was reserved.
`Pipeline` says where the one basket is: the stages (dispatch await, queue, running, report
queue) exclude each other, each carries `inFlight`, and a busy pipeline with empty stages
means the execution task is dead. `Caps` adds that a reserved market is within its cap
before the overrun of the report.

Each of type, pipeline, account and caps has a step lemma with one case per action;
`RiskTyped` and the exposure lemmas state once what each engine operator returns.
`StopsHold` is an action property: it needs the guards of dispatch and the type invariant.
`RepeatsAlwaysImprove` needs that the net which the cooldown remembers of a shape is never below that of its last
dispatch inside the window (`BarKept`): every action that takes a slot without sending, and the
lapse of the window, keeps it, and the bar grows with the net (`BarGrows`). `HaltsAreLogged` needs `Spoken`, which says the same of every point of the loop: between
a halt and its row there is no await but the store's, and only the points where the status is
published compare it with the engine.

`Implements` maps every step to a step of `Exposure` or a stutter. Beside `IInv` it needs
`Death`: once the execution task is gone the slot stays taken, so no basket is handed to a dead
task and none leaves the pipeline without having been executed or lost. That stops which never
go away are never lifted (`Latched`) is shown action by action from the latches of the engine.

`BasketProofs`, for any number of legs, any opportunities, either venue and a store that may or
may not fail, under `BasketAssumption`: `TypeCorrect`, `WriteAheadHolds`, `ReportsAreTrue`,
`StaysWithinMeans` and `ReportsAsAssumed`, every invariant of the module. `WriteAhead` is not
inductive: that the venue sees a leg only after its row says Submitted rests on the stage of
the task. `IInv` adds `AllSubmitted` (while a round is being submitted every leg of it is
Submitted in memory) and strengthens "memory never ahead of the store" to "they are equal until
the basket is aborted" (`InStep`), so that no transition starts from a state the store has not
acked. `PersistKeeps` is the one lemma about `persist_transition`; every action is either a
transition, a step that fills in sizes and answers (`AnswersInv`) or one that touches no order.

The other invariants compare the three tapes, and rest on `Whole`, that invariant and `Truth`.
`Orders` says what an order can amount to (`Fits`: booked <= answered <= traded <= asked, with what
its state adds), that a repair asks for what the main round left and an unwind for the surplus
(`Sizes`), and that an order which is not of the running round rests. `Course` says which orders
exist at which stage, what a pending conversion is, and that nothing has traded behind an open or
expired paper window. `Tapes` is the account: until the merges start, the venue holds what was
split plus what each leg traded, the ledger what is on record of the splits plus what each leg
booked, as sums over the legs (`Accounted`); `durable = hold` until an abort. When trading ends,
every order is at rest, what is booked is, in paper mode, what was traded, and the tapes agree
(`SettleTapes`).
No sale is naked because a leg sells at most its quantity, the sales of a token sum to at most
its split (`Covered`, the engine's rule; `SplitsCover`), and what is still to book of an answer
is part of that (`SaleCovered`). `Surplus` chooses the leg with the smallest filled fraction by
cross products; that one exists for any number of legs, and that the surplus is then part of
what filled, are `MostConstrained` and `SurplusFits`. Only `WindowTruth` and the venue's answers
need the write-ahead invariant: an order that is answered is Submitted, so nothing of it is booked.

`MarketMakerProofs`, for any tokens, keys, sizes, caps and number of faults, under
`QuoteAssumption` and `MakerAssumption`: `TypeCorrect`, `StopsFlatHolds`, `NoOrphans`,
`InventoryIsTrue` and `InventoryIsBounded`, every invariant of the module. `StopsFlat` speaks only of the moments between ticks; `Stages` says what every stage in between may still
do - no pass runs while the maker is stopped as a whole, a vetoed key is never among those a
pass will place, what `cancel_all` has not visited is still in `todo` - and `Consistent` ties the
tracking map to the venue's book (a tracked id names an order of its own key), so that a cancel,
a place or a fill on one key cannot disturb another. `CancelsKeep` and `PlaceKeeps` state that
once for each kind of venue call.

The other three rest on `Whole`, which is `TypeOK`, that invariant, `Orders` and `Books`. `Orders`
says what one order and its quote may amount to, that a quote a pass is about to place is
within the ceiling together with the inventory (`Fits`), and that the open orders nobody tracks
are no more than the faults. `Books` is an account for every token and side: `Held`, the
inventory; `Gap`, what was traded and is neither held nor still to be polled; `Reach`, what the
venue may still trade; `Stray`, the part of it nobody claims. `Gap` and `Stray` together stay within
what the faults cost (`Loss`, one quote each), which gives `InventoryTrue`; held, gap and
reach together within the ceiling, one quote and the loss, which gives `InventoryBounded`. Every
step moves quantities between these accounts (`BalanceKept`: an answered cancel, a fill, a
read fill that changes sides), and only a place adds to them: at most one quote per side and
pass (`Extra`), where the last poll left no more than one tracked order there (`OneQuoteRests`).
That the account closes under *late* fills - of an order replaced, or cancelled while its cancel
was under way - is why the invariant has to follow unread fills per order and not per quote.

`PricingProofs`, of `Ladder` for every tick size: `SetKeepsBest` - the cached best level `Set` keeps is the
best of all levels, from the scan that starts at the level that emptied (`FiniteSums` supplies
the witness of its CHOOSE). `Feed` may therefore read only the cache.

Of `Ledger`, for any sizes, prices, share of a dollar, queue and number of rows, under
`LedgerAssumption`: `BooksAlwaysBalance`, `StoreAlwaysFollows` and `NeverOversells`, every invariant of the
module. `Consume` is a FoldLeft, which the community modules define by a recursive function over sets of
indices; `ConsumeFolds` shows that this function exists and closes the lots one after the other, and
`ConsumeMoves`, by the smallest number of lots for which it could fail, what closing does: shares and cost
only move from the lots to what was taken, and what is still needed afterwards found no lot of that side.
`PartsCost` and `RemainsGood` are the rounding: a lot closed in part keeps its sign and no more of its
cost than its exact share (a lot is good, `GoodLot`, when it was opened or what was left of a good one).
None of the three invariants is inductive. A restart seeds the inventory from the lots, so
`BooksBalance` needs that the market maker's stack of a token is on one side (`SidesInv`: a fill
opens lots only once the other side is used up), or the seed's cost could have the wrong sign. `NoOversell`
needs that the arb strategy has one row in the queue at most, that this row needs no more than it holds
(`QueueOK`), and that what it holds is no more than its lots (`SidesInv`), through failed
writes and restarts that forget what was held. `StoreFollows` counts the rows in the queue with
`OnTheWay`. The invariant (`LedgerInv`) was checked on the instance of `Ledger_books.cfg` first.
`RestartsForget` says for every state what a restart does to the market maker's position: what it merged comes back, since
merges send no row, and what was queued or failed is gone. That is all of finding `Ledger_restart.cfg`
below: with nothing merged and everything written, the position is resumed.

Of `Feed` and `QuotedFeed`, for any tokens, ticks, books the venue can show, off-tick prices,
threshold, length of the queue and number of faults, under `FeedAssumption` and
`QuotedFeedAssumption`: `FeedTyped`, `LosesNothing` and `QuotesRest`. `NothingLost` speaks of the book
that will be when what is in hand and in the socket has been applied, and is not inductive: it
says nothing of a book that is not in use, and a snapshot makes one usable in one step, under whatever
is still in the socket. The invariant (`FeedInv`) says for every level of every token whether in use or
not (`InStep`, `Follows`): the event among those still to come that sets the level *last* sets it to
what the venue has, and a level that nothing to come will set is the venue's already if the book is in use. A
snapshot or a delta in between may be as old as it likes. Two things make that hold.
A book frame or a REST answer names every level, so it is the last word for all the frames
before it; and every move of the venue goes to the end of the queue. What may not happen is that a
REST answer which is wrong - `CrossedBook` - is that last word and the book is used: `Calls` says that
the REST calls and answers in hand are for distinct tokens whose books are out of use, and `Books` that
a book in use is uncrossed and kept by a live session. `Unsubscribed` is why a socket that never
subscribed has nothing to say. What a set of level changes leaves, in whatever order FoldSet takes them
(`ChangesAre`), what a snapshot leaves (`SnapshotIs`), and what appending, popping and replacing do
to the last setting of a level (`Appended`, `Popped`, `HeadDone`) are lemmas. `QuotesRest` then combines
`Books` - the cached best levels are the best, and do not cross - with `SpreadRests` and
`RewardRests` below.

Of the inventory and the quotes, for all integers: `OnFillConserves` - a fill moves realized less basis by
exactly its cash, whatever truncation does - and `OnFillKeepsSign` - a long is never carried at
a negative cost nor a short at a positive one. The nonlinear facts about rounded part costs are
lemmas of their own. They are the market maker's half of `BooksBalance` below.
For every tick size and book: `SpreadRests` and `RewardRests` - the quotes of either policy stay off
the book and each other and on their side of the fair price, RewardFarm's inside its band and
though its divisions may miss by any number of ticks, which is `PostOnly` for every book -,
`SkewBounded`, `MicropriceInside`, and `QuoteSizeFits`: a size is nothing or at least the venue's
minimum, in whole grains, and worth no more than its notional.

`ArbProofs` also has `Worlds`, for any markets, partitions and relations: `EnumerationIsExact` - the
worlds `lp.rs` enumerates are exactly the resolutions the venue can reach -, `PartitionPays` and
`PairPays` - what the baskets of classes 2 and 3 pay in each of them.

And of `Universe` with `Engine`, for any listing, relationship file, filter, books, fees, gas, basis
cap, answers of the LP solver and lookups that fail: `PaysWhateverResolves` (`Riskless`),
`LimitsAlwaysPay` (`LimitsStillPay`), `FetchesTheWalk` (`FetchIsTheWalk`) and `GreedyIsBest`
(`BestSize`), every invariant the run `engine` checks. `UniverseAssumption` says what an input is: a
condition listed twice is listed with the same flag and question (`Consistent`), the levels of a book are
sorted and cost at most a dollar, gas is a natural number. `GreedyIsBest` has one hypothesis more, that a fee rate
is at most the whole (`f <= BpsDen`): no line of the code bounds what the venue answers. Above it the cost
of a share may fall while its price rises, and then a march that stops at the first loss is not best.

`PaysWhateverResolves` has in `ListedOnce` the premise of its property, that no condition is listed twice: the ids of the
registry are then the indices of its entries (`IdsAreIndices`, from what `Before` counts), so that
a partition reads the entries of its own members and has no market twice. The other three hold for doubled conditions too.

The invariant is `UniverseInv`: what has been looked up is what the sequential walk comes past (`Fetched`;
that the waves read ahead no further is `FetchedWalk`, by the place at which the walk is cut),
a component has partitions of at least two of its own markets, verified ones only of open named markets
(`ComponentBuilt`, from `EntryBuilt`), and the walk follows the books (`Walked`). The last is the heart of
`Riskless`: each leg has one segment for each level of its ladder up to the cursor, together exactly the units
that every other leg has (`LegWalked`; a doubled market has a leg for each mention), the basket is one of the two kinds whose payout is known
in every world (`PaysForAll`, `SplitsASet`), and what was taken last was worth its *limit*, which is
`LimitsStillPay`: prices only get worse, so the limits of the last chunk bound all before it.
`WalkPays` adds up the trades of such a walk, `SolvedPays` those of any answer of the
solver after clamping and exact re-pricing; both end in the net of the worst enumerated world, and
`VerdictsAreWorlds` says that no verdict of the venue is missing among those when the partitions came whole.

`BestSize` compares the end of a march with every other size, over books of any depth. Its invariant
(`Greedy`) says that a cursor stands where the units are (`Positioned`) and that the account of the cap,
which rounds up once per chunk, is ahead of the exact basis by less than a micro-dollar for
each level used up, and one more for the last chunk (`Charged`); `PassesGrow` is why every chunk but
the last uses one up. What the walk pays for `u` shares is a sum of part levels (`CumulatedIs`), and the cost of a
ladder is convex in `u` because its levels get worse (`CostConvex`, `LegConvex`, `WalkConvex`): with
the slope at the last chunk positive and the slope at the cursors not, no other size gains more (`MarchIsBest`).
Every definition of these invariants was checked on the instance of `Universe.cfg` first.

`RelayProofs`, for any number of fills and faults, under `RelayAssumption`: `TypeCorrect`,
`ForgetsNothing` and `OvercreditsNever`. Shares leave the wallet when a batch lands and the
inventory only when its outcome is drained, so neither property is inductive. What lies between
is `Coming`: the one merge that was confirmed and is not yet drained. There is only one, because a
task polls one batch (`Batches`) and a busy task has left nothing in its channel (`Tasks`, the
latch). `Accounted` says that the wallet together with it is in the books. Redeems need no such
account: once one has landed the market is resolved, nothing is bought any more and the wallet
stays empty (`Collected`), which is why draining it at whatever the net then is loses nothing.
`PaidFor` is the other side - what the books have and the wallet has not, the chain paid for -, for
the winning token, and for both before anybody won.

`SessionProofs`, for any loops, modes, queue bounds, panics and number of re-executions, under
`SessionAssumption`: `TypeCorrect`; `LiveIsConfirmed` from `Consent`, which says through whose hands
a release may pass - the command queue, main's errands, the bridge, the coordinator - before
anybody confirmed; `HealthIsTrue` and `DrainsAll` from `Cascade`, the order of shutdown: no task
has ended while somebody it reads from lives (`Order`, with what health counts: rows, not the day's
adds), and nothing is left in its channels (`Left`, with the quotes of a maker that ended, which rest only if its
last sweep was refused).

Of `Startup`, for any listing, configurations and number of launches, under `StartupAssumption`:
`AsksAreBacked` (`NoPhantomAsk`) and `AssembledRight` (`Assembled`). The invariant of the first,
`StartupInv`, says that the registry has no market twice (`Registries`): a handle then is one token
of the venue, and a sale of it touches nobody else's shares. `Assembled` needs what the three walks
return (`SelectedIsBest`, `FundedIsBest`, `PackedIsWhole`), by induction on the set that is walked,
its last element by rank first (`LastInOrder`).

`CopyProofs`, for any finite set of keys, any caps, prices and signals, under `CopyAssumption`:
`TypeCorrect`, which needs `CallOK` (a sale asks for no more than the position), `LossCapHolds`, and `OneSideHolds` and `CapsHeld`
while no row of the book is dropped (`RowsFit`). `LossCapHolds` has no such hypothesis: whatever the
channel drops of rows and of the day's results, whatever is queued when a cycle starts, a cycle that began with the *written* closes
at the cap is halted through every await of it, and a halted cycle does not reach its entries (`Latched`, with `Booked`:
what the channel took of the day is written or queued). The invariant of the other two speaks of the
book that the store *will* hold (`Stored`: the queue applied to the rows), because a restart
loads that one: it and the loop's book are both one-sided and within the caps, and what is deployed
is summed over the keys. That no row is dropped is a hypothesis the code does not enforce, it only sizes
the channel for it.

`FiniteSums` holds what the proofs share. A non-empty set of integers bounded below has a least
element, so that what a loop picks with CHOOSE exists. `Total(f, S)`, what `MapThenSumSet` of the
community modules computes, is defined on finite sets by subtraction of one element at a time:
that it does not depend on the order, that a step which changes one entry changes it by that
much, that equal entries give equal totals and smaller ones smaller totals are shown by taking a smallest subset without the
property, so that no induction theorem with an operator parameter is needed. `FoldsExist` does the
same for the folds of `FoldSet` and `FoldLeft`: the recursive function they are defined by exists. `TotalUpTo` and
`TotalFrom` add an entry at the end or the front of a sequence. The inductive
invariants were run through TLC on the instances above before they were proved.

TLC only: all liveness (fairness and ENABLED are beyond the prover). Every invariant that a passing run checks
is proved.

## 6. Findings

**1. `VerifiedIsComplete`** (run `universe_cut`; `registry/src/lib.rs:324`). The comments say
a verified partition is a complete set, and class 2 relies on it. The registry derives a
partition from the members it accepted: those cut by `max_markets` or the priority pool, gated,
or whose lookup failed are not counted, and the rest is verified. `Riskless` therefore has the
premise `TakenWhole`.

The following disagreements between code and comments are kept as configurations that are not
part of the regular runs; TLC violates the named property in each within seconds.

| Config | Property | What happens |
|---|---|---|
| `Coordinator_halts.cfg` | `FirstHaltWins` | `record_error` rewrites an existing halt reason (`risk/src/lib.rs:198`); the comments say the first halt wins. The halt row keeps the first |
| `Basket_window.cfg` | `ExpiresUnanswered` | the outer fill window equals the per-leg poll window of the live venue (`execution/src/basket.rs:291`), so it can expire after a leg traded; the leg is recorded as expired flat |
| `Basket_onchain.cfg` | `NeverFailsAfterFills` | merge-back is skipped under Hold only for one class (`execution/src/basket.rs:311`); a live basket of another class with both tokens of a market is merged, refused, and reported as an error after its fills |
| `MarketMaker_converge.cfg` | `ReconcileConverges` | a replace that cancels and is then refused leaves the dead order tracked (`execution/src/quote_manager.rs:137`); wanting the old quote again is a no-op |
| `MarketMaker_dayloss.cfg` | `DayHaltedMeansFlat` | the day-loss latch is set in mid-session with quotes resting, and nothing cancels them (`app/src/strategy/mm.rs:1220`) |
| `Ledger_restart.cfg` | `RestartResumes` | merges of a paper market maker reach its inventory and not its lots: after one, the seed is not the position the last process held, though every row was written |
| `Copy_timeout.cfg` | `BoughtOnce` | a cycle timed out between a buy and its entry in the book buys the same signal again in a later cycle |
| `Session_keys.cfg` | `ScreenTornDown` | a key pressed while the command queue is full blocks the dashboard's task in its send; at shutdown nobody reads the queue any more and main waits for that task, against the comment at `app/src/main.rs:2629-2634` |
| `Session_hold.cfg` | `HeldMeansIdle` | resuming from the dashboard releases a held market maker or copy executor before live trading is confirmed, against the comment at `app/src/main.rs:2536-2542` |
| `Universe.cfg`, with `SetsPay` in place of `Riskless` | `SetsPay` | a condition listed twice is caught by a `debug_assert_eq!` only (`registry/src/lib.rs:257-274`); a release build has its partition name the market twice, and class 2 claims n-1 dollars for n legs that pay less (`engine/src/class2.rs:54-57`) |
| `Startup_ids.cfg` | `ResumesItsOwn` | handles are assigned afresh by each sync (`registry/src/intern.rs:77-86`), but lots are stored by handle: after a restart the market maker may be seeded with another token's lots (`app/src/main.rs:1961-1973`). Live, the wallet bounds them, so it may take over arb's or copy's shares. Copy's own positions are stored by the venue's id |

Observations made while modelling, without a run:

* *Basket and quotes.* The merge dust is documented as 0.01 share (`execution/src/basket.rs:37`,
  `:320`) and is one share in the constant; `cancel_all` of a paused or halted market maker is not
  retried, where its comment says the loop "stays flat" (`app/src/strategy/mm.rs:2660`);
  `reconcile_open_orders` has no caller in the application.
* *Small caps.* `check_quote` never blocks a quote with `|proj_net| <= |net|`
  (`risk/src/inventory.rs:363-367`, "moving toward flat"); that lets an ask of the right size turn a
  long into a short of the same size. With a cap under half a quote the inventory passes the cap by
  that rule alone, which is the reason for `Ceiling`; the proof showed it (TLC: cap 1, sizes 1 and
  4). The configuration checks `max_inventory_usd` and `max_quote_usd` apart
  (`config/src/lib.rs:1063`, `:1107`); the defaults are 50 and 5.
* *Quotes on two tokens.* With hedging, RewardFarm bids on both tokens of a market; at an on-tick
  mid the two bids can add up to a dollar, which the venue matches like a crossing. The guard in
  `quote_policy.rs:35-42` looks at one token. The comment at `mm.rs:790` says a crossing side aborts the
  pass; `reconcile` goes on with the other quotes (`execution/src/quote_manager.rs:20-23`).
* *Copy* (`app/src/strategy/copy.rs`). The orphan-winner sweep is skipped when the book is empty
  (1309, against 1364-1369); a redeem that errs after landing leaves the position open (1444,
  2137); a buy whose answer is lost is marked seen and its shares belong to nobody (1839); the
  seen set is cleared whole at its cap (1087). A day's result that the full channel drops or a crash
  finds queued is missing from the ledger the next gate is armed with: the allowance of the cap
  reopens by that much, against the comment at 2243-2254.
* *Relay.* A batch's deadline of 600 s outlives the 120 s of its poll; the clamp in
  `apply_merge_result` is not a no-op (`mm.rs:2801-2808`); a winner that the data API does not list is priced 0
  (2925); tokens resolved since are dropped from the seed of a restart (`app/src/main.rs:264-292`).
* *Session.* The "coordinator aborted" mark is set only at shutdown; the death of the execution
  task or the LP pool does not reach health; going live un-pauses loops the operator paused;
  pause, halts and the session loss cap are lost across a re-execution, and each one counts
  as a session start for the restart storm. A maker whose last `cancel_all` fails leaves quotes that
  nobody hears of: neither health nor the exit status knows.
* *Engine and store.* The march maximises the net, and a basket whose edge is then below the
  floor is rejected where a smaller one might pass; class 4's `LegFill.cash` omits the fee; the
  `InactiveMember` check cannot fire when `require_active` is set; a failed `DayRealized` write is
  not among the writes health counts (`store/src/writer.rs:113-126`, by design: 40-46).
* *Start-up.* The market maker's `capital_usd` caps each side's notional only, so that its
  money is not bounded by its slice (`app/src/main.rs:1522-1525`); copy's caps scale with equity
  beyond its slice; with copy and the reward farm both on, the universe is copy's conditions; the
  seed drops tokens held but no longer quoted.

## 7. Not modelled

* *Signing, authentication, secrets, data API, signal scoring.* One call's output for its input;
  no state that a step of another actor could disturb.
* *Backtest.* A single-threaded replay through the same detectors and paper venue.
* *Rendering of the TUI, publishing, logging, statistics, telemetry.* No decision depends on them.
* *The simplex.* External: any answer is checked by the exact re-pricing around it.
* *Parsing of configuration and frames, ranges of single fields, id types.* What validation makes
  positive is an assumption of the modules that need it; cross-field validation is in `Startup`.
* *Parts of modelled components:* the detector's `Dedup`, reward estimates and shadow mode of the
  market maker, orphan liquidation and universe refresh of copy, `adopt` and `forget_all` of the
  quote manager (never called), restarts in `Relay`, fees and tick bumps of repairs in `Basket`,
  dashboard queries of the store.

The map stays well below the whole implementation for that reason: of its lines a large part is
tests beside the code, presentation, clients, parsing and telemetry. `components` in
`PROJECT.json` lists each part with what is left out of it.

## 8. Running

```
tlc -workers 2 -config Coordinator_all.cfg MCCoordinator
tlc -workers 2 -config Startup_ids.cfg MCStartup          # a counterexample of section 6
tlapm ArbProofs.tla               # and FiniteSums, BasketProofs, MarketMakerProofs,
                                  # PricingProofs, SessionProofs, CopyProofs, RelayProofs
```
