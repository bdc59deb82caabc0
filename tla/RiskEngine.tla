----------------------------- MODULE RiskEngine -----------------------------
(***************************************************************************)
(* The pure risk engine of the risk-free-basket strategy                   *)
(* (crates/risk/src/lib.rs): exposure caps, sticky halts, the pause and    *)
(* kill latches, the consecutive-error window.  It has no task of its own: *)
(* every operator maps an engine state to the next one, and the            *)
(* coordinator, its only owner, is the state machine that applies them.    *)
(*                                                                         *)
(* Money is in abstract integer units.  An opportunity carries the fields  *)
(* of its BasketCheck: cost (worst-case cash out over all markets), maxLeg *)
(* (largest single leg), legs, and market (cost per market).               *)
(***************************************************************************)
EXTENDS Integers

CONSTANTS
  Market,            \* the markets of the universe
  Bankroll,          \* cap on the global exposure
  PerMarketCap,      \* cap on one market's exposure
  MaxUnhedged,       \* cap on a single leg's cash
  MaxOpenOrders,     \* cap on the legs in flight
  MaxBasketLegs,     \* cap on the legs of one basket
  DrawdownLimit,     \* bankroll * daily_drawdown_bps / 10^4
  SessionLossCap,    \* live canary loss cap; NoCap in paper sessions
  NoCap,
  ErrorHaltCount,    \* consecutive errors that halt
  RestartStormCount  \* session starts in the window that halt

ASSUME RiskConfigAssumption ==
  /\ Bankroll \in Nat /\ PerMarketCap \in Nat /\ MaxUnhedged \in Nat
  /\ MaxOpenOrders \in Nat /\ MaxBasketLegs \in Nat
  /\ DrawdownLimit \in Nat \ {0}
  /\ NoCap \notin Int
  /\ SessionLossCap \in Nat \cup {NoCap}
  /\ ErrorHaltCount \in Nat \ {0} /\ RestartStormCount \in Nat \ {0}

HaltReason == {"DailyDrawdown", "ConsecutiveErrors", "RestartStorm", "SessionLoss"}
NoHalt == "none"

RiskState ==
  [global: Int, market: [Market -> Int], openOrders: Nat,
   paused: BOOLEAN, killed: BOOLEAN, halted: HaltReason \cup {NoHalt},
   peak: Int, errors: Nat]

NewRisk ==
  [global |-> 0, market |-> [m \in Market |-> 0], openOrders |-> 0,
   paused |-> FALSE, killed |-> FALSE, halted |-> NoHalt, peak |-> 0, errors |-> 0]

(***************************************************************************)
(* The verdict of pre_check.  Only whether a basket is rejected matters to *)
(* the callers; stops (kill, halt, pause) come before the caps.            *)
(***************************************************************************)
Stopped(r) == r.killed \/ r.halted # NoHalt \/ r.paused

\* Mutant: the bankroll is compared with the basket alone.
WithinCapsForgetsExposure(r, o) ==
  /\ o.legs <= MaxBasketLegs
  /\ r.openOrders + o.legs <= MaxOpenOrders
  /\ o.maxLeg <= MaxUnhedged
  /\ o.cost <= Bankroll
  /\ \A m \in Market : o.market[m] > 0 => r.market[m] + o.market[m] <= PerMarketCap

WithinCaps(r, o) ==
  /\ o.legs <= MaxBasketLegs
  /\ r.openOrders + o.legs <= MaxOpenOrders
  /\ o.maxLeg <= MaxUnhedged
  /\ r.global + o.cost <= Bankroll
  /\ \A m \in Market : o.market[m] > 0 => r.market[m] + o.market[m] <= PerMarketCap

Approved(r, o) == ~Stopped(r) /\ WithinCaps(r, o)

\* Hold the worst case of a dispatched basket.
Reserve(r, o) ==
  [r EXCEPT !.global = @ + o.cost,
            !.market = [m \in Market |-> r.market[m] + o.market[m]],
            !.openOrders = @ + o.legs]

\* Give a reservation back; the leg count saturates at zero.
Release(r, o) ==
  [r EXCEPT !.global = @ - o.cost,
            !.market = [m \in Market |-> r.market[m] - o.market[m]],
            !.openOrders = IF @ >= o.legs THEN @ - o.legs ELSE 0]

\* Commit the cost basis a report leaves behind: one commit call per market.
Commit(r, left) ==
  [r EXCEPT !.global = @ + left.total,
            !.market = [m \in Market |-> r.market[m] + left.market[m]]]

(***************************************************************************)
(* n calls of record_error in one report.  `aged' of the oldest entries    *)
(* have left the window by then.  The halt is set whatever halt was there. *)
(***************************************************************************)
RecordErrors(r, n, aged) ==
  LET errors == r.errors - aged + n
  IN  IF n = 0 THEN r
      ELSE [r EXCEPT !.errors = errors,
                     !.halted = IF errors >= ErrorHaltCount THEN "ConsecutiveErrors" ELSE @]

RecordSuccess(r) == [r EXCEPT !.errors = 0]

\* The mid-marked drawdown halt: peak to trough of the session's equity.
UpdateEquity(r, equity) ==
  LET peak == IF equity > r.peak THEN equity ELSE r.peak
  IN  [r EXCEPT !.peak = peak,
                !.halted = IF @ = NoHalt /\ peak - equity >= DrawdownLimit
                           THEN "DailyDrawdown" ELSE @]

\* The bid-marked session-loss halt of a live canary.
UpdateSessionPnl(r, pnl) ==
  [r EXCEPT !.halted = IF @ = NoHalt /\ SessionLossCap # NoCap /\ pnl <= -SessionLossCap
                       THEN "SessionLoss" ELSE @]

NoteSessionStarts(r, count) ==
  [r EXCEPT !.halted = IF count >= RestartStormCount THEN "RestartStorm" ELSE @]
=============================================================================
