----------------------------- MODULE Coordinator -----------------------------
(***************************************************************************)
(* The arbitrage pipeline (crates/app/src/coordinator.rs, positions.rs,    *)
(* kill.rs, crates/engine/src/dedup.rs, crates/app/src/strategy/arb.rs):   *)
(*                                                                         *)
(*   detectors, LP pool --opps--> coordinator --execQ--> execution task    *)
(*   operator ----------ctl-->   (risk, book)  <--reportQ--                *)
(*   kill watcher ----killFlag-->                                          *)
(*                                                                         *)
(* Each is a task of its own.  The coordinator yields at every await, so   *)
(* one turn of its select loop is several steps: `pc' says where it is.    *)
(*                                                                         *)
(* What waits in the opportunity and control channels is seen by nobody    *)
(* before it is received, so a queue's content is chosen when it is read.  *)
(***************************************************************************)
EXTENDS RiskEngine, Sequences

CONSTANTS
  Shape,             \* opportunity fingerprints: class, tokens, sides, prices
  Opp,               \* the opportunities the detectors can emit
  NoOpp,
  NoNet,             \* "no live cooldown entry"
  ImprovementPct,    \* reemit_improvement_pct
  Live,              \* a real-money session
  ReleasedAtStart,   \* live dispatch released by the CLI or a resync re-exec
  BasketCap,         \* live canary cap on a basket
  Leftover,          \* the cost bases a report may leave behind
  Overrun,           \* how far repair's tick bump takes a basket over its plan
  OrderErrors,       \* order error counts a report may carry
  Equity,            \* the equity levels marks can produce once money moved
  SessionStarts,     \* recent session starts the store may report at startup
  Watched,           \* any one shape: the one whose dispatches the history keeps
  OppCap,            \* opportunities one turn may find queued
  ExecMayPanic       \* the execution task may die mid-basket

OppRecord ==
  [fp: Shape, net: Nat, cost: Nat, maxLeg: Nat, legs: Nat, market: [Market -> Nat],
   plausible: BOOLEAN,  \* edge <= max_edge_bps
   pureBuy: BOOLEAN,    \* all legs buy, no split
   minLegs: BOOLEAN]    \* every leg meets the venue's share and value minimum

ASSUME CoordinatorAssumption ==
  /\ Opp \subseteq OppRecord /\ NoOpp \notin Opp
  /\ NoNet \notin Int /\ ImprovementPct \in Nat
  /\ Live \in BOOLEAN /\ ReleasedAtStart \in BOOLEAN /\ BasketCap \in Nat
  /\ Leftover \subseteq [market: [Market -> Nat], total: Nat]
  /\ Overrun \in Nat /\ OrderErrors \subseteq Nat
  /\ Equity \subseteq Int /\ SessionStarts \subseteq Nat
  /\ OppCap \in Nat \ {0} /\ Watched \in Shape
  /\ ExecMayPanic \in BOOLEAN

VARIABLES
  oppOpen,           \* whether a sender of opportunities is left
  killFlag,          \* the AtomicBool every kill source sets
  pc,                \* where the coordinator's run() is
  batch,             \* coalesced opportunities still to process this turn
  seen,              \* cooldown: last admitted net per shape inside the window
  sent,              \* history: last dispatched net of Watched inside that window
  risk,              \* the RiskEngine
  busy, inFlight,    \* the single dispatched basket
  released,          \* live_released
  book,              \* the PositionBook: cost basis per market and in total
  haltRow,           \* the halt row written: its reason, or NoHalt
  status,            \* the last CoordStatus published
  reportClosed,      \* report_rx returned None
  execQ, running, execAlive,  \* the execution task
  reportQ

coolVars  == <<seen, sent>>
coordVars == <<pc, batch, coolVars, risk, busy, inFlight, released, book,
               haltRow, status, reportClosed>>
envVars   == <<oppOpen, killFlag>>
execVars  == <<execQ, running, execAlive, reportQ>>
vars == <<coordVars, envVars, execVars>>

Command == {"Pause", "Resume", "ReleaseLive"}
NoLeft == [market |-> [m \in Market |-> 0], total |-> 0]

-----------------------------------------------------------------------------
(* What execute_basket can report for an opportunity. *)

LeftoverOf(o) ==
  {l \in Leftover :
     /\ l.total <= o.cost + Overrun
     /\ \A m \in Market : l.market[m] <= IF o.market[m] > 0 THEN o.market[m] + Overrun ELSE 0}

ExecResult(o) ==
       [outcome: {"Err", "RejectedUnhedged"}, left: {NoLeft}, errors: {0}]
  \cup [outcome: {"NoFill"}, left: {NoLeft}, errors: OrderErrors]
  \cup [outcome: {"FilledClean"}, left: LeftoverOf(o), errors: {0}]
  \cup [outcome: {"Repaired", "Unwound"}, left: LeftoverOf(o), errors: OrderErrors]

-----------------------------------------------------------------------------
(* Helpers of the coordinator. *)

\* drain-and-coalesce: one candidate per shape, a later one only if its net is higher
Coalesce(q) ==
  {q[i] : i \in {i \in DOMAIN q : \A j \in DOMAIN q : q[j].fp = q[i].fp =>
                    \/ q[j].net < q[i].net
                    \/ q[j].net = q[i].net /\ j >= i}}

\* Cooldown::admit: a shape seen inside the window must improve on its last net
Bar(net) == net + (net * ImprovementPct) \div 100
Admits(o) == seen[o.fp] # NoNet => o.net > Bar(seen[o.fp])

\* the live gates of process_opp: held until released, then the canary limits
LiveGates(o) ==
  Live => /\ released
          /\ o.pureBuy
          /\ o.cost <= BasketCap
          /\ o.minLegs

StatusOf(r, b, rel) ==
  [paused |-> r.paused, halted |-> r.halted, killed |-> r.killed,
   busy |-> b, released |-> rel]

\* maybe_log_halt: one row per session, with the reason of the moment
LogHalt(r) == haltRow' = IF haltRow = NoHalt THEN r.halted ELSE haltRow
HaltNewlyLogged(r) == haltRow = NoHalt /\ r.halted # NoHalt

NextTurn(rest) == IF rest = {} THEN "top" ELSE "batch"

-----------------------------------------------------------------------------
Init ==
  /\ oppOpen = TRUE /\ killFlag = FALSE
  /\ pc = "top" /\ batch = {}
  /\ seen = [s \in Shape |-> NoNet] /\ sent = NoNet
  /\ \E starts \in SessionStarts : risk = NoteSessionStarts(NewRisk, starts)
  /\ haltRow = risk.halted
  /\ busy = FALSE /\ inFlight = NoOpp
  /\ released = ReleasedAtStart
  /\ book = [held |-> [m \in Market |-> 0], total |-> 0, flat |-> TRUE]
  /\ status = StatusOf(NewRisk, FALSE, FALSE)
  /\ reportClosed = FALSE
  /\ execQ = <<>> /\ running = NoOpp /\ execAlive = TRUE /\ reportQ = <<>>

-----------------------------------------------------------------------------
(* The rest of the program, as the coordinator sees it. *)

\* the supervisors and the LP pool are gone: the last sender is dropped
CloseOpps ==
  /\ oppOpen
  /\ oppOpen' = FALSE
  /\ UNCHANGED <<killFlag, coordVars, execVars>>

TripKill ==
  /\ ~killFlag
  /\ killFlag' = TRUE
  /\ UNCHANGED <<oppOpen, coordVars, execVars>>

\* time passes: a shape's last admission leaves the cooldown window
CooldownLapses(s) ==
  /\ seen[s] # NoNet
  /\ seen' = [seen EXCEPT ![s] = NoNet]
  /\ sent' = IF s = Watched THEN NoNet ELSE sent
  /\ UNCHANGED <<pc, batch, risk, busy, inFlight, released, book, haltRow,
                 status, reportClosed, envVars, execVars>>

-----------------------------------------------------------------------------
(* The coordinator's loop. *)

\* Mutant: a paused session does not look at the kill flag.
LoopTopPausedDeaf ==
  /\ pc = "top"
  /\ pc' = "select"
  /\ IF killFlag /\ ~risk.killed /\ ~risk.paused
     THEN /\ risk' = [risk EXCEPT !.killed = TRUE]
          /\ status' = StatusOf(risk', busy, released)
     ELSE UNCHANGED <<risk, status>>
  /\ UNCHANGED <<batch, coolVars, busy, inFlight, released, book, haltRow, reportClosed,
                 envVars, execVars>>

\* check_kill (one kill row per session), then wait in select!
LoopTop ==
  /\ pc = "top"
  /\ pc' = "select"
  /\ IF killFlag /\ ~risk.killed
     THEN /\ risk' = [risk EXCEPT !.killed = TRUE]
          /\ status' = StatusOf(risk', busy, released)
     ELSE UNCHANGED <<risk, status>>
  /\ UNCHANGED <<batch, coolVars, busy, inFlight, released, book, haltRow, reportClosed,
                 envVars, execVars>>

Queue == UNION {[1..n -> Opp] : n \in 1..OppCap}

TakeOpps ==
  /\ pc = "select"
  /\ pc' = "batch"
  /\ \E q \in Queue : batch' = Coalesce(q)
  /\ UNCHANGED <<coolVars, risk, busy, inFlight, released, book, haltRow, status,
                 reportClosed, envVars, execVars>>

(***************************************************************************)
(* process_opp up to the hand-over to the execution task.  `aged' is       *)
(* d.at.elapsed() > max_age.  A shape past the cooldown is remembered even *)
(* when a later gate drops it.                                             *)
(***************************************************************************)
Remember(o) == seen' = [seen EXCEPT ![o.fp] = o.net]
Drop(o) == Remember(o) /\ UNCHANGED sent
Send(o) == Remember(o) /\ sent' = IF o.fp = Watched THEN o.net ELSE sent
Gated(o) == o.plausible /\ LiveGates(o)

ProcessHead(o) ==
  /\ pc = "batch" /\ o \in batch
  /\ batch' = batch \ {o}

\* Mutant: a repeat that is cooled replaces the net to beat.
CoolLowersBar(o, aged) ==
  /\ ProcessHead(o)
  /\ aged \/ ~Admits(o)
  /\ Drop(o)
  /\ pc' = NextTurn(batch')
  /\ UNCHANGED <<risk, busy, inFlight, released, book, haltRow, status,
                 reportClosed, envVars, execVars>>

ExpireOrCool(o, aged) ==
  /\ ProcessHead(o)
  /\ aged \/ ~Admits(o)
  /\ pc' = NextTurn(batch')
  /\ UNCHANGED <<coolVars, risk, busy, inFlight, released, book, haltRow, status,
                 reportClosed, envVars, execVars>>

GateOut(o) ==
  /\ ProcessHead(o) /\ Admits(o) /\ ~Gated(o)
  /\ Drop(o)
  /\ pc' = NextTurn(batch')
  /\ UNCHANGED <<risk, busy, inFlight, released, book, haltRow, status,
                 reportClosed, envVars, execVars>>

RiskReject(o) ==
  /\ ProcessHead(o) /\ Admits(o) /\ Gated(o)
  /\ ~Approved(risk, o)
  /\ Drop(o)
  /\ LogHalt(risk)
  /\ status' = IF HaltNewlyLogged(risk) THEN StatusOf(risk, busy, released) ELSE status
  /\ pc' = NextTurn(batch')
  /\ UNCHANGED <<risk, busy, inFlight, released, book, reportClosed,
                 envVars, execVars>>

Suppress(o) ==
  /\ ProcessHead(o) /\ Admits(o) /\ Gated(o)
  /\ Approved(risk, o) /\ (busy \/ killFlag)
  /\ Drop(o)
  /\ pc' = NextTurn(batch')
  /\ UNCHANGED <<risk, busy, inFlight, released, book, haltRow, status,
                 reportClosed, envVars, execVars>>

\* Mutant: dispatch trusts the risk engine alone for the kill.
DispatchRacesKill(o) ==
  /\ ProcessHead(o) /\ Admits(o) /\ Gated(o)
  /\ Approved(risk, o) /\ ~busy
  /\ Send(o)
  /\ risk' = Reserve(risk, o)
  /\ busy' = TRUE /\ inFlight' = o
  /\ pc' = "dispatch"
  /\ UNCHANGED <<released, book, haltRow, status, reportClosed, envVars, execVars>>

Dispatch(o) ==
  /\ ProcessHead(o) /\ Admits(o) /\ Gated(o)
  /\ Approved(risk, o) /\ ~busy /\ ~killFlag
  /\ Send(o)
  /\ risk' = Reserve(risk, o)
  /\ busy' = TRUE /\ inFlight' = o
  /\ pc' = "dispatch"
  /\ UNCHANGED <<released, book, haltRow, status, reportClosed,
                 envVars, execVars>>

\* exec_tx.send(req).await: the reservation is undone if the task is gone
SendExec ==
  /\ pc = "dispatch"
  /\ IF execAlive
     THEN /\ execQ' = Append(execQ, inFlight)
          /\ status' = StatusOf(risk, busy, released)
          /\ UNCHANGED <<risk, busy, inFlight>>
     ELSE /\ risk' = Release(risk, inFlight)
          /\ busy' = FALSE /\ inFlight' = NoOpp
          /\ UNCHANGED <<execQ, status>>
  /\ pc' = NextTurn(batch)
  /\ UNCHANGED <<batch, coolVars, released, book, haltRow, reportClosed,
                 envVars, running, execAlive, reportQ>>

-----------------------------------------------------------------------------
(***************************************************************************)
(* handle_report: release, apply the leftovers to the book, commit their   *)
(* cost basis, feed the error window.  A failed basket (Err) applies       *)
(* nothing: what it had bought before failing is not in the report.        *)
(***************************************************************************)
ErrorsOf(res) == res.errors + (IF res.outcome \in {"Unwound", "Err"} THEN 1 ELSE 0)

\* Mutant: the leftovers enter the book and not the engine.
AfterReportUncommitted(rep, aged) ==
  LET base == Release(risk, rep.opp)
      fed  == IF rep.res.outcome \in {"FilledClean", "Repaired"}
              THEN RecordSuccess(base) ELSE base
  IN  RecordErrors(fed, ErrorsOf(rep.res), aged)

AfterReport(rep, aged) ==
  LET base  == Release(risk, rep.opp)
      taken == Commit(base, rep.res.left)
      fed   == IF rep.res.outcome \in {"FilledClean", "Repaired"}
               THEN RecordSuccess(taken) ELSE taken
  IN  RecordErrors(fed, ErrorsOf(rep.res), aged)

ApplyBook(rep) ==
  [held  |-> [m \in Market |-> book.held[m] + rep.res.left.market[m]],
   total |-> book.total + rep.res.left.total,
   flat  |-> book.flat /\ rep.res.outcome \in {"NoFill", "RejectedUnhedged", "Err"}]

\* a success clears the window before the report's own errors enter it
MayAge(rep) ==
  IF rep.res.outcome \in {"FilledClean", "Repaired"} THEN {0} ELSE 0..risk.errors

HandleReport(aged) ==
  LET rep == Head(reportQ)
  IN  /\ reportQ # <<>> /\ aged \in MayAge(rep)
      /\ reportQ' = Tail(reportQ)
      /\ busy' = FALSE /\ inFlight' = NoOpp
      /\ risk' = AfterReport(rep, aged)
      /\ book' = ApplyBook(rep)
      /\ LogHalt(risk')
      /\ status' = StatusOf(risk', FALSE, released)

TakeReport(aged) ==
  /\ pc = "select"
  /\ HandleReport(aged)
  /\ pc' = "top"
  /\ UNCHANGED <<batch, coolVars, released, reportClosed, envVars,
                 execQ, running, execAlive>>

ReportClosed ==
  /\ pc = "select" /\ ~reportClosed
  /\ reportQ = <<>> /\ ~execAlive
  /\ reportClosed' = TRUE
  /\ pc' = "top"
  /\ UNCHANGED <<batch, coolVars, risk, busy, inFlight, released, book, haltRow,
                 status, envVars, execVars>>

HandleCtl(cmd) ==
  /\ pc = "select"
  /\ risk' = IF cmd = "ReleaseLive" THEN risk
             ELSE [risk EXCEPT !.paused = (cmd = "Pause")]
  /\ released' = (released \/ (cmd = "ReleaseLive" /\ Live))
  /\ status' = StatusOf(risk', busy, released')
  /\ pc' = "top"
  /\ UNCHANGED <<batch, coolVars, busy, inFlight, book, haltRow, reportClosed,
                 envVars, execVars>>

\* snapshot_pnl: mid marks feed the drawdown halt, bid marks the session-loss halt
Marks == IF book.flat THEN {<<0, 0>>}
         ELSE {mark \in Equity \X Equity : mark[2] <= mark[1]}

\* Mutant: only reports log halts.
SnapshotUnlogged(r, b, mid, bid) ==
  /\ risk' = UpdateSessionPnl(UpdateEquity(r, mid), bid)
  /\ haltRow' = haltRow
  /\ status' = StatusOf(risk', b, released)

Snapshot(r, b, mid, bid) ==
  /\ risk' = UpdateSessionPnl(UpdateEquity(r, mid), bid)
  /\ LogHalt(risk')
  /\ status' = StatusOf(risk', b, released)

PnlTick ==
  /\ pc = "select"
  /\ \E mark \in Marks : Snapshot(risk, busy, mark[1], mark[2])
  /\ pc' = "top"
  /\ UNCHANGED <<batch, coolVars, busy, inFlight, released, book, reportClosed,
                 envVars, execVars>>

-----------------------------------------------------------------------------
(* Shutdown: drain the one basket in flight, release a stranded reservation. *)

\* Mutant: shutdown does not wait for the basket in flight.
OppsClosedUndrained ==
  /\ pc = "select" /\ ~oppOpen
  /\ pc' = "final"
  /\ UNCHANGED <<batch, coolVars, risk, busy, inFlight, released, book, haltRow,
                 status, reportClosed, envVars, execVars>>

OppsClosed ==
  /\ pc = "select" /\ ~oppOpen
  /\ pc' = IF busy /\ ~reportClosed THEN "drain" ELSE "final"
  /\ UNCHANGED <<batch, coolVars, risk, busy, inFlight, released, book, haltRow,
                 status, reportClosed, envVars, execVars>>

DrainReport(aged) ==
  /\ pc = "drain"
  /\ HandleReport(aged)
  /\ pc' = "final"
  /\ UNCHANGED <<batch, coolVars, released, reportClosed, envVars,
                 execQ, running, execAlive>>

\* Mutant: the drain waits for a report even from a dead task.
DrainClosedUnseen ==
  /\ pc = "drain" /\ reportQ # <<>> /\ ~execAlive
  /\ pc' = "final"
  /\ UNCHANGED <<batch, coolVars, risk, busy, inFlight, released, book, haltRow,
                 status, reportClosed, envVars, execVars>>

DrainClosed ==
  /\ pc = "drain" /\ reportQ = <<>> /\ ~execAlive
  /\ pc' = "final"
  /\ UNCHANGED <<batch, coolVars, risk, busy, inFlight, released, book, haltRow,
                 status, reportClosed, envVars, execVars>>

Finish ==
  /\ pc = "final"
  /\ LET r == IF inFlight = NoOpp THEN risk ELSE Release(risk, inFlight)
         b == IF inFlight = NoOpp THEN busy ELSE FALSE
     IN  /\ \E mark \in Marks : Snapshot(r, b, mark[1], mark[2])
         /\ busy' = b
  /\ inFlight' = NoOpp
  /\ pc' = "done"
  /\ UNCHANGED <<batch, coolVars, released, book, reportClosed, envVars, execVars>>

-----------------------------------------------------------------------------
(* run_execution: one request, one report. *)

ExecTake ==
  /\ execAlive /\ running = NoOpp /\ execQ # <<>>
  /\ running' = Head(execQ)
  /\ execQ' = Tail(execQ)
  /\ UNCHANGED <<execAlive, reportQ, coordVars, envVars>>

\* Mutant: a failed basket is queued again after its report.
ExecReportRetries ==
  /\ running # NoOpp
  /\ \E res \in ExecResult(running) :
       /\ reportQ' = Append(reportQ, [opp |-> running, res |-> res])
       /\ execQ' = IF res.outcome = "Err" THEN Append(execQ, running) ELSE execQ
  /\ running' = NoOpp
  /\ UNCHANGED <<execAlive, coordVars, envVars>>

ExecReport ==
  /\ running # NoOpp
  /\ \E res \in ExecResult(running) :
       reportQ' = Append(reportQ, [opp |-> running, res |-> res])
  /\ running' = NoOpp
  /\ UNCHANGED <<execQ, execAlive, coordVars, envVars>>

\* the task panics while executing: its channel halves are dropped
ExecPanic ==
  /\ ExecMayPanic /\ running # NoOpp
  /\ execAlive' = FALSE
  /\ running' = NoOpp /\ execQ' = <<>>
  /\ UNCHANGED <<reportQ, coordVars, envVars>>

-----------------------------------------------------------------------------
Ended == pc = "done" /\ UNCHANGED vars

ProcessOpp(o) ==
  \/ \E aged \in BOOLEAN : ExpireOrCool(o, aged)
  \/ GateOut(o) \/ RiskReject(o) \/ Suppress(o) \/ Dispatch(o)

Environment ==
  \/ CloseOpps \/ TripKill
  \/ \E s \in Shape : CooldownLapses(s)

CoordinatorStep ==
  \/ LoopTop \/ TakeOpps
  \/ \E o \in batch : ProcessOpp(o)
  \/ SendExec
  \/ \E aged \in 0..risk.errors : TakeReport(aged) \/ DrainReport(aged)
  \/ ReportClosed \/ PnlTick
  \/ \E cmd \in Command : HandleCtl(cmd)
  \/ OppsClosed \/ DrainClosed \/ Finish

ExecStep == ExecTake \/ ExecReport \/ ExecPanic

Next == Environment \/ CoordinatorStep \/ ExecStep \/ Ended

Spec == Init /\ [][Next]_vars

(***************************************************************************)
(* The runtime polls a ready task again and select! picks a ready arm at   *)
(* random each turn, so an arm that is ready turn after turn is taken: it  *)
(* is assumed of the tick and of the closed channel, all the properties    *)
(* need.                                                                   *)
(* execute_basket ends: every wait in it has a window or a store behind it.*)
(***************************************************************************)
Fairness ==
  /\ WF_vars(LoopTop) /\ WF_vars(\E o \in batch : ProcessOpp(o)) /\ WF_vars(SendExec)
  /\ SF_vars(OppsClosed) /\ SF_vars(PnlTick)
  /\ WF_vars(\E aged \in 0..risk.errors : DrainReport(aged))
  /\ WF_vars(DrainClosed) /\ WF_vars(Finish)
  /\ WF_vars(ExecTake) /\ WF_vars(ExecReport)

FairSpec == Spec /\ Fairness
-----------------------------------------------------------------------------
(* Properties. *)

ResultRecord ==
  [outcome: {"Err", "RejectedUnhedged", "NoFill", "FilledClean", "Repaired", "Unwound"},
   left: [market: [Market -> Nat], total: Nat], errors: Nat]

StatusRecord ==
  [paused: BOOLEAN, halted: HaltReason \cup {NoHalt}, killed: BOOLEAN,
   busy: BOOLEAN, released: BOOLEAN]

(* Every variable has the type its field has in the code. *)
TypeOK ==
  /\ oppOpen \in BOOLEAN /\ killFlag \in BOOLEAN
  /\ pc \in {"top", "select", "batch", "dispatch", "drain", "final", "done"}
  /\ batch \subseteq Opp
  /\ seen \in [Shape -> Nat \cup {NoNet}] /\ sent \in Nat \cup {NoNet}
  /\ risk \in RiskState
  /\ busy \in BOOLEAN /\ inFlight \in Opp \cup {NoOpp}
  /\ released \in BOOLEAN
  /\ book \in [held: [Market -> Int], total: Int, flat: BOOLEAN]
  /\ haltRow \in HaltReason \cup {NoHalt}
  /\ status \in StatusRecord
  /\ reportClosed \in BOOLEAN
  /\ execQ \in Seq(Opp) /\ running \in Opp \cup {NoOpp} /\ execAlive \in BOOLEAN
  /\ reportQ \in Seq([opp: Opp, res: ResultRecord])

(* The engine's exposure is exactly what the position book holds plus the  *)
(* worst case of the basket in flight, globally, per market and in legs:   *)
(* no path through dispatch, failure, report or shutdown leaks or doubles  *)
(* a reservation (reserve, release, commit over process_opp,               *)
(* handle_report and run's tail).                                          *)
Reserved(m) == IF inFlight = NoOpp THEN 0 ELSE inFlight.market[m]
ExposureAccounted ==
  /\ risk.global = book.total + (IF inFlight = NoOpp THEN 0 ELSE inFlight.cost)
  /\ \A m \in Market : risk.market[m] = book.held[m] + Reserved(m)
  /\ risk.openOrders = (IF inFlight = NoOpp THEN 0 ELSE inFlight.legs)

(* At most one basket is anywhere between the dispatch decision and its    *)
(* report, it is the one the reservation is held for, and `busy' is up     *)
(* exactly while a reservation is held.                                    *)
InPipeline ==
  Len(execQ) + Len(reportQ) + (IF running = NoOpp THEN 0 ELSE 1)
             + (IF pc = "dispatch" THEN 1 ELSE 0)
SingleInFlight ==
  /\ InPipeline <= 1
  /\ busy <=> inFlight # NoOpp
  /\ InPipeline = 1 => busy
  /\ busy /\ InPipeline = 0 => ~execAlive
  /\ \A i \in DOMAIN execQ : execQ[i] = inFlight
  /\ running # NoOpp => running = inFlight
  /\ \A i \in DOMAIN reportQ : reportQ[i].opp = inFlight

(* Exposure may pass the bankroll only by one basket's repair overrun,     *)
(* never by an accumulation over baskets: pre_check counts what earlier    *)
(* reports committed, and the same holds for each market's cap.            *)
ExposureBounded ==
  /\ risk.global <= Bankroll + Overrun
  /\ inFlight # NoOpp => risk.global <= Bankroll
  /\ \A m \in Market : risk.market[m] <= PerMarketCap + Overrun

(* No stop is overtaken: with the kill flag up, a halt set or a pause in   *)
(* force and nothing in flight, nothing gets in flight (the direct flag    *)
(* check in process_opp closes the race with check_kill).                  *)
StopHolds ==
  [][(killFlag \/ risk.halted # NoHalt \/ risk.paused) /\ ~busy => ~busy']_vars

(* A stop is never silent: when the coordinator is back at its loop, a     *)
(* halted engine has its halt row and a row is never for an engine that    *)
(* goes on trading; and whenever it waits, the dashboard shows its stops   *)
(* and its basket as they are (a restart-storm halt is set before there is *)
(* a status channel and shows with the first publish).                     *)
HaltLogged ==
  /\ pc \in {"top", "select", "done"} => (risk.halted # NoHalt <=> haltRow # NoHalt)
  /\ pc = "select" =>
       /\ status.paused = risk.paused /\ status.killed = risk.killed /\ status.busy = busy
       /\ status.halted = risk.halted \/ risk.halted = "RestartStorm"

(* Until a shape has been left alone for a whole window, each dispatch of  *)
(* it improves on its last dispatch by the configured percentage, whatever *)
(* was admitted and then held, gated, rejected, suppressed or cooled in    *)
(* between: what takes a cooldown slot without being sent (process_opp     *)
(* admits before it asks its gates) never lowers the bar for a repeat.     *)
RepeatsImprove ==
  [][~busy /\ busy' /\ inFlight'.fp = Watched /\ sent # NoNet
       => inFlight'.net > Bar(sent)]_vars

(* When run() returns, no basket is executing, no report is unread, and    *)
(* the engine holds no phantom exposure.                                   *)
CleanEnd ==
  pc = "done" =>
    /\ running = NoOpp /\ execQ = <<>> /\ reportQ = <<>> /\ ~busy
    /\ risk.global = book.total /\ risk.openOrders = 0

(* The session ends once the opportunity senders are gone.                 *)
SessionEnds == ~oppOpen ~> pc = "done"

(* A raised kill flag reaches the risk engine unless the session ends.     *)
KillTrips == killFlag ~> risk.killed \/ pc \in {"drain", "final", "done"}

(* "First halt wins: an existing halt reason is never rewritten (halts are *)
(* sticky, spec section 15)" -- risk/src/lib.rs, update_session_pnl.       *)
FirstHaltWins ==
  [][risk.halted # NoHalt => risk.halted' = risk.halted]_vars

(* The pipeline implements the reservation protocol of module Exposure:    *)
(* every basket is admitted under no stop, reserved, executed at most      *)
(* once, and settled exactly once with what its own execution left, or     *)
(* with nothing when the execution task died (process_opp, run_execution,  *)
(* handle_report and run's tail, across the channels between them).        *)
Stage ==
  IF inFlight = NoOpp THEN "idle"
  ELSE IF pc = "dispatch" \/ execQ # <<>> THEN "admitted"
  ELSE IF running # NoOpp THEN "executing"
  ELSE IF reportQ # <<>> THEN "reported"
  ELSE "lost"
LeftBehind == IF reportQ = <<>> THEN NoLeft ELSE Head(reportQ).res.left
ResultLeft == [o \in Opp |-> {res.left : res \in ExecResult(o)}]
Latched == killFlag \/ risk.killed \/ risk.halted # NoHalt

Promise == INSTANCE Exposure WITH
  Basket <- Opp, NoBasket <- NoOpp, Left <- ResultLeft, Nothing <- NoLeft,
  stage <- Stage, basket <- inFlight, left <- LeftBehind,
  exposure <- [total |-> risk.global, market |-> risk.market],
  stopped <- Latched \/ risk.paused, latched <- Latched

ImplementsExposure == Promise!Spec
=============================================================================
