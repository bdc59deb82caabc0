------------------------------- MODULE Relay -------------------------------
(***************************************************************************)
(* On-chain merges and redeems of a live, hedged market maker              *)
(* (crates/app/src/strategy/mm.rs, crates/execution/src/relayer.rs): the   *)
(* quote loop starts a task for each and goes on; the task signs a batch   *)
(* with the relayer's nonce, submits it and polls until it is confirmed;   *)
(* what came of it is read from a channel at the top of a later tick.      *)
(*                                                                         *)
(*   loop --spawn--> task --batch--> relayer --> chain (wallet)            *)
(*        <--channel--     <--poll--              |                        *)
(*        <--fills, positions (Data API, late)----/                        *)
(*                                                                         *)
(* A batch outlives the task that gives up on it.  Hedged live quoting     *)
(* only buys, so the loop's inventory shrinks by merges and redeems alone. *)
(* One market, one process; the relayer, the chain and the Data API are    *)
(* assumed.                                                                *)
(***************************************************************************)
EXTENDS Integers, FiniteSets, TLC

CONSTANTS
  Yes, No,             \* the tokens of the market
  MaxFills,            \* shares the bids can buy
  MaxFaults            \* failed calls, lost polls and reverted batches, in all

Token == {Yes, No}

Kind == {"merge", "redeem"}
NoOne == "none"        \* the market is not resolved

ASSUME RelayAssumption ==
  Yes # No /\ NoOne \notin Token /\ MaxFills \in Nat /\ MaxFaults \in Nat

VARIABLES
  wallet,              \* shares on the chain
  winner,              \* the token that resolved to $1
  batches,             \* at the relayer, each [kind, amount, polled, state]
  indexed,             \* what the Data API lists: [held, winner]
  inv,                 \* InventoryRisk's nets
  unseen,              \* fills the loop has not polled
  at,                  \* where the tick is
  task,                \* the running sweep of each kind
  outcome,             \* the channels: at most one message of each kind
  owed,                \* ghost: collateral the chain paid, less what the loop booked
  faults, bought

vars == <<wallet, winner, batches, indexed, inv, unseen, at, task, outcome, owed, faults, bought>>

MinOf(a, b) == IF a < b THEN a ELSE b
Matched == MinOf(inv[Yes], inv[No])

Idle == [pc |-> "idle"]
Silent == [tag |-> "silent"]                  \* no message
Failed == [tag |-> "failed"]

Fault == faults < MaxFaults /\ faults' = faults + 1
Listed == [held |-> {t \in Token : wallet[t] > 0}, winner |-> winner]

Init ==
  /\ wallet = [t \in Token |-> 0] /\ winner = NoOne /\ batches = {} /\ indexed = Listed
  /\ inv = [t \in Token |-> 0] /\ unseen = [t \in Token |-> 0]
  /\ at = "settle" /\ task = [k \in Kind |-> Idle]
  /\ outcome = [k \in Kind |-> Silent] /\ owed = 0 /\ faults = 0 /\ bought = 0

-----------------------------------------------------------------------------
(* The venue, the chain and the Data API. *)

BidFills(t) ==
  /\ winner = NoOne /\ bought < MaxFills
  /\ bought' = bought + 1
  /\ wallet' = [wallet EXCEPT ![t] = @ + 1]
  /\ unseen' = [unseen EXCEPT ![t] = @ + 1]
  /\ UNCHANGED <<winner, batches, indexed, inv, at, task, outcome, owed, faults>>

Resolve(t) ==
  /\ winner = NoOne /\ winner' = t
  /\ UNCHANGED <<wallet, batches, indexed, inv, unseen, at, task, outcome, owed, faults, bought>>

Index ==
  /\ indexed # Listed /\ indexed' = Listed
  /\ UNCHANGED <<wallet, winner, batches, inv, unseen, at, task, outcome, owed, faults, bought>>

\* the batch ends; the relayer's answer matters only to a task that polls it
Ends(b, others, state) ==
  batches' = others \cup (IF b.polled THEN {[b EXCEPT !.state = state]} ELSE {})

\* a merge needs both sides, a redeem takes whatever is there of a resolved market
Executable(b) ==
  IF b.kind = "merge" THEN \A t \in Token : wallet[t] >= b.amount ELSE winner # NoOne

\* the nonce is used: every other batch in flight has it too, and so do the
\* tasks that fetched it and have yet to submit
Lands(b) ==
  /\ b.state = "pending" /\ Executable(b)
  /\ Ends(b, {IF c.state = "pending" THEN [c EXCEPT !.state = "failed"] ELSE c : c \in {c \in batches \ {b} : c.polled}},
          "confirmed")
  /\ task' = [k \in Kind |-> IF task[k].pc = "submit" THEN [task[k] EXCEPT !.nonce = "used"] ELSE task[k]]
  /\ IF b.kind = "merge"
     THEN /\ wallet' = [t \in Token |-> wallet[t] - b.amount]
          /\ owed' = owed + b.amount
     ELSE /\ wallet' = [t \in Token |-> 0]
          /\ owed' = owed + wallet[winner]
  /\ UNCHANGED <<winner, indexed, inv, unseen, at, outcome, faults, bought>>

\* the call would revert; or the deadline passes
Fails(b) ==
  /\ b.state = "pending"
  /\ IF Executable(b) THEN Fault ELSE UNCHANGED faults
  /\ Ends(b, batches \ {b}, "failed")
  /\ UNCHANGED <<wallet, winner, indexed, inv, unseen, at, task, outcome, owed, bought>>

-----------------------------------------------------------------------------
(* RelayerClient::merge and redeem, in a task of their own. *)

Doing(k, pc) == task[k].pc = pc
Step(k, next) == task' = [task EXCEPT ![k] = next]

\* the task ends: what came of it goes into its channel
Report(k, ok) ==
  /\ Step(k, Idle)
  /\ outcome' = [outcome EXCEPT ![k] = IF ok THEN [tag |-> "ok", what |-> task[k].what] ELSE Failed]

\* the winner's price is in the list only if its position is
Priced == IF indexed.winner \in indexed.held THEN indexed.winner ELSE NoOne

\* mutant: nothing to redeem ends the task without a message: the latch stays
FetchPositionsMute ==
  /\ Doing("redeem", "fetch")
  /\ IF indexed.winner # NoOne /\ indexed.held # {} /\ task["redeem"].held # {}
     THEN Step("redeem", [pc |-> "nonce", what |-> [legs |-> task["redeem"].held, priced |-> Priced]])
     ELSE Step("redeem", [pc |-> "gone"])
  /\ UNCHANGED <<wallet, winner, batches, indexed, inv, unseen, at, outcome, owed, faults, bought>>

\* positions(): a resolved market of which something is listed and held
FetchPositions ==
  /\ Doing("redeem", "fetch")
  /\ IF indexed.winner # NoOne /\ indexed.held # {} /\ task["redeem"].held # {}
     THEN /\ Step("redeem", [pc |-> "nonce", what |-> [legs |-> task["redeem"].held, priced |-> Priced]])
          /\ UNCHANGED outcome
     ELSE Report("redeem", FALSE)
  /\ UNCHANGED <<wallet, winner, batches, indexed, inv, unseen, at, owed, faults, bought>>

FetchNonce(k) ==
  /\ Doing(k, "nonce")
  /\ Step(k, [pc |-> "submit", what |-> task[k].what, nonce |-> "next"])
  /\ UNCHANGED <<wallet, winner, batches, indexed, inv, unseen, at, outcome, owed, faults, bought>>

\* what the relayer holds of the task once it has its batch
Taken(k, polled) ==
  batches \cup
  {b \in {[kind |-> k, amount |-> IF k = "merge" THEN task[k].what ELSE 0, polled |-> polled,
          state |-> IF task[k].nonce = "next" THEN "pending" ELSE "failed"]} : polled \/ b.state = "pending"}

Submit(k) ==
  /\ Doing(k, "submit")
  /\ batches' = Taken(k, TRUE)
  /\ Step(k, [pc |-> "poll", what |-> task[k].what])
  /\ UNCHANGED <<wallet, winner, indexed, inv, unseen, at, outcome, owed, faults, bought>>

Polled(k) == CHOOSE b \in batches : b.kind = k /\ b.polled

\* mutant: any terminal state counts as done
PollEndsAnyhow(k) ==
  /\ Doing(k, "poll") /\ Polled(k).state # "pending"
  /\ Report(k, TRUE)
  /\ batches' = batches \ {Polled(k)}
  /\ UNCHANGED <<wallet, winner, indexed, inv, unseen, at, owed, faults, bought>>

\* STATE_CONFIRMED, or a terminal failure
PollEnds(k) ==
  /\ Doing(k, "poll") /\ Polled(k).state # "pending"
  /\ Report(k, Polled(k).state = "confirmed")
  /\ batches' = batches \ {Polled(k)}
  /\ UNCHANGED <<wallet, winner, indexed, inv, unseen, at, owed, faults, bought>>

\* nobody polls it any more: a batch still in flight is on its own
Abandoned(k) ==
  (batches \ {Polled(k)}) \cup
  {[b EXCEPT !.polled = FALSE] : b \in {b \in {Polled(k)} : b.state = "pending"}}

\* a call of the task fails, or submit_timeout passes; a submit may have been taken
CallFails(k) ==
  /\ ~Doing(k, "idle") /\ Fault
  /\ Report(k, FALSE)
  /\ IF Doing(k, "poll") THEN batches' = Abandoned(k)
     ELSE batches' \in {batches} \cup (IF Doing(k, "submit") THEN {Taken(k, FALSE)} ELSE {})
  /\ UNCHANGED <<wallet, winner, indexed, inv, unseen, at, owed, bought>>

-----------------------------------------------------------------------------
(* MmLoop::tick. *)

\* mutant: no clamp at the current nets
MergeDrainedWhole == IF outcome["merge"].tag = "ok" THEN outcome["merge"].what ELSE 0

\* drain_merge_outcomes, then drain_redeem_outcomes
MergeDrained == IF outcome["merge"].tag = "ok" THEN MinOf(outcome["merge"].what, Matched) ELSE 0
AfterMerge == [t \in Token |-> inv[t] - MergeDrained]
Redeemed == IF outcome["redeem"].tag = "ok" THEN outcome["redeem"].what.legs ELSE {}
RedeemCash ==
  LET paying == {t \in Redeemed : t = outcome["redeem"].what.priced}
  IN  IF paying = {} THEN 0 ELSE AfterMerge[CHOOSE t \in paying : TRUE]

Drained ==
  /\ at = "settle" /\ at' = "quote"
  /\ outcome' = [k \in Kind |-> Silent]
  /\ inv' = [t \in Token |-> IF t \in Redeemed THEN 0 ELSE AfterMerge[t]]
  /\ owed' = owed - (MergeDrained + RedeemCash)
  /\ UNCHANGED <<wallet, winner, batches, indexed, unseen, faults, bought>>

\* the drains alone: a redeem is in flight, or its interval has yet to pass
Settle == Drained /\ UNCHANGED task

\* ... and sweep_onchain_redeems with a snapshot of what is held
SettleAndSweep ==
  /\ Drained /\ Doing("redeem", "idle")
  /\ Step("redeem", [pc |-> "fetch", held |-> {t \in Token : inv'[t] > 0}])

\* nothing to merge or not yet; paused, halted or latched
Quote ==
  /\ at = "quote" /\ at' = "fills"
  /\ UNCHANGED <<wallet, winner, batches, indexed, inv, unseen, task, outcome, owed, faults, bought>>

\* maybe_merge_sets; merge_inflight holds until the outcome is drained
QuoteAndMerge ==
  /\ at = "quote" /\ at' = "fills"
  /\ Matched > 0 /\ Doing("merge", "idle") /\ outcome["merge"] = Silent
  /\ Step("merge", [pc |-> "nonce", what |-> Matched])
  /\ UNCHANGED <<wallet, winner, batches, indexed, inv, unseen, outcome, owed, faults, bought>>

ConsumeFills ==
  /\ at = "fills" /\ at' = "settle"
  /\ inv' = [t \in Token |-> inv[t] + unseen[t]]
  /\ unseen' = [t \in Token |-> 0]
  /\ UNCHANGED <<wallet, winner, batches, indexed, task, outcome, owed, faults, bought>>

\* the poll fails, and the tick goes on
PollFails ==
  /\ at = "fills" /\ at' = "settle" /\ Fault
  /\ UNCHANGED <<wallet, winner, batches, indexed, inv, unseen, task, outcome, owed, bought>>

-----------------------------------------------------------------------------
Answered(k) == \E b \in batches : b.kind = k /\ (Lands(b) \/ Fails(b))
Task(k) == FetchNonce(k) \/ Submit(k) \/ PollEnds(k)

Next ==
  \/ \E t \in Token : BidFills(t) \/ Resolve(t)
  \/ Index \/ FetchPositions
  \/ \E k \in Kind : Answered(k) \/ FetchNonce(k) \/ Submit(k) \/ PollEnds(k) \/ CallFails(k)
  \/ Settle \/ SettleAndSweep \/ Quote \/ QuoteAndMerge \/ ConsumeFills \/ PollFails

Spec == Init /\ [][Next]_vars

(***************************************************************************)
(* The loop ticks, its poll succeeds again and again and the redeem        *)
(* interval passes in ticks without a sweep in flight; tasks run, the Data *)
(* API catches up, the relayer deals with every batch.  Nothing makes the  *)
(* loop quote or merge.                                                    *)
(***************************************************************************)
Fairness ==
  /\ WF_vars(Settle \/ SettleAndSweep) /\ SF_vars(SettleAndSweep)
  /\ WF_vars(Quote) /\ SF_vars(ConsumeFills)
  /\ WF_vars(Index) /\ WF_vars(FetchPositions)
  /\ \A k \in Kind : WF_vars(Answered(k)) /\ WF_vars(Task(k))

FairSpec == Spec /\ Fairness

-----------------------------------------------------------------------------
(* Properties. *)

\* The shape of the state.
TypeOK ==
  /\ wallet \in [Token -> 0 .. MaxFills] /\ winner \in Token \cup {NoOne} /\ owed \in Int
  /\ batches \subseteq [kind : Kind, amount : 0 .. MaxFills, polled : BOOLEAN,
                        state : {"pending", "confirmed", "failed"}]
  /\ indexed \in [held : SUBSET Token, winner : Token \cup {NoOne}]
  /\ inv \in [Token -> 0 .. MaxFills] /\ unseen \in [Token -> 0 .. MaxFills]
  /\ at \in {"settle", "quote", "fills"}
  /\ \A k \in Kind : task[k].pc \in {"idle", "fetch", "nonce", "submit", "poll"}

(* The loop never believes it holds less than it does: what the wallet has *)
(* is in the inventory or in a fill still to be polled, however merges,    *)
(* redeems, their timeouts and late fills cross.  apply_merge_result's     *)
(* clamp, drain_redeem_outcomes at the current net, merge_inflight.        *)
NothingForgotten == \A t \in Token : wallet[t] <= inv[t] + unseen[t]

(* The loop never books collateral the chain did not pay, in all: a batch  *)
(* confirmed once is credited at most once, although a redeem flattens     *)
(* whatever the inventory then says and a merge of the same shares may be  *)
(* drained after it.  drain_merge_outcomes, apply_redeem.                  *)
NeverOvercredited == owed >= 0

(* A resolved winner in the wallet is collected (tick: claiming must not   *)
(* wait on quoting), also when the loop never quotes again.                *)
WinnerCollected == \A t \in Token : winner = t /\ wallet[t] > 0 ~> wallet[t] = 0
=============================================================================
