------------------------------- MODULE Basket -------------------------------
(***************************************************************************)
(* One run of execute_basket (crates/execution/src/basket.rs): splits,     *)
(* write-ahead orders, one fill-or-kill window over all legs, one repair   *)
(* round, unwinding of the surplus, merge-back, report.  The order state   *)
(* machine and persist_transition are those of execution/src/lib.rs, the   *)
(* venue is PaperVenue or LiveVenue.                                       *)
(*                                                                         *)
(* Three tapes of the same basket are kept apart: `chain' is what the      *)
(* venue did, `durable' what the store has rows of, `hold' the ledger in   *)
(* memory that the report is read from.  Every await is a step; the        *)
(* process may die between any two, so an invariant over `chain' and the   *)
(* durable state is a statement about what a restart finds.                *)
(*                                                                         *)
(* Money is left out but for the unhedged guards; a quantity is a small    *)
(* number of units.                                                        *)
(***************************************************************************)
EXTENDS Integers, FiniteSetsExt

CONSTANTS
  Token, Market,
  Pair,          \* market_tokens: the <<yes, no>> tokens of a market
  Legs,          \* how many legs a basket has
  Opp,           \* the opportunities that may be dispatched
  LiveModes,     \* whether the venue may be LiveVenue, PaperVenue or either
  MaxUnhedged,   \* ExecParams.max_unhedged
  MergeDust,     \* MERGE_DUST_MICRO
  StoreMayFail   \* the writer may be gone, or a write fail

Leg == 1..Legs

OppRecord ==
  [token: [Leg -> Token], buy: [Leg -> BOOLEAN], qty: [Leg -> Nat \ {0}],
   px: [Leg -> Nat \ {0}],        \* cash of a leg per unit
   split: [Market -> Nat],
   keep: BOOLEAN]                 \* C1Long under RedeemStrategy::Hold

MarketOf(t) == CHOOSE m \in Market : t \in {Pair[m][1], Pair[m][2]}

\* engine invariant: a basket sells at most what it splits
Covered(o) ==
  \A t \in Token :
    MapThenSumSet(LAMBDA l : o.qty[l], {l \in Leg : ~o.buy[l] /\ o.token[l] = t})
      <= o.split[MarketOf(t)]

ASSUME BasketAssumption ==
  /\ Legs \in Nat \ {0}
  /\ Pair \in [Market -> Token \X Token]
  /\ \A m \in Market : Pair[m][1] # Pair[m][2]
  /\ \A t \in Token : \E m \in Market : t \in {Pair[m][1], Pair[m][2]}
  /\ \A m, k \in Market : m # k => {Pair[m][1], Pair[m][2]} \cap {Pair[k][1], Pair[k][2]} = {}
  /\ Opp \subseteq OppRecord /\ \A o \in Opp : Covered(o)
  /\ LiveModes \subseteq BOOLEAN /\ StoreMayFail \in BOOLEAN
  /\ MaxUnhedged \in Nat /\ MergeDust \in Nat \ {0}

VARIABLES
  live,       \* the venue is LiveVenue
  opp,        \* the basket
  pc, round, legs,   \* stage, the round of orders it is in, the legs with an order in it
  order,      \* per leg and round, see OrderRecord
  filled,     \* per leg, what main and repair rounds reported
  chain, durable, hold,
  conv,       \* the split or merge whose row is still to be written
  todo,       \* markets still to split
  errors,
  outcome

vars == <<live, opp, pc, round, legs, order, filled, chain, durable, hold, conv, todo,
          errors, outcome>>

Round == {"main", "repair", "unwind"}
Terminal == {"Filled", "Cancelled", "Rejected", "Expired"}
OrderState == {"Draft", "Signed", "Submitted", "Live", "PartFilled"} \cup Terminal

\* can_transition, with the OrderInsert that makes the Draft row
CanTransition(from, to) ==
  <<from, to>> \in
       {<<"None", "Draft">>, <<"Draft", "Signed">>, <<"Signed", "Submitted">>}
  \cup {"Submitted"} \X {"Live", "Rejected", "Expired"}
  \cup {"Live"} \X (Terminal \cup {"PartFilled"})
  \cup {"PartFilled"} \X {"Filled", "Cancelled", "Expired"}

(***************************************************************************)
(* mem is order.state, row the last state the store holds; size the        *)
(* quantity asked; sent whether the venue has seen it, done what it traded;*)
(* resp the answer the task received ("none" yet, "err", or a quantity in  *)
(* got); booked what has been recorded of it.                              *)
(***************************************************************************)
OrderRecord ==
  [mem: OrderState \cup {"None"}, row: OrderState \cup {"None"}, size: Nat,
   sent: BOOLEAN, done: Nat, resp: {"none", "err", "ok"}, got: Nat, booked: Nat]

NoOrder == [mem |-> "None", row |-> "None", size |-> 0, sent |-> FALSE, done |-> 0,
            resp |-> "none", got |-> 0, booked |-> 0]

NoConv == [market |-> "none", units |-> 0]

First(S) == CHOOSE l \in S : \A k \in S : l <= k
Least(a, b) == IF a <= b THEN a ELSE b

-----------------------------------------------------------------------------
(* Quantities. *)

\* the shares a trade of leg l in round r moves, signed
Signed(l, r, q) == IF r # "unwind" /\ opp.buy[l] THEN q ELSE -q

Moved(tape, l, r, q) == [tape EXCEPT ![opp.token[l]] = @ + Signed(l, r, q)]

\* Ledger: a sell never takes more than is held
Ledger(l, r, q) ==
  [hold EXCEPT ![opp.token[l]] =
     IF Signed(l, r, q) >= 0 THEN @ + q ELSE @ - Least(q, @)]

Converted(tape, m, units) ==
  [t \in Token |-> IF t \in {Pair[m][1], Pair[m][2]} THEN tape[t] + units ELSE tape[t]]

\* surpluses: filled beyond the fill fraction of the most constrained leg
Surplus(l) ==
  LET j == CHOOSE j \in Leg : \A k \in Leg :
             filled[j] * opp.qty[k] <= filled[k] * opp.qty[j]
      target == (opp.qty[l] * filled[j]) \div opp.qty[j]
  IN  IF filled[l] > target THEN filled[l] - target ELSE 0

SurplusCost == MapThenSumSet(LAMBDA l : opp.px[l] * Surplus(l), Leg)

Sets(m) == Least(hold[Pair[m][1]], hold[Pair[m][2]])

-----------------------------------------------------------------------------
\* process_opp's gate of a live session
PureBuy(o) == (\A l \in Leg : o.buy[l]) /\ (\A m \in Market : o.split[m] = 0)

Init ==
  /\ live \in LiveModes
  /\ opp \in {o \in Opp : live => PureBuy(o)}
  /\ pc = "start" /\ round = "main" /\ legs = Leg
  /\ order = [l \in Leg |-> [r \in Round |-> NoOrder]]
  /\ filled = [l \in Leg |-> 0]
  /\ chain = [t \in Token |-> 0]
  /\ durable = [t \in Token |-> 0]
  /\ hold = [t \in Token |-> 0]
  /\ conv = NoConv
  /\ todo = {m \in Market : opp.split[m] > 0}
  /\ errors = 0 /\ outcome = "none"

\* an error returns at once; the ledger is dropped, what was written stays
Abort == pc' = "done" /\ outcome' = "Err"

\* the pre-guard, before any store write or venue call
Start ==
  /\ pc = "start"
  /\ IF \E l \in Leg : opp.px[l] * opp.qty[l] > MaxUnhedged
     THEN pc' = "done" /\ outcome' = "RejectedUnhedged"
     ELSE pc' = "split" /\ UNCHANGED outcome
  /\ UNCHANGED <<live, opp, round, legs, order, filled, chain, durable, hold, conv, todo, errors>>

-----------------------------------------------------------------------------
(* Conversions: the venue acts first, then the row is written. *)

SplitVenue ==
  /\ pc = "split" /\ todo # {}
  /\ \E m \in todo :
       /\ todo' = todo \ {m}
       /\ chain' = Converted(chain, m, opp.split[m])
       /\ conv' = [market |-> m, units |-> opp.split[m]]
  /\ pc' = "row"
  /\ UNCHANGED <<live, opp, round, legs, order, filled, durable, hold, errors, outcome>>

SplitsDone ==
  /\ pc = "split" /\ todo = {}
  /\ order' = [l \in Leg |-> [order[l] EXCEPT !["main"].size = opp.qty[l]]]
  /\ pc' = "open"
  /\ UNCHANGED <<live, opp, round, legs, filled, chain, durable, hold, conv, todo, errors, outcome>>

\* settle: merge every complete set of at least the dust limit, unless the basket is kept
Mergeable == IF opp.keep THEN {} ELSE {m \in Market : Sets(m) >= MergeDust}

MergeVenue ==
  /\ pc = "settle" /\ Mergeable # {}
  /\ IF live
     THEN /\ Abort                          \* NotSupportedLive
          /\ UNCHANGED <<chain, conv>>
     ELSE /\ \E m \in Mergeable :
               /\ chain' = Converted(chain, m, -Sets(m))
               /\ conv' = [market |-> m, units |-> -Sets(m)]
          /\ pc' = "row" /\ UNCHANGED outcome
  /\ UNCHANGED <<live, opp, round, legs, order, filled, durable, hold, todo, errors>>

\* the Conversion row, acked, then the ledger
ConversionRow ==
  /\ pc = "row"
  /\ \/ /\ durable' = Converted(durable, conv.market, conv.units)
        /\ hold' = Converted(hold, conv.market, conv.units)
        /\ pc' = IF conv.units > 0 THEN "split" ELSE "settle"
        /\ UNCHANGED outcome
     \/ /\ StoreMayFail
        /\ durable' \in {durable, Converted(durable, conv.market, conv.units)}
        /\ Abort
        /\ UNCHANGED hold
  /\ conv' = NoConv
  /\ UNCHANGED <<live, opp, round, legs, order, filled, chain, todo, errors>>

Report ==
  /\ pc = "settle" /\ Mergeable = {}
  /\ pc' = "done"
  /\ UNCHANGED <<live, opp, round, legs, order, filled, chain, durable, hold, conv, todo,
                 errors, outcome>>

-----------------------------------------------------------------------------
(* persist_transition: the row is acked before order.state moves; a lost   *)
(* ack leaves the row written or not.                                      *)

Persist(l, to) ==
  LET o == order[l][round]
  IN  IF ~CanTransition(o.mem, to)
      THEN Abort /\ order' = order                  \* BadTransition
      ELSE \/ /\ order' = [order EXCEPT ![l][round].mem = to, ![l][round].row = to]
              /\ UNCHANGED <<pc, outcome>>
           \/ /\ StoreMayFail
              /\ order' \in {order, [order EXCEPT ![l][round].row = to]}
              /\ Abort

\* open_order over the round's orders: insert, sign, submit, each acked
\* mutant: the venue is called once the order is signed
UnopenedSigned == {l \in legs : order[l][round].mem \notin {"Signed", "Submitted"}}

Unopened == {l \in legs : order[l][round].mem # "Submitted"}
Following(state) ==
  CASE state = "None" -> "Draft" [] state = "Draft" -> "Signed" [] OTHER -> "Submitted"

OpenOrder ==
  /\ pc = "open" /\ Unopened # {}
  /\ LET l == First(Unopened) IN Persist(l, Following(order[l][round].mem))
  /\ UNCHANGED <<live, opp, round, legs, filled, chain, durable, hold, conv, todo, errors>>

Opened ==
  /\ pc = "open" /\ Unopened = {}
  /\ pc' = "submit"
  /\ UNCHANGED <<live, opp, round, legs, order, filled, chain, durable, hold, conv, todo,
                 errors, outcome>>

-----------------------------------------------------------------------------
(* The venue. *)

Answers(l) == {[resp |-> "err", got |-> 0]}
         \cup [resp: {"ok"}, got: 0..order[l][round].size]
Unanswered == {l \in legs : order[l][round].resp = "none"}

\* PaperVenue: one sleep, then every leg against its book of that moment
PaperAnswer ==
  /\ ~live /\ pc = "submit" /\ Unanswered # {}
  /\ \E ans \in [legs -> UNION {Answers(l) : l \in legs}] :
       /\ \A l \in legs : ans[l] \in Answers(l)
       /\ order' = [l \in Leg |->
            IF l \notin legs THEN order[l]
            ELSE [order[l] EXCEPT ![round] =
                    [@ EXCEPT !.sent = TRUE, !.done = ans[l].got,
                              !.resp = ans[l].resp, !.got = ans[l].got]]]
       /\ LET traded == [l \in legs |-> Signed(l, round, ans[l].got)]
          IN  chain' = [t \in Token |-> chain[t] +
                MapThenSumSet(LAMBDA l : traded[l], {l \in legs : opp.token[l] = t})]
  /\ pc' = "close"
  /\ UNCHANGED <<live, opp, round, legs, filled, durable, hold, conv, todo, errors, outcome>>

\* LiveVenue, submit_all in order: the POST, which the venue may match at once
LiveSend ==
  /\ live /\ pc = "submit" /\ Unanswered # {}
  /\ LET l == First(Unanswered)
     IN  /\ ~order[l][round].sent
         /\ \E q \in 0..order[l][round].size :
              /\ order' = [order EXCEPT ![l][round].sent = TRUE, ![l][round].done = q]
              /\ chain' = Moved(chain, l, round, q)
  /\ UNCHANGED <<live, opp, pc, round, legs, filled, durable, hold, conv, todo, errors, outcome>>

\* poll_fills sees all or a part of what traded; a transport error sees nothing
LiveAnswer ==
  /\ live /\ pc = "submit" /\ Unanswered # {}
  /\ LET l == First(Unanswered)
         o == order[l][round]
     IN  /\ o.sent
         /\ \E ans \in Answers(l) :
              /\ ans.got <= o.done
              /\ order' = [order EXCEPT ![l][round].resp = ans.resp,
                                        ![l][round].got = ans.got]
         /\ pc' = IF Unanswered = {l} THEN "close" ELSE "submit"
  /\ UNCHANGED <<live, opp, round, legs, filled, chain, durable, hold, conv, todo, errors, outcome>>

\* tokio::time::timeout drops submit_all; an unwind is submitted outside a window
WindowExpires ==
  /\ pc = "submit" /\ round # "unwind"
  /\ pc' = "expire"
  /\ UNCHANGED <<live, opp, round, legs, order, filled, chain, durable, hold, conv, todo,
                 errors, outcome>>

-----------------------------------------------------------------------------
(* close_order, for each order of the round. *)

Unclosed == {l \in legs : order[l][round].mem \notin Terminal}

Closing(o) ==
  CASE o.mem = "Submitted" -> IF o.resp = "err" THEN "Rejected" ELSE "Live"
    [] o.mem = "Live" -> IF o.got = o.size THEN "Filled"
                         ELSE IF o.got > 0 THEN "PartFilled" ELSE "Cancelled"
    [] OTHER -> "Cancelled"

\* mutant: the result of the store write is ignored
BookFillUnacked ==
  /\ pc = "close" /\ Unclosed # {}
  /\ LET l == First(Unclosed)
         o == order[l][round]
     IN  /\ o.mem = "Live" /\ o.booked < o.got
         /\ \E q \in 1..(o.got - o.booked) :
              /\ durable' \in {durable, Moved(durable, l, round, q)}
              /\ hold' = Ledger(l, round, q)
              /\ order' = [order EXCEPT ![l][round].booked = @ + q]
  /\ UNCHANGED <<live, opp, pc, round, legs, filled, chain, conv, todo, errors, outcome>>

\* record_fills: a row per level, acked, then the ledger
BookFill ==
  /\ pc = "close" /\ Unclosed # {}
  /\ LET l == First(Unclosed)
         o == order[l][round]
     IN  /\ o.mem = "Live" /\ o.booked < o.got
         /\ \E q \in 1..(o.got - o.booked) :
              \/ /\ durable' = Moved(durable, l, round, q)
                 /\ hold' = Ledger(l, round, q)
                 /\ order' = [order EXCEPT ![l][round].booked = @ + q]
                 /\ UNCHANGED <<pc, outcome>>
              \/ /\ StoreMayFail
                 /\ durable' \in {durable, Moved(durable, l, round, q)}
                 /\ Abort
                 /\ UNCHANGED <<hold, order>>
  /\ UNCHANGED <<live, opp, round, legs, filled, chain, conv, todo, errors>>

CloseOrder ==
  /\ pc = "close" /\ Unclosed # {}
  /\ LET l == First(Unclosed)
         o == order[l][round]
     IN  /\ o.mem = "Live" => o.booked = o.got
         /\ Persist(l, Closing(o))
         /\ errors' = errors + (IF Closing(o) = "Rejected" THEN 1 ELSE 0)
         /\ filled' = IF order'[l][round].mem \in Terminal /\ round # "unwind"
                      THEN [filled EXCEPT ![l] = @ + o.got] ELSE filled
  /\ UNCHANGED <<live, opp, round, legs, chain, durable, hold, conv, todo>>

ExpireOrder ==
  /\ pc = "expire" /\ Unclosed # {}
  /\ Persist(First(Unclosed), "Expired")
  /\ UNCHANGED <<live, opp, round, legs, filled, chain, durable, hold, conv, todo, errors>>

-----------------------------------------------------------------------------
(* What follows a round. *)

Complete == \A l \in Leg : filled[l] = opp.qty[l]
NoSplit == \A m \in Market : opp.split[m] = 0

\* mutant: a window without an order error is a clean basket
RoundEndsUnassessed ==
  /\ pc \in {"close", "expire"} /\ Unclosed = {}
  /\ IF round = "main" /\ errors = 0
     THEN pc' = "settle" /\ outcome' = "FilledClean"
     ELSE /\ pc' = (IF round = "main" THEN "repair" ELSE "unwind")
          /\ UNCHANGED outcome
  /\ UNCHANGED <<live, opp, round, legs, order, filled, chain, durable, hold, conv, todo, errors>>

\* mutant: nothing follows an expired window
RoundEndsUnexpired ==
  /\ pc = "close" /\ Unclosed = {}
  /\ CASE round # "main" -> pc' = "unwind" /\ UNCHANGED outcome
       [] round = "main" /\ Complete -> pc' = "settle" /\ outcome' = "FilledClean"
       [] OTHER -> pc' = "repair" /\ UNCHANGED outcome
  /\ UNCHANGED <<live, opp, round, legs, order, filled, chain, durable, hold, conv, todo, errors>>

RoundEnds ==
  /\ pc \in {"close", "expire"} /\ Unclosed = {}
  /\ CASE round # "main" -> pc' = "unwind" /\ UNCHANGED outcome
       [] round = "main" /\ Complete -> pc' = "settle" /\ outcome' = "FilledClean"
       [] round = "main" /\ (\A l \in Leg : filled[l] = 0) /\ NoSplit ->
            pc' = "settle" /\ outcome' = "NoFill"
       [] OTHER -> pc' = "repair" /\ UNCHANGED outcome
  /\ UNCHANGED <<live, opp, round, legs, order, filled, chain, durable, hold, conv, todo, errors>>

NewRound(r, L, sizes) ==
  /\ round' = r /\ legs' = L
  /\ order' = [l \in Leg |-> IF l \in L THEN [order[l] EXCEPT ![r].size = sizes[l]]
                                        ELSE order[l]]
  /\ pc' = "open"

\* mutant: a repair asks for the whole leg again
StartRepairInFull ==
  /\ pc = "repair"
  /\ \E L \in SUBSET {l \in Leg : filled[l] < opp.qty[l]} \ {{}} :
       NewRound("repair", L, opp.qty)
  /\ UNCHANGED <<live, opp, filled, chain, durable, hold, conv, todo, errors, outcome>>

\* one repair round for the legs whose share of the slack is worth a tick,
\* unless the surplus is above the unhedged cap
StartRepair ==
  /\ pc = "repair"
  /\ \/ /\ SurplusCost <= MaxUnhedged
        /\ \E L \in SUBSET {l \in Leg : filled[l] < opp.qty[l]} \ {{}} :
             NewRound("repair", L, [l \in Leg |-> opp.qty[l] - filled[l]])
     \/ /\ pc' = "unwind"            \* no leg worth a tick, or above the cap
        /\ UNCHANGED <<round, legs, order>>
  /\ UNCHANGED <<live, opp, filled, chain, durable, hold, conv, todo, errors, outcome>>

\* sell back the surplus of the bought legs, one order after the other
ToUnwind == {l \in Leg : opp.buy[l] /\ Surplus(l) > 0 /\ order[l]["unwind"].mem = "None"}

StartUnwind ==
  /\ pc = "unwind"
  /\ IF ToUnwind # {}
     THEN /\ NewRound("unwind", {First(ToUnwind)}, [l \in Leg |-> Surplus(l)])
          /\ UNCHANGED outcome
     ELSE /\ outcome' = IF Complete THEN "Repaired" ELSE "Unwound"
          /\ pc' = "settle"
          /\ UNCHANGED <<round, legs, order>>
  /\ UNCHANGED <<live, opp, filled, chain, durable, hold, conv, todo, errors>>

Ended == pc = "done" /\ UNCHANGED vars

Step ==
  \/ Start \/ SplitVenue \/ SplitsDone \/ ConversionRow \/ OpenOrder \/ Opened
  \/ PaperAnswer \/ LiveSend \/ LiveAnswer \/ WindowExpires
  \/ BookFill \/ CloseOrder \/ ExpireOrder \/ RoundEnds
  \/ StartRepair \/ StartUnwind \/ MergeVenue \/ Report

Next == Step \/ Ended

Spec == Init /\ [][Next]_vars

(* The store acks or drops, a paper venue sleeps a bounded time, and every *)
(* live request has a 10 s timeout: each await of the task is over some    *)
(* time.                                                                   *)
FairSpec == Spec /\ WF_vars(Step)
-----------------------------------------------------------------------------
(* Properties. *)

(* Every variable has the type its field has in the code; no quantity      *)
(* reported for a leg passes what was intended.                            *)
TypeOK ==
  /\ live \in BOOLEAN /\ opp \in Opp
  /\ pc \in {"start", "split", "row", "open", "submit", "close", "expire", "repair",
             "unwind", "settle", "done"}
  /\ round \in Round /\ legs \subseteq Leg
  /\ order \in [Leg -> [Round -> OrderRecord]]
  /\ filled \in [Leg -> Nat]
  /\ chain \in [Token -> Int] /\ durable \in [Token -> Int] /\ hold \in [Token -> Nat]
  /\ todo \subseteq Market
  /\ errors \in Nat
  /\ outcome \in {"none", "Err", "RejectedUnhedged", "NoFill", "FilledClean",
                  "Repaired", "Unwound"}

(* Write-ahead: whenever the process dies, every order the venue has seen  *)
(* has a durable row that says at least Submitted, and memory never says   *)
(* more than the store does.                                               *)
WriteAhead ==
  \A l \in Leg, r \in Round :
    LET o == order[l][r]
    IN  /\ o.sent => o.row \notin {"None", "Draft", "Signed"}
        /\ o.mem = o.row \/ CanTransition(o.mem, o.row)

(* A report that is not an error tells the truth: ledger, store and venue  *)
(* agree on every token, and no order is left open in the store.  For the  *)
(* paper venue; a live one can trade behind an expired window.             *)
ReportIsTruth ==
  ~live /\ pc = "done" /\ outcome # "Err" =>
    /\ hold = durable /\ durable = chain
    /\ \A l \in Leg, r \in Round : order[l][r].row \in Terminal \cup {"None"}

(* No sale is naked: the venue never sells a token the basket does not     *)
(* hold, and the ledger's clamp in Ledger::sell never bites.               *)
NeverNaked ==
  /\ \A t \in Token : chain[t] >= 0
  /\ pc = "close" /\ Unclosed # {} =>
       LET l == First(Unclosed)
           o == order[l][round]
       IN  Signed(l, round, 1) < 0 => o.got - o.booked <= hold[opp.token[l]]

(* repair_and_unwind's assertion "repair overshot intended", and that the  *)
(* unwinding never sells a leg below the fraction the others reached.      *)
NeverOvershoots ==
  \A l \in Leg :
    /\ filled[l] <= opp.qty[l]
    /\ order[l]["unwind"].got <= Surplus(l)

(* When some legs fill and others do not, the rounds that follow neither   *)
(* buy more than was meant nor sell what is not there.                     *)
WithinMeans == NeverNaked /\ NeverOvershoots

(* What the coordinator's model assumes of a report: a clean basket had no *)
(* order error and holds every leg in full, a NoFill holds nothing, and    *)
(* leftovers are of the markets the check counted.                         *)
ReportAsAssumed ==
  pc = "done" =>
    /\ outcome = "FilledClean" => errors = 0
    /\ outcome \in {"FilledClean", "Repaired"} => Complete
    /\ outcome \in {"NoFill", "RejectedUnhedged"} => \A t \in Token : hold[t] = 0
    /\ outcome # "Err" => \A t \in Token : hold[t] > 0 =>
         \/ opp.split[MarketOf(t)] > 0
         \/ \E l \in Leg : opp.buy[l] /\ opp.token[l] = t

(* submit_window's comment: the window expires before the venue produced   *)
(* any response (basket.rs:284).                                           *)
ExpiresUnanswered ==
  pc = "expire" => \A l \in legs : order[l][round].resp = "none"

(* live_exec_params' comment: the live arm never converts on chain, so that *)
(* a basket is not failed after its orders filled (main.rs:2733).  With a  *)
(* store that acks, only a conversion can fail a basket.                   *)
NeverFailsAfterFills ==
  outcome = "Err" => \A l \in Leg : filled[l] = 0

(* execute_basket returns.                                                 *)
Returns == <>(pc = "done")
=============================================================================
