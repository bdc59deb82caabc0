---------------------------- MODULE MarketMaker ----------------------------
(***************************************************************************)
(* run_mm_loop (crates/app/src/strategy/mm.rs): one task that on every     *)
(* tick re-quotes, books fills and marks its inventory, and between ticks  *)
(* serves the operator's commands and watches the kill flag.  Each venue   *)
(* call is a step, so the venue trades, the operator types and the kill    *)
(* flag rises between any two of them.                                     *)
(*                                                                         *)
(* A token is worth one unit of cash throughout, so a cap on notional is a *)
(* cap on shares.  The book decides which quotes are computed; here any    *)
(* are.  Merges and redeems are left out.                                  *)
(***************************************************************************)
EXTENDS QuoteManager, FiniteSetsExt

CONSTANTS
  LiveModes,    \* whether the venue may be LiveVenue, PaperMakerVenue or either
  RewardFarm,   \* the policy; else SpreadCapture
  PxBand, SizeBand,   \* requote_band_ticks, size_rebalance_pct
  Cap, GrossCap,      \* InventoryConfig
  MinSell,      \* MM_MIN_ORDER_SHARES_MICRO
  Vetoable,     \* the keys the operator may veto
  MaxFaults     \* failed cancels and polls, lost answers and fill frames, in all

ASSUME MakerAssumption ==
  /\ LiveModes \subseteq BOOLEAN /\ RewardFarm \in BOOLEAN
  /\ PxBand \in Nat /\ SizeBand \in Nat /\ Cap \in Nat /\ GrossCap \in Nat
  /\ Vetoable \subseteq Key /\ MinSell \in Nat \ {0} /\ MaxFaults \in Nat
  /\ MaxOrders >= Cardinality(Key) * (2 + MaxFaults)

VARIABLES
  live,
  net,        \* InventoryRisk.net
  matched,    \* what the venue traded for us, signed
  paused, halted, dayHalted, vetoed, killed,
  pc, desired,
  todo,       \* keys the current loop over the venue has still to visit
  afterwards, \* where cancel_all returns to
  missedCancel,  \* keys whose last cancel failed
  faults

maker == <<net, matched, faults>>
flags == <<paused, halted, dayHalted, vetoed>>
vars == <<live, order, tracked, maker, flags, killed, pc, desired, todo,
          afterwards, missedCancel>>

Abs(n) == IF n < 0 THEN -n ELSE n

TypeOK ==
  /\ VenueTypeOK
  /\ live \in LiveModes
  /\ net \in [Token -> Int] /\ matched \in [Token -> Int]
  /\ \A b \in {paused, halted, dayHalted, killed} : b \in BOOLEAN
  /\ vetoed \subseteq Key /\ todo \subseteq Key /\ missedCancel \subseteq Key
  /\ pc \in {"top", "select", "stale", "place", "replace", "poll", "mark", "flatten", "done"}
  /\ desired \in [Key -> Quotes \cup {NoQuote}]
  /\ afterwards \in {"top", "done"}
  /\ faults \in 0..MaxFaults

\* a session begins flat; a live one may be held, and a spent daily loss is remembered
Init ==
  /\ VenueInit
  /\ live \in LiveModes
  /\ net = [t \in Token |-> 0] /\ matched = [t \in Token |-> 0]
  /\ paused \in {FALSE, live} /\ halted = FALSE /\ dayHalted \in BOOLEAN
  /\ vetoed = {} /\ killed = FALSE
  /\ pc = "top" /\ desired = [k \in Key |-> NoQuote] /\ todo = {}
  /\ afterwards = "top" /\ missedCancel = {}
  /\ faults = 0

-----------------------------------------------------------------------------
(* Faults are of the live venue, and their number is bounded. *)

Fault == faults < MaxFaults /\ faults' = faults + 1
Answer(ok) == IF ok THEN UNCHANGED faults ELSE live /\ Fault

-----------------------------------------------------------------------------
(* Surroundings: the venue trades against what rests, the operator kills.  *)

\* the paper venue trades only inside poll
Matching(i, q) ==
  /\ order[i].open /\ q \in 1..order[i].left
  /\ live \/ pc = "poll"
  /\ order' = Trade(i, q)
  /\ matched' = [matched EXCEPT ![TokenOf[order[i].key]] = @ + Signed(order[i].key, q)]
  /\ UNCHANGED <<live, tracked, net, faults, flags, killed, pc, desired,
                 todo, afterwards, missedCancel>>

\* a trade pushed while the user socket is down is not pushed again
FrameLost(i) ==
  /\ live /\ order[i].unseen > 0 /\ Fault
  /\ VenueBecomes([order EXCEPT ![i].unseen = 0], tracked)
  /\ UNCHANGED <<live, net, matched, flags, killed, pc, desired, todo,
                 afterwards, missedCancel>>

\* read at the loop's top only: a rise elsewhere shows itself at the next top
Kill ==
  /\ pc = "top" /\ ~killed /\ killed' = TRUE
  /\ UNCHANGED <<live, order, tracked, maker, flags, pc, desired, todo,
                 afterwards, missedCancel>>

-----------------------------------------------------------------------------
(* The quotes a pass asks for. *)

\* mutant: the cap is asked of the quote alone
ApprovedAlone(k, q) == q <= Cap

\* check_quote: de-risking is never blocked, anything else stays within both caps
Approved(k, q) ==
  LET t == TokenOf[k]
      proj == net[t] + Signed(k, q)
      others == MapThenSumSet(LAMBDA u : Abs(net[u]), Token \ {t})
  IN  \/ Abs(proj) <= Abs(net[t])
      \/ Abs(proj) <= Cap /\ Abs(proj) + others <= GrossCap

\* no_naked_shorts: a live ask sells what is held, and at least the venue's minimum
Sellable(k, q) ==
  IF ~live \/ SideOf[k] = "bid" THEN q
  ELSE LET long == IF net[TokenOf[k]] > 0 THEN net[TokenOf[k]] ELSE 0
           most == IF q < long THEN q ELSE long
       IN  IF most >= MinSell THEN most ELSE 0

InBand(a, b) == Abs(a.px - b.px) <= PxBand /\ Abs(a.qty - b.qty) <= SizeBand

\* sticky re-quoting keeps an in-band resting quote as it is
Settled(k, q) ==
  IF RewardFarm /\ tracked[k] # Untracked /\ InBand(tracked[k].quote, q)
  THEN tracked[k].quote ELSE q

\* what the pass wants at k when the book gives candidate c there
Wanted(k, c) ==
  IF c = NoQuote \/ k \in vetoed \/ Sellable(k, c.qty) = 0 \/ ~Approved(k, Sellable(k, c.qty))
  THEN NoQuote
  ELSE Settled(k, [c EXCEPT !.qty = Sellable(k, c.qty)])

\* the tick's first stage, up to the first venue call
StartQuoting ==
  \E c \in [Key -> [px: Px, qty: Size] \cup {NoQuote}] :
    /\ desired' = [k \in Key |-> Wanted(k, c[k])]
    /\ todo' = {k \in TrackedKeys : desired'[k] = NoQuote}
    /\ pc' = "stale"

\* the day-loss latch: released by a new UTC day, set again by today's books
DayLatch(rolled, breach) == dayHalted' = ((dayHalted /\ ~rolled) \/ breach)

\* mutant: the inventory halt is only asked for when it latches
QuotesUnlessPaused(day) == ~paused /\ ~day

QuotesAllowed(day) == ~paused /\ ~halted /\ ~day

Ticks ==
  /\ pc = "select"
  /\ \E rolled, breach \in BOOLEAN : DayLatch(rolled, breach)
  /\ IF QuotesAllowed(dayHalted')
     THEN StartQuoting
     ELSE pc' = "poll" /\ UNCHANGED <<desired, todo>>
  /\ UNCHANGED <<live, order, tracked, maker, paused, halted, vetoed, killed,
                 afterwards, missedCancel>>

-----------------------------------------------------------------------------
(* reconcile: cancel what is no longer wanted, then place or replace what  *)
(* differs.  After an error the pass goes on with the next key.            *)

\* one cancel of the order tracked at k, by any of the loops that cancel
Cancels(k, ok) ==
  /\ Answer(ok)
  /\ \E ord \in CancelLeaves(tracked[k].id, ok) :
       VenueBecomes(ord, IF ok THEN Drop(k) ELSE tracked)

Missed(ks, ok) == missedCancel' = IF ok THEN missedCancel \ ks ELSE missedCancel \cup ks

CancelStale(k) ==
  /\ pc = "stale" /\ k \in todo
  /\ \E ok \in BOOLEAN :
       /\ Cancels(k, ok) /\ Missed({k}, ok)
  /\ todo' = todo \ {k}
  /\ UNCHANGED <<live, net, matched, flags, killed, pc, desired, afterwards>>

StaleDone ==
  /\ pc = "stale" /\ todo = {}
  /\ pc' = "place"
  /\ todo' = {k \in Key : desired[k] # NoQuote /\ tracked[k].quote # desired[k]}
  /\ UNCHANGED <<live, order, tracked, maker, flags, killed, desired,
                 afterwards, missedCancel>>

\* place: accepted, refused (a post-only order would cross), or accepted unheard;
\* an id is always free, MakerAssumption allows for every order that can be in use
Accepted(k) ==
  /\ Free # {}
  /\ VenueBecomes(Rests(Lowest(Free), k, desired[k]), Track(k, Lowest(Free), desired[k]))
  /\ Missed({k}, TRUE)
  /\ UNCHANGED faults

Refused == UNCHANGED <<order, tracked, missedCancel, faults>>

Unheard(k) ==
  /\ live /\ Fault /\ Free # {}
  /\ VenueBecomes(Rests(Lowest(Free), k, desired[k]), tracked)
  /\ UNCHANGED missedCancel

PlaceAnswered(k) ==
  /\ Accepted(k) \/ Refused \/ Unheard(k)
  /\ pc' = "place" /\ todo' = todo \ {k}
  /\ UNCHANGED <<live, net, matched, flags, killed, desired, afterwards>>

Place(k) ==
  /\ pc = "place" /\ todo # {} /\ k = Lowest(todo) /\ tracked[k] = Untracked
  /\ PlaceAnswered(k)

\* replace is cancel-then-place; neither touches the map before both succeeded
ReplaceCancel(k) ==
  /\ pc = "place" /\ todo # {} /\ k = Lowest(todo) /\ tracked[k] # Untracked
  /\ \E ok \in BOOLEAN :
       /\ Answer(ok)
       /\ \E ord \in CancelLeaves(tracked[k].id, ok) : VenueBecomes(ord, tracked)
       /\ Missed({k}, ok)
       /\ pc' = IF ok THEN "replace" ELSE "place"
       /\ todo' = IF ok THEN todo ELSE todo \ {k}
  /\ UNCHANGED <<live, net, matched, flags, killed, desired, afterwards>>

ReplacePlace(k) ==
  /\ pc = "replace" /\ k = Lowest(todo)
  /\ PlaceAnswered(k)

\* record_placed, then quote() returns
Recorded ==
  /\ pc = "place" /\ todo = {}
  /\ order' = [i \in Id |-> IF Tracks(i) THEN [order[i] EXCEPT !.known = TRUE] ELSE order[i]]
  /\ pc' = "poll"
  /\ UNCHANGED <<live, tracked, maker, flags, killed, desired, todo,
                 afterwards, missedCancel>>

-----------------------------------------------------------------------------
(* consume_fills and mark_and_check. *)

Unseen == {i \in Id : order[i].unseen > 0}
Trades == [i \in Unseen |-> Signed(order[i].key, order[i].unseen)]

\* mutant: only while the order is still tracked
AttributedTracked(i) == Tracks(i)

\* a live fill names no side: it is booked when the order is one we recorded
Attributed(i) == ~live \/ order[i].known

Booked(seen) ==
  LET mine == {i \in seen : Attributed(i)}
      got == [i \in {NoId} \cup Id |-> IF i \in mine THEN order[i].unseen ELSE 0]
  IN  /\ VenueBecomes([i \in Id |-> IF i \in seen THEN [order[i] EXCEPT !.unseen = 0] ELSE order[i]],
                      NoteFills(got))
      /\ net' = [t \in Token |-> net[t] +
           MapThenSumSet(LAMBDA i : Trades[i], {i \in mine : TokenOf[order[i].key] = t})]

\* quote()'s locals are gone by now
PassForgotten == desired' = [k \in Key |-> NoQuote]

\* a REST poll may fail and return nothing, the socket may have pushed only some
Poll ==
  /\ pc = "poll" /\ pc' = "mark"
  /\ \E seen \in SUBSET Unseen :
       /\ IF seen = Unseen THEN UNCHANGED faults ELSE live /\ Fault
       /\ Booked(seen)
  /\ PassForgotten
  /\ UNCHANGED <<live, matched, flags, killed, todo, afterwards, missedCancel>>

StartCancelAll(back) == pc' = "flatten" /\ todo' = TrackedKeys /\ afterwards' = back

\* a stop-loss or the daily loss latches once
Mark ==
  /\ pc = "mark"
  /\ \/ pc' = "top" /\ UNCHANGED <<halted, todo, afterwards>>
     \/ ~halted /\ halted' = TRUE /\ StartCancelAll("top")
  /\ UNCHANGED <<live, order, tracked, maker, paused, dayHalted, vetoed, killed, desired,
                 missedCancel>>

-----------------------------------------------------------------------------
(* cancel_all aborts at its first error. *)

CancelAllStep(k) ==
  /\ pc = "flatten" /\ k \in todo
  /\ \E ok \in BOOLEAN :
       /\ Cancels(k, ok)
       /\ todo' = IF ok THEN todo \ {k} ELSE {}
       /\ Missed(IF ok THEN {k} ELSE todo, ok)
  /\ UNCHANGED <<live, net, matched, flags, killed, pc, desired, afterwards>>

CancelAllDone ==
  /\ pc = "flatten" /\ todo = {} /\ pc' = afterwards
  /\ UNCHANGED <<live, order, tracked, maker, flags, killed, desired, todo,
                 afterwards, missedCancel>>

-----------------------------------------------------------------------------
(* The loop and the operator's commands. *)

LoopTop ==
  /\ pc = "top"
  /\ IF killed THEN StartCancelAll("done") ELSE pc' = "select" /\ UNCHANGED <<todo, afterwards>>
  /\ UNCHANGED <<live, order, tracked, maker, flags, killed, desired, missedCancel>>

SetPaused(p) ==
  /\ pc = "select" /\ paused' = p
  /\ IF p THEN StartCancelAll("top") ELSE pc' = "top" /\ UNCHANGED <<todo, afterwards>>
  /\ UNCHANGED <<live, order, tracked, maker, halted, dayHalted, vetoed, killed, desired,
                 missedCancel>>

\* set_veto: the resting quote is cancelled at once, and is not placed again
Veto(k) ==
  /\ pc = "select" /\ k \in Vetoable /\ vetoed' = vetoed \cup {k}
  /\ IF tracked[k] = Untracked
     THEN UNCHANGED <<order, tracked, missedCancel, faults>>
     ELSE \E ok \in BOOLEAN : Cancels(k, ok) /\ Missed({k}, ok)
  /\ pc' = "top"
  /\ UNCHANGED <<live, net, matched, paused, halted, dayHalted, killed, desired, todo,
                 afterwards>>

LiftVeto(k) ==
  /\ pc = "select" /\ k \in vetoed /\ vetoed' = vetoed \ {k}
  /\ pc' = "top"
  /\ UNCHANGED <<live, order, tracked, maker, paused, halted, dayHalted, killed, desired,
                 todo, afterwards, missedCancel>>

\* the host is gone
CtlClosed ==
  /\ pc = "select" /\ StartCancelAll("done")
  /\ UNCHANGED <<live, order, tracked, maker, flags, killed, desired, missedCancel>>

-----------------------------------------------------------------------------
\* one step of the task; Commands are the select branches the operator drives
TaskStep ==
  \/ LoopTop \/ Ticks \/ StaleDone \/ Recorded \/ Poll \/ Mark \/ CancelAllDone
  \/ \E k \in Key : CancelStale(k) \/ Place(k) \/ ReplaceCancel(k) \/ ReplacePlace(k)
                    \/ CancelAllStep(k)

Commands ==
  \/ \E p \in BOOLEAN : SetPaused(p)
  \/ \E k \in Key : Veto(k) \/ LiftVeto(k)
  \/ CtlClosed

Outside ==
  \/ \E i \in Id, q \in 1..MaxSize : Matching(i, q)
  \/ \E i \in Id : FrameLost(i)
  \/ Kill

Next == TaskStep \/ Commands \/ Outside

Spec == Init /\ [][Next]_vars

-----------------------------------------------------------------------------
(* Properties. *)

OpenAt(k) == {i \in Id : order[i].open /\ order[i].key = k}

(* A key never rests more than the one quote the manager tracks for it,    *)
(* whatever cancels and replaces failed; only an answer lost on its way    *)
(* back leaves an order nobody will cancel, one per answer.                *)
NoOrphan == Cardinality({i \in Id : order[i].open /\ ~Tracks(i)}) <= faults

(* The inventory the caps and stops look at is what the venue traded, less *)
(* what is still to be polled: late fills of cancelled and replaced orders *)
(* are booked too, each once, on the right side.  A lost answer or frame   *)
(* costs at most one quote.                                                *)
InventoryTrue ==
  \A t \in Token :
    Abs(matched[t] - net[t]
        - MapThenSumSet(LAMBDA i : Trades[i], {i \in Unseen : TokenOf[order[i].key] = t}))
      <= faults * MaxSize

\* how far check_quote lets a filled quote take a side: to the per-market
\* cap, or past flat to the mirror image of the inventory it had, which is
\* no more than half the quote
Ceiling == IF 2 * Cap < MaxSize THEN MaxSize \div 2 ELSE Cap

(* What was really traded exceeds the ceiling of check_quote by at most    *)
(* one quote, and by one more for every poll that failed and every answer  *)
(* or frame that got lost: the check bounds what it knows of.              *)
InventoryBounded ==
  \A t \in Token : Abs(matched[t]) <= Ceiling + MaxSize * (1 + faults)

(* A stopped side of the book is empty when the loop is back at its        *)
(* select: after a pause, an inventory halt, a veto or the end of the      *)
(* task, whatever still rests there is an order whose cancel failed.       *)
Stopped(k) == paused \/ halted \/ pc = "done" \/ k \in vetoed
StopsFlat ==
  pc \in {"top", "select", "done"} =>
    \A k \in Key : Stopped(k) =>
      \A i \in OpenAt(k) : Tracks(i) => k \in missedCancel

(* quote_manager.rs:71: reconcile drives the venue until the resting book  *)
(* matches desired.  After a pass, a desired quote that it tracks as       *)
(* resting does rest, or has traded and is not yet polled.                 *)
ReconcileConverges ==
  pc = "poll" =>
    \A k \in Key : desired[k] # NoQuote /\ tracked[k].quote = desired[k] =>
      order[tracked[k].id].open \/ order[tracked[k].id].unseen > 0

(* mm.rs:1283: the day-loss latch is only set before any quote rests, so   *)
(* there is nothing to cancel when it stops quoting.                       *)
DayHaltedMeansFlat ==
  pc \in {"top", "select"} /\ dayHalted => \A i \in Id : ~order[i].open
=============================================================================
