-------------------------------- MODULE Feed --------------------------------
(***************************************************************************)
(* Market data of one shard (crates/ingestion/src/supervisor.rs, shard.rs, *)
(* livebook.rs, ws.rs):                                                    *)
(*                                                                         *)
(*   venue --frames (wire)--> session --applies--> live books --> detector *)
(*         <--REST, one snapshot at a time--                               *)
(*                                                                         *)
(* Deltas carry absolute level sizes.  While a snapshot is awaited frames  *)
(* wait in the socket, so deltas older than a snapshot are applied on top  *)
(* of it.  `work' is the stack of what the running arm of the session's    *)
(* select still has to do; it waits in the select when `work' is empty.    *)
(*                                                                         *)
(* The venue's side (VenueMoves, PushBook, Subscribed, and that a snapshot *)
(* is the venue's book at the moment it is served) is assumed, not coded.  *)
(***************************************************************************)
EXTENDS Ladder, SequencesExt

CONSTANTS
  Token,
  OffTick,             \* prices the token's tick does not divide
  VenueBook,           \* the books the venue can show for each token
  CrossedBook,         \* a snapshot no venue should serve
  OffTickThreshold,    \* OFF_TICK_RESNAPSHOT_THRESHOLD
  WireCap,             \* frames in the socket
  MaxFaults            \* lost links, failed calls, unreadable frames, in all

RawPrice == Price \cup OffTick
RawBook == [Side -> SUBSET RawPrice]
VenueBooks == {v \in [Token -> RawBook] : \A t \in Token : v[t] \in VenueBook[t]}

ASSUME FeedAssumption ==
  /\ IsFiniteSet(Token) /\ IsFiniteSet(OffTick) /\ OffTick \cap Price = {}
  /\ VenueBook \in [Token -> SUBSET RawBook] /\ CrossedBook \in RawBook
  /\ \E b \in CrossedBook["Bid"] \cap Price, a \in CrossedBook["Ask"] \cap Price : a <= b
  /\ OffTickThreshold \in Nat \ {0} /\ WireCap \in Nat \ {0} /\ MaxFaults \in Nat

VARIABLES
  venue,               \* the venue's books
  link, broken,        \* a session is up; its socket is dead
  sub,                 \* the subscription: "sent", "on", or "failed"
  wire,                \* frames in the socket, each a sequence of events
  work,                \* events and REST calls the session is working off
  book,                \* the live books
  heard,               \* a frame came within feed_silence
  missed,              \* ghost: a frame was dropped since the last snapshot
  faults

venueVars == <<venue, sub, wire, broken>>
sessionVars == <<link, work, book, heard>>
vars == <<venueVars, sessionVars, missed, faults>>

\* an event of a frame, a REST call, or its answer
BookEvent(t, b) == [kind |-> "book", token |-> t, book |-> b]
ChangeEvent(t, c) == [kind |-> "change", token |-> t, changes |-> c]
Rest(t) == [kind |-> "rest", token |-> t]
Snap(t, b) == [kind |-> "snap", token |-> t, book |-> b]

\* the level changes that turn one venue book into another
Diff(from, to) ==
  {[side |-> s, px |-> p, qty |-> IF p \in to[s] THEN 1 ELSE 0] :
     s \in Side, p \in RawPrice} \ {[side |-> s, px |-> p, qty |-> IF p \in from[s] THEN 1 ELSE 0] :
     s \in Side, p \in RawPrice}

NewBook == [side |-> [s \in Side |-> NewLadder], valid |-> FALSE, offTick |-> 0]
\* a token without a slot in the shard has no book
Slotless == [slot |-> FALSE, live |-> NewBook]

-----------------------------------------------------------------------------
(* LiveBook. *)

Crossed(b) ==
  /\ b.side["Bid"].best # NoPx /\ b.side["Ask"].best # NoPx
  /\ b.side["Bid"].best >= b.side["Ask"].best

\* price_to_px: an off-tick level is counted and not applied
ApplyChange(b, c) ==
  IF c.px \in OffTick
  THEN [b EXCEPT !.offTick = @ + 1]
  ELSE [b EXCEPT !.side[c.side] = Set(@, c.side, c.px, c.qty)]

\* apply_snapshot: rebuilt from nothing; a crossed one leaves nothing
Snapshot(b, raw) ==
  LET full == FoldSet(LAMBDA c, acc : ApplyChange(acc, c), NewBook,
                      Diff([s \in Side |-> {}], raw))
  IN  IF Crossed(full) THEN [NewBook EXCEPT !.offTick = b.offTick]
      ELSE [full EXCEPT !.valid = TRUE]

\* apply_changes on a valid book: too many off-tick levels or a cross invalidate it
Changed(b, changes) ==
  LET next == FoldSet(LAMBDA c, acc : ApplyChange(acc, c), b, changes)
  IN  [next EXCEPT !.valid = next.offTick < OffTickThreshold /\ ~Crossed(next)]

AllStale == [t \in Token |-> [book[t] EXCEPT !.live.valid = FALSE]]
Valid(t) == book[t].live.valid
InvalidTokens == {t \in Token : book[t].slot /\ ~Valid(t)}

-----------------------------------------------------------------------------
Fault == faults < MaxFaults /\ faults' = faults + 1

Init ==
  /\ venue \in VenueBooks
  /\ link = "down" /\ broken = FALSE /\ sub = "sent"
  /\ wire = <<>> /\ work = <<>>
  /\ book = [t \in Token |-> Slotless]
  /\ heard = TRUE /\ missed = [t \in Token |-> FALSE] /\ faults = 0

-----------------------------------------------------------------------------
(* The venue. *)

Listening == link = "up" /\ sub = "on" /\ ~broken

\* tokens trade: one frame with a group of changes for each token that moved
VenueMoves(next) ==
  LET moved == {t \in Token : next[t] # venue[t]}
  IN  /\ moved # {}
      /\ venue' = next
      /\ IF Listening
         THEN /\ Len(wire) < WireCap
              /\ wire' = Append(wire, SetToSeq({ChangeEvent(t, Diff(venue[t], next[t])) : t \in moved}))
         ELSE wire' = wire
      /\ UNCHANGED <<sub, broken, sessionVars, missed, faults>>

PushBook(t) ==
  /\ Listening /\ Len(wire) < WireCap
  /\ wire' = Append(wire, <<BookEvent(t, venue[t])>>)
  /\ UNCHANGED <<venue, sub, broken, sessionVars, missed, faults>>

\* the subscription reaches the venue, which answers with every book
Subscribed ==
  /\ link = "up" /\ sub = "sent" /\ ~broken
  /\ sub' = "on"
  /\ wire' = Append(wire, SetToSeq({BookEvent(t, venue[t]) : t \in Token}))
  /\ UNCHANGED <<venue, broken, sessionVars, missed, faults>>

Break ==
  /\ link = "up" /\ ~broken /\ Fault
  /\ broken' = TRUE
  /\ UNCHANGED <<venue, sub, wire, sessionVars, missed>>

-----------------------------------------------------------------------------
(* run(): connect (send_text's error is ignored) and resnapshot all. *)

Connect ==
  /\ link = "down" /\ link' = "up"
  /\ broken' = FALSE /\ wire' = <<>> /\ heard' = TRUE
  /\ work' = SetToSeq({Rest(t) : t \in Token})
  /\ \/ sub' = "sent" /\ faults' = faults
     \/ sub' = "failed" /\ Fault
  /\ UNCHANGED <<venue, book, missed>>

\* mark_all_stale, and the session is over
EndSession ==
  /\ link' = "down" /\ book' = AllStale
  /\ UNCHANGED <<venueVars, work, heard, missed, faults>>

Waiting == link = "up" /\ work = <<>>

\* the biased select: what the socket holds comes before the sweep
TakeFrame ==
  /\ Waiting /\ wire # <<>>
  /\ work' = Head(wire) /\ wire' = Tail(wire)
  /\ heard' = TRUE
  /\ UNCHANGED <<venue, sub, broken, link, book, missed, faults>>

\* parse_frame fails: the whole frame is counted and dropped
DropFrame ==
  /\ Waiting /\ wire # <<>> /\ Fault
  /\ wire' = Tail(wire) /\ heard' = TRUE
  /\ missed' = [t \in Token |-> missed[t] \/ \E i \in DOMAIN Head(wire) : Head(wire)[i].token = t]
  /\ UNCHANGED <<venue, sub, broken, link, work, book>>

SocketEnds == Waiting /\ wire = <<>> /\ broken /\ EndSession

\* feed_silence passes without a frame
Silence ==
  /\ link = "up" /\ wire = <<>> /\ heard
  /\ heard' = FALSE
  /\ UNCHANGED <<venueVars, link, work, book, missed, faults>>

\* Mutant: the silent session marks its books stale and goes on.
SweepSilentStays ==
  /\ Waiting /\ wire = <<>> /\ ~broken /\ ~heard
  /\ book' = AllStale /\ heard' = TRUE
  /\ UNCHANGED <<venueVars, link, work, missed, faults>>

SweepSilent == Waiting /\ wire = <<>> /\ ~broken /\ ~heard /\ EndSession

Sweep ==
  /\ Waiting /\ wire = <<>> /\ ~broken /\ heard
  /\ work' \in SetToSeqs({Rest(t) : t \in InvalidTokens})
  /\ UNCHANGED <<venueVars, link, book, heard, missed, faults>>

-----------------------------------------------------------------------------
(* The head of `work'. *)

Doing(kind) == link = "up" /\ work # <<>> /\ Head(work).kind = kind

RestServed ==
  /\ Doing("rest")
  /\ LET t == Head(work).token
     IN  \/ work' = <<Snap(t, venue[t])>> \o Tail(work) /\ faults' = faults
         \/ work' = <<Snap(t, CrossedBook)>> \o Tail(work) /\ Fault
  /\ UNCHANGED <<venueVars, link, book, heard, missed>>

RestFails ==
  /\ Doing("rest") /\ Fault
  /\ work' = Tail(work)
  /\ UNCHANGED <<venueVars, link, book, heard, missed>>

\* a snapshot makes the slot if there is none
TakeSnapshot(e) ==
  /\ book' = [book EXCEPT ![e.token] = [slot |-> TRUE, live |-> Snapshot(@.live, e.book)]]
  /\ missed' = [missed EXCEPT ![e.token] = FALSE]

\* REST: a crossed snapshot is left to the sweep
SnapApplied ==
  /\ Doing("snap")
  /\ TakeSnapshot(Head(work))
  /\ work' = Tail(work)
  /\ UNCHANGED <<venueVars, link, heard, faults>>

\* Book frame: a crossed one asks REST at once
BookApplied ==
  /\ Doing("book")
  /\ LET e == Head(work)
     IN  /\ TakeSnapshot(e)
         /\ work' = IF book'[e.token].live.valid THEN Tail(work)
                    ELSE <<Rest(e.token)>> \o Tail(work)
  /\ UNCHANGED <<venueVars, link, heard, faults>>

\* a level that does not parse: the slot is there, the event is skipped
BookUnreadable ==
  /\ Doing("book") /\ Fault
  /\ LET t == Head(work).token
     IN  /\ book' = [book EXCEPT ![t].slot = TRUE]
         /\ missed' = [missed EXCEPT ![t] = TRUE]
  /\ work' = Tail(work)
  /\ UNCHANGED <<venueVars, link, heard>>

\* Mutant: handle_frame returns after asking REST.
ChangeAppliedReturns ==
  /\ Doing("change")
  /\ LET e == Head(work)
     IN  /\ book' = IF Valid(e.token)
                    THEN [book EXCEPT ![e.token].live = Changed(@, e.changes)] ELSE book
         /\ work' = IF book'[e.token].live.valid THEN Tail(work) ELSE <<Rest(e.token)>>
  /\ UNCHANGED <<venueVars, link, heard, missed, faults>>

\* a change on an invalid or unknown book is not applied: REST is asked
ChangeApplied ==
  /\ Doing("change")
  /\ LET e == Head(work)
     IN  /\ book' = IF Valid(e.token)
                    THEN [book EXCEPT ![e.token].live = Changed(@, e.changes)] ELSE book
         /\ work' = IF book'[e.token].live.valid THEN Tail(work)
                    ELSE <<Rest(e.token)>> \o Tail(work)
  /\ UNCHANGED <<venueVars, link, heard, missed, faults>>

-----------------------------------------------------------------------------
Venue ==
  \/ \E next \in VenueBooks : VenueMoves(next)
  \/ \E t \in Token : PushBook(t)
  \/ Subscribed \/ Break

Session ==
  \/ Connect \/ TakeFrame \/ DropFrame \/ SocketEnds \/ Silence \/ SweepSilent \/ Sweep
  \/ RestServed \/ RestFails \/ SnapApplied \/ BookApplied \/ BookUnreadable \/ ChangeApplied

Next == Venue \/ Session

Spec == Init /\ [][Next]_vars

(***************************************************************************)
(* The session's task is polled, calls are answered or time out, time      *)
(* passes, a subscription sent again and again arrives.  The sweep's arm   *)
(* comes last in the biased select: it is only reached when the socket is  *)
(* empty.                                                                  *)
(***************************************************************************)
Fairness ==
  /\ WF_vars(Connect) /\ WF_vars(TakeFrame) /\ WF_vars(SocketEnds) /\ SF_vars(Subscribed)
  /\ WF_vars(RestServed) /\ WF_vars(SnapApplied) /\ WF_vars(BookApplied)
  /\ WF_vars(ChangeApplied) /\ WF_vars(Silence) /\ SF_vars(Sweep) /\ SF_vars(SweepSilent)

FairSpec == Spec /\ Fairness
-----------------------------------------------------------------------------
(* Properties. *)

\* the changes of one event: a level is set once
Change == [side: Side, px: RawPrice, qty: {0, 1}]
Changes == {cs \in SUBSET Change : \A c, d \in cs : c.side = d.side /\ c.px = d.px => c = d}

FrameEvent ==
  [kind: {"book"}, token: Token, book: RawBook]
  \cup [kind: {"change"}, token: Token, changes: Changes]
CallEvent ==
  [kind: {"snap"}, token: Token, book: RawBook] \cup [kind: {"rest"}, token: Token]
BookRecord ==
  [slot: BOOLEAN, live: [side: [Side -> LadderRecord], valid: BOOLEAN, offTick: Nat]]

(* Every variable has its type; a book without a slot is new.              *)
TypeOK ==
  /\ venue \in VenueBooks
  /\ link \in {"up", "down"} /\ broken \in BOOLEAN /\ sub \in {"sent", "on", "failed"}
  /\ wire \in Seq(Seq(FrameEvent)) /\ work \in Seq(FrameEvent \cup CallEvent)
  /\ book \in [Token -> BookRecord] /\ \A t \in Token : ~book[t].slot => book[t].live = NewBook
  /\ heard \in BOOLEAN /\ missed \in [Token -> BOOLEAN] /\ faults \in 0..MaxFaults

(* What is to come: the events in hand, then the frames in the socket.     *)
Frames == [k \in 0..Len(wire) |-> IF k = 0 THEN work ELSE wire[k]]
Places(q) == UNION {{<<k, i>> : i \in DOMAIN q[k]} : k \in DOMAIN q}
Event(q, x) == q[x[1]][x[2]]
Before(x, y) == x[1] < y[1] \/ (x[1] = y[1] /\ x[2] < y[2])

\* an event that sets the level s, p of t, and what it sets it to
Sets(e, t, s, p) ==
  /\ e.token = t
  /\ \/ e.kind \in {"book", "snap"}
     \/ e.kind = "change" /\ \E c \in e.changes : c.side = s /\ c.px = p
Shows(e, s, p) ==
  IF e.kind = "change" THEN [side |-> s, px |-> p, qty |-> 1] \in e.changes ELSE p \in e.book[s]

Setting(q, t, s, p) == {x \in Places(q) : Sets(Event(q, x), t, s, p)}
LastSetting(q, t, s, p) ==
  {x \in Setting(q, t, s, p) : \A y \in Setting(q, t, s, p) : ~Before(x, y)}
EndsUp(q, t, s, p) ==
  IF Setting(q, t, s, p) = {} THEN p \in Occupied(book[t].live.side[s])
  ELSE \A x \in LastSetting(q, t, s, p) : Shows(Event(q, x), s, p)

(* No change is lost: on a subscribed socket the levels of a valid book,   *)
(* once everything still in the socket and in hand is applied to them, are *)
(* the venue's, with the best of each side cached right, whatever order    *)
(* snapshots and older deltas were applied in; and every book is invalid   *)
(* between sessions.  (Frames that do not parse are excepted: nothing      *)
(* notices them.)  LiveBook, handle_frame, resnapshot, run_session.        *)
NothingLost ==
  \A t \in Token :
    /\ link = "down" => ~Valid(t)
    /\ \A s \in Side : BestTrue(book[t].live.side[s], s)
    /\ Listening /\ Valid(t) /\ ~missed[t] =>
         \A s \in Side, p \in Price : EndsUp(Frames, t, s, p) <=> p \in venue[t][s]

(* A feed that drains its socket again and again, with finitely many       *)
(* faults, gets every book it has ever seen valid again, and a session     *)
(* whose subscription was lost is given up for one that is subscribed.     *)
Drained == wire = <<>> /\ work = <<>>
Recovers ==
  []<>Drained =>
    /\ \A t \in Token : book[t].slot /\ ~Valid(t) ~> Valid(t)
    /\ sub = "failed" ~> sub = "on"

=============================================================================
