---------------------------- MODULE QuoteManager ----------------------------
(***************************************************************************)
(* What a market maker believes to be resting (QuoteManager.resting,       *)
(* crates/execution/src/quote_manager.rs) beside what does rest at the     *)
(* maker venue (PaperMakerVenue, or LiveVenue's book).                     *)
(*                                                                         *)
(* A key is a side of a token.  An order id is named again once its order  *)
(* is gone, its fills are polled and nothing tracks it, so that a loop     *)
(* without end has finitely many states; MaxOrders bounds the ids in use.  *)
(***************************************************************************)
EXTENDS Integers, FiniteSets

CONSTANTS
  Token,
  Key,        \* (TokenId, Side), numbered in the order `desired' lists them
  TokenOf, SideOf,
  Px, Size,   \* price ticks and quote sizes
  MaxOrders

MaxSize == CHOOSE q \in Size : \A s \in Size : s <= q

ASSUME QuoteAssumption ==
  /\ Key \subseteq Nat \ {0} /\ IsFiniteSet(Key)
  /\ TokenOf \in [Key -> Token] /\ SideOf \in [Key -> {"bid", "ask"}]
  /\ \A j, k \in Key : TokenOf[j] = TokenOf[k] /\ SideOf[j] = SideOf[k] => j = k
  /\ Px \subseteq Nat /\ Size \subseteq Nat \ {0} /\ IsFiniteSet(Size) /\ Size # {}
  /\ MaxOrders \in Nat \ {0}

VARIABLES
  order,      \* the venue's orders by id, see OrderRecord
  tracked     \* QuoteManager.resting, per key

Id == 1..MaxOrders
NoId == 0
Quotes == [px: Px, qty: Nat \ {0}]
NoQuote == [px |-> 0, qty |-> 0]
Untracked == [id |-> NoId, quote |-> NoQuote]

\* unseen is matched and not yet polled; known is membership of MmLoop.placed
OrderRecord == [key: Key, px: Px, left: Nat, unseen: Nat, open: BOOLEAN, known: BOOLEAN]
Vacant == [key |-> 0, px |-> 0, left |-> 0, unseen |-> 0, open |-> FALSE, known |-> FALSE]

VenueTypeOK ==
  /\ order \in [Id -> OrderRecord \cup {Vacant}]
  /\ tracked \in [Key -> [id: Id, quote: Quotes] \cup {Untracked}]

VenueInit ==
  /\ order = [i \in Id |-> Vacant]
  /\ tracked = [k \in Key |-> Untracked]

Tracks(i) == \E k \in Key : tracked[k].id = i
TrackedKeys == {k \in Key : tracked[k] # Untracked}
Free == {i \in Id : order[i] = Vacant}
Lowest(S) == CHOOSE x \in S : \A y \in S : x <= y
Signed(k, q) == IF SideOf[k] = "bid" THEN q ELSE -q

\* an id nothing refers to any more may be named again
Swept(ord, trk) ==
  [i \in Id |->
     IF ~ord[i].open /\ ord[i].unseen = 0 /\ \A k \in Key : trk[k].id # i
     THEN Vacant ELSE ord[i]]

VenueBecomes(ord, trk) == tracked' = trk /\ order' = Swept(ord, trk)

-----------------------------------------------------------------------------
(* The tracking map. *)

Track(k, i, q) == [tracked EXCEPT ![k] = [id |-> i, quote |-> q]]
Drop(k) == [tracked EXCEPT ![k] = Untracked]

\* Mutant: any fill drops the quote.
NoteFillsDropping(got) ==
  [k \in Key |-> IF got[tracked[k].id] > 0 THEN Untracked ELSE tracked[k]]

\* note_fill for all fills of one poll: a filled quote is dropped, a part-filled one shrinks
NoteFills(got) ==
  [k \in Key |->
     LET t == tracked[k]
         rest == t.quote.qty - got[t.id]
     IN  IF t = Untracked \/ got[t.id] = 0 THEN t
         ELSE IF rest <= 0 THEN Untracked
         ELSE [t EXCEPT !.quote.qty = rest]]

-----------------------------------------------------------------------------
(* The venue's side of a call.  A live call may fail before it arrives, or *)
(* its answer may be lost after it took effect.                            *)

Gone(i) == [order EXCEPT ![i].open = FALSE]
Rests(i, k, q) ==
  [order EXCEPT ![i] = [key |-> k, px |-> q.px, left |-> q.qty, unseen |-> 0,
                        open |-> TRUE, known |-> FALSE]]

\* a cancel succeeds whether it or a fill took the order; a failed one may have arrived
CancelLeaves(i, ok) == IF ok THEN {Gone(i)} ELSE {order, Gone(i)}

\* one trade against order i
Trade(i, q) ==
  [order EXCEPT ![i].left = @ - q, ![i].unseen = @ + q, ![i].open = q < order[i].left]
=============================================================================
