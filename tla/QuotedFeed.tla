----------------------------- MODULE QuotedFeed -----------------------------
(***************************************************************************)
(* The market maker on the feed (crates/app/src/strategy/mm.rs:            *)
(* compute_quotes and reward_quote_prices over the slot of a live book):   *)
(* at any moment either policy may quote on a book the supervisor serves   *)
(* as valid, reading the best levels its ladders have cached.  The         *)
(* inventory and the policies' settings are whatever the sets below have.  *)
(***************************************************************************)
EXTENDS Feed, Quoting

CONSTANTS
  Nets,                \* the inventory,
  Caps, Spreads, Skews,  \* [market_making]: max_inventory_usd, spread_bps, skew_bps
  Bands,               \* the reward band around the fair price,
  Depths, LeastDepth,  \* the size of a best level, and what counts as one
  Slips                \* ticks a division in doubles may miss by

ASSUME QuotedFeedAssumption ==
  /\ Nets \subseteq Int /\ Caps \subseteq Int /\ Spreads \subseteq Nat /\ Skews \subseteq Nat
  /\ Bands \subseteq Int /\ Depths \subseteq Nat /\ LeastDepth \in Nat /\ Slips \subseteq Nat

SpreadOn(bb, ba) ==
  {SpreadQuotes(bb, ba, net, cap, spread, skew) :
     net \in Nets, cap \in Caps, spread \in Spreads, skew \in Skews}
RewardOn(bb, ba) ==
  {RewardQuotes(bb, ba, Microprice(bb, ba, bq, aq, LeastDepth), band, [bid |-> b, ask |-> a]) :
     bq \in Depths, aq \in Depths, band \in Bands, b \in Slips, a \in Slips}
QuotesOn ==
  {[bid |-> bb, ask |-> ba, quotes |-> SpreadOn(bb, ba) \cup RewardOn(bb, ba)] : bb \in Price, ba \in Price}

(* Whatever the inventory, either policy's quotes on a book the supervisor *)
(* serves as valid are such that a post-only venue with the levels of that *)
(* book takes them, and no two of a pass meet (compute_quotes and          *)
(* reward_quote_prices on the best levels Ladder caches).                  *)
PostOnly ==
  \A t \in Token, on \in QuotesOn :
    LET side == book[t].live.side
    IN  Valid(t) /\ side["Bid"].best = on.bid /\ side["Ask"].best = on.ask =>
          \A q \in on.quotes : Resting(q, Occupied(side["Bid"]), Occupied(side["Ask"]))
=============================================================================

