------------------------------- MODULE MCFeed -------------------------------
(***************************************************************************)
(* Two tokens over three ticks and an off-tick price.  The delta from Wide *)
(* to Low laid over a snapshot of High crosses it, and two moves to Low    *)
(* reach the off-tick threshold.                                           *)
(***************************************************************************)
EXTENDS QuotedFeed, TLC

CONSTANTS t1, t2

MCToken == {t1, t2}
OneToken == {t1}
Levelled(bids, asks) == "Bid" :> bids @@ "Ask" :> asks
Wide     == Levelled({1}, {3})
Low      == Levelled({1}, {2, 9})
High     == Levelled({1, 2}, {3})
Crossing == Levelled({2}, {1})
TwoTokens == t1 :> {Wide, Low, High} @@ t2 :> {Wide, High}
OneBook   == t1 :> {Wide, Low, High}

\* inventories below, at and above the cap, spreads and skews within a tick and beyond
MCNets == {-60, -7, 0, 7, 60}
MCCaps == {0, 20}
MCSpreads == {1, 5, 16}
MCSkews == {0, 3, 30}
MCBands == {0, 2, 7, 12}
MCDepths == 1..4
MCSlips == {0, 1}
=============================================================================
