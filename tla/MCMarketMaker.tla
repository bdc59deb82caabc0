--------------------------- MODULE MCMarketMaker ---------------------------
(***************************************************************************)
(* Both sides of one token, two prices, quotes as large as the cap.        *)
(***************************************************************************)
EXTENDS MarketMaker, TLC

CONSTANT yes

MCToken == {yes}
MCKey == {1, 2}
MCTokenOf == [k \in MCKey |-> yes]
MCSideOf == (1 :> "bid") @@ (2 :> "ask")
=============================================================================
