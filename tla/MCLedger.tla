------------------------------ MODULE MCLedger ------------------------------
(* Small instances of Ledger. *)
EXTENDS Ledger

\* quantities that do not divide one another, a price no size turns into whole cash
MCSizes == {2, 3}
MCPrices == {2}
=============================================================================
