----------------------------- MODULE Inventory -----------------------------
(***************************************************************************)
(* One token's average-cost inventory (crates/risk/src/inventory.rs): a    *)
(* signed net, the signed cost of what is open, and what has been          *)
(* realized.  Money and shares are micro units; division truncates.        *)
(***************************************************************************)
EXTENDS Integers

Abs(x) == IF x < 0 THEN -x ELSE x

\* i128 division rounds toward zero (of a non-zero divisor)
Quot(a, b) ==
  IF (a < 0) = (b < 0) THEN Abs(a) \div Abs(b) ELSE -(Abs(a) \div Abs(b))

InventoryRecord == [net: Int, basis: Int, realized: Int]
Flat == [net |-> 0, basis |-> 0, realized |-> 0]

\* from flat or on the same side: the whole cash joins the basis
Opened(i, q, cash) ==
  [net |-> i.net + q, basis |-> i.basis - cash, realized |-> i.realized]

\* part or all of the open side is closed: its share of the basis is released
Reduced(i, q, cash) ==
  LET left == Quot(i.basis * (i.net + q), i.net)
  IN  [net |-> i.net + q, basis |-> left, realized |-> i.realized + (cash - (i.basis - left))]

\* the old side is closed, the rest opens the other: the cash is split by shares
Flipped(i, q, cash) ==
  LET close == Quot(cash * Abs(i.net), Abs(q))
  IN  [net |-> i.net + q, basis |-> -(cash - close), realized |-> i.realized + (close - i.basis)]

OnFill(i, q, cash) ==
  IF q = 0 THEN i
  ELSE IF i.net = 0 \/ (i.net > 0) = (q > 0) THEN Opened(i, q, cash)
  ELSE IF Abs(q) <= Abs(i.net) THEN Reduced(i, q, cash)
  ELSE Flipped(i, q, cash)

Seeded(net, basis) == [Flat EXCEPT !.net = net, !.basis = basis]
=============================================================================
