---------------------------- MODULE MCCoordinator ----------------------------
(***************************************************************************)
(* Small instances of Coordinator.  Two markets; shape s1 comes in a plain *)
(* and a better-paying version of the same size, s2 fits beside it in the  *)
(* bankroll once but not twice, and one opportunity is over the edge       *)
(* ceiling or breaks the live gates.                                       *)
(***************************************************************************)
EXTENDS Coordinator, Functions, TLC

CONSTANTS m1, m2, s1, s2

MCMarket == {m1, m2}
MCShape == {s1, s2}

Mkt(a, b) == (m1 :> a) @@ (m2 :> b)
OppWith(s, net, a, b, legs, ok, buy) ==
  [fp |-> s, net |-> net, cost |-> a + b, maxLeg |-> IF a > b THEN a ELSE b, legs |-> legs,
   market |-> Mkt(a, b), plausible |-> ok, pureBuy |-> buy, minLegs |-> TRUE]

Plain  == OppWith(s1, 2, 1, 1, 2, TRUE, TRUE)
Better == OppWith(s1, 4, 1, 1, 2, TRUE, TRUE)
Other  == OppWith(s2, 1, 0, 2, 1, TRUE, TRUE)
Absurd == OppWith(s2, 1, 0, 1, 1, FALSE, TRUE)
Sell   == OppWith(s2, 1, 2, 0, 2, TRUE, FALSE)

MCEquity == {-1, 0, 1}

PaperOpps == {Plain, Better, Other, Absurd}
LiveOpps  == {Plain, Other, Sell}
AllOpps == LiveOpps \cup {Better}

Left(a, b) == [market |-> Mkt(a, b), total |-> a + b]
MCLeftover == {Left(0, 0), Left(1, 1), Left(0, 3)}
FewLeftover == {Left(1, 1), Left(0, 3)}
FallingEquity == {-1, 0}

\* cost and leftover totals are the sums over markets
ASSUME TotalsAssumption ==
  /\ \A o \in Opp : o.cost = FoldFunction(+, 0, o.market)
  /\ \A l \in Leftover : l.total = FoldFunction(+, 0, l.market)
=============================================================================
