------------------------------- MODULE Ladder -------------------------------
(***************************************************************************)
(* One side of a book (crates/core/src/book.rs): a quantity per tick and a *)
(* cache of the best level, kept by `Set' without looking at the whole     *)
(* array: a better level replaces it, and emptying it scans on from where  *)
(* it was.  Crossing checks and detectors read only the cache.             *)
(***************************************************************************)
EXTENDS Integers

CONSTANT Levels      \* ts.levels(): prices are the ticks strictly between 0 and it

ASSUME LevelsAssumption == Levels \in Nat

Price == 1..(Levels - 1)
NoPx == 0
Side == {"Bid", "Ask"}

LadderRecord == [lvls: [Price -> Nat], best: Price \cup {NoPx}]

NewLadder == [lvls |-> [p \in Price |-> 0], best |-> NoPx]

Improves(side, cand, cur) == IF side = "Bid" THEN cand > cur ELSE cand < cur

\* the price of S that no price of S improves on
BestIn(side, S) ==
  IF S = {} THEN NoPx ELSE CHOOSE p \in S : \A q \in S : ~Improves(side, q, p)

RescanFrom(lvls, side, from) ==
  BestIn(side, {p \in Price : lvls[p] > 0 /\ Improves(side, from, p)})

Set(l, side, px, qty) ==
  LET lvls == [l.lvls EXCEPT ![px] = qty]
  IN  [lvls |-> lvls,
       best |-> IF qty > 0
                THEN IF l.best = NoPx \/ Improves(side, px, l.best) THEN px ELSE l.best
                ELSE IF l.best = px THEN RescanFrom(lvls, side, px) ELSE l.best]

\* the reference: the best of all non-empty levels
Occupied(l) == {p \in Price : l.lvls[p] > 0}
BestTrue(l, side) == l.best = BestIn(side, Occupied(l))
=============================================================================
