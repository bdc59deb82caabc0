------------------------------ MODULE Exposure ------------------------------
(***************************************************************************)
(* What the arbitrage pipeline promises, without its tasks, queues and     *)
(* loop: one basket at a time goes through reserve, execute, report and    *)
(* settle; its worst case counts against the bankroll from the admission   *)
(* to the settlement; the settlement replaces the worst case by exactly    *)
(* what the execution left behind; no basket is admitted under a stop.     *)
(* Coordinator implements it (ImplementsExposure there).                   *)
(***************************************************************************)
EXTENDS Integers

CONSTANTS
  Market,
  Basket,            \* what may be admitted: records with a cost, in all and per market
  NoBasket,
  Bankroll,
  Left,              \* the positions an execution of each basket may leave behind
  Nothing            \* leaving nothing behind

VARIABLES
  stage,             \* where the one basket is
  basket,            \* the basket, while one is past the admission
  left,              \* what it left behind, once known
  exposure,          \* worst case at risk: in all and per market
  stopped, latched   \* whether a stop is in force, and one that never goes away

vars == <<stage, basket, left, exposure, stopped, latched>>

Init ==
  /\ stage = "idle" /\ basket = NoBasket /\ left = Nothing
  /\ exposure = Nothing
  /\ stopped \in BOOLEAN /\ latched \in BOOLEAN /\ latched => stopped

\* stops come and go; a latched one stays
StopsMayChange ==
  /\ stopped' \in BOOLEAN /\ latched' \in BOOLEAN
  /\ latched => latched'
  /\ latched' => stopped'

Plus(e, b) == [total |-> e.total + b.total, market |-> [m \in Market |-> e.market[m] + b.market[m]]]
Minus(e, b) == [total |-> e.total - b.total, market |-> [m \in Market |-> e.market[m] - b.market[m]]]
WorstCase(b) == [total |-> b.cost, market |-> b.market]

Admit(b) ==
  /\ stage = "idle" /\ ~stopped
  /\ exposure.total + b.cost <= Bankroll
  /\ stage' = "admitted" /\ basket' = b /\ left' = Nothing
  /\ exposure' = Plus(exposure, WorstCase(b))
  /\ UNCHANGED <<stopped, latched>>

Execute ==
  /\ stage = "admitted" /\ stage' = "executing"
  /\ UNCHANGED <<basket, left, exposure, stopped, latched>>

Report ==
  /\ stage = "executing" /\ stage' = "reported"
  /\ left' \in Left[basket]
  /\ UNCHANGED <<basket, exposure, stopped, latched>>

\* the execution dies: nothing will be reported
Lose ==
  /\ stage = "executing" /\ stage' = "lost"
  /\ UNCHANGED <<basket, left, exposure, stopped, latched>>

Settle ==
  /\ stage \in {"reported", "lost"} /\ stage' = "idle"
  /\ exposure' = Plus(Minus(exposure, WorstCase(basket)), left)
  /\ basket' = NoBasket /\ left' = Nothing
  /\ StopsMayChange

StopChange ==
  /\ StopsMayChange
  /\ UNCHANGED <<stage, basket, left, exposure>>

Next ==
  \/ \E b \in Basket : Admit(b)
  \/ Execute \/ Report \/ Lose \/ Settle \/ StopChange

Spec == Init /\ [][Next]_vars
=============================================================================
