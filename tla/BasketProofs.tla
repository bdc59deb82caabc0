---------------------------- MODULE BasketProofs ----------------------------
(***************************************************************************)
(* One basket, for any number of legs, any opportunities, either venue and *)
(* any store.                                                              *)
(*                                                                         *)
(* WriteAhead: an order the venue has seen has a row that says so,         *)
(* whenever the process dies.  It is not inductive alone: that a leg is    *)
(* only sent once its row says Submitted rests on where the task is.       *)
(* `AllSubmitted' ties the stage to the rows, and `InStep' says that       *)
(* memory and store can only differ after an abort, so that no later       *)
(* transition starts from a state the store has not seen.                  *)
(*                                                                         *)
(* The other invariants compare the three tapes, and a tape is a sum over  *)
(* the legs.  `Accounted' says that until the merges start the venue's is  *)
(* what was split and what the orders traded, the ledger's what is on      *)
(* record of the splits and what is booked; `Fits' that no order books     *)
(* more than it was told, is told more than was traded, trades more than   *)
(* was asked; `Sizes' that what is asked is bounded by the leg and by the  *)
(* surplus; `Course' which orders exist at which stage.  No sale is naked  *)
(* because a basket sells no more than it splits (SplitsCover), and no     *)
(* unwind sells more than was bought because some leg has the smallest     *)
(* fraction (MostConstrained).                                             *)
(***************************************************************************)
EXTENDS Basket, FiniteSums, TLAPS

Fields == {"mem", "row", "size", "sent", "done", "resp", "got", "booked"}

Shape ==
  /\ round \in Round /\ legs \subseteq Leg
  /\ DOMAIN order = Leg
  /\ \A l \in Leg : DOMAIN order[l] = Round
  /\ \A l \in Leg, r \in Round : DOMAIN order[l][r] = Fields

Unsent == {"None", "Draft", "Signed"}

InStep(o) == o.mem = o.row \/ (pc = "done" /\ CanTransition(o.mem, o.row))

SeenIsDurable(o) == o.sent => o.row \notin Unsent

AllSubmitted == pc = "submit" => \A l \in legs : order[l][round].mem = "Submitted"

IInv ==
  /\ Shape
  /\ \A l \in Leg, r \in Round : InStep(order[l][r]) /\ SeenIsDurable(order[l][r])
  /\ AllSubmitted

-----------------------------------------------------------------------------
(* A set of legs has a first one. *)
LEMMA FirstExists ==
  ASSUME NEW S, S \subseteq Leg, S # {}
  PROVE  First(S) \in S
<1>1. S \subseteq Nat
  BY BasketAssumption DEF BasketAssumption, Leg
<1>2. \E m \in S : \A k \in S : m <= k
  BY <1>1, LeastExists
<1>3. QED
  BY <1>2 DEF First

(* The order state machine never leads back to a state before submission,  *)
(* and Following walks the three write-ahead rows in order.                *)
LEMMA TransitionsForward ==
  ASSUME NEW from, NEW to, CanTransition(from, to), from \notin Unsent
  PROVE  to \notin Unsent
BY DEF CanTransition, Unsent, Terminal

-----------------------------------------------------------------------------
LEMMA InitIInv == Init => IInv
<1> SUFFICES ASSUME Init PROVE IInv
  OBVIOUS
<1>1. DOMAIN NoOrder = Fields /\ NoOrder.mem = NoOrder.row /\ ~NoOrder.sent
  BY DEF NoOrder, Fields
<1>2. \A l \in Leg, r \in Round : order[l][r] = NoOrder
  BY DEF Init
<1>3. Shape
  BY <1>1, <1>2 DEF Init, Shape, Round
<1>4. QED
  BY <1>1, <1>2, <1>3 DEF Init, IInv, InStep, SeenIsDurable, AllSubmitted

(* persist_transition keeps shape and step: the row goes first, and an     *)
(* error ends the basket.                                                  *)
LEMMA PersistKeeps ==
  ASSUME IInv, pc # "done", NEW l, NEW to, Persist(l, to)
  PROVE  /\ DOMAIN order' = Leg
         /\ \A k \in Leg : DOMAIN order'[k] = Round
         /\ \A k \in Leg, r \in Round :
              /\ DOMAIN order'[k][r] = Fields
              /\ InStep(order[k][r])' /\ SeenIsDurable(order[k][r])'
         /\ pc' \in {pc, "done"}
<1> DEFINE o == order[l][round]
           moved == [order EXCEPT ![l][round].mem = to, ![l][round].row = to]
           torn == [order EXCEPT ![l][round].row = to]
<1>1. /\ round \in Round /\ DOMAIN order = Leg /\ \A k \in Leg : DOMAIN order[k] = Round
      /\ \A k \in Leg, r \in Round :
           /\ DOMAIN order[k][r] = Fields
           /\ order[k][r].mem = order[k][r].row
           /\ order[k][r].sent => order[k][r].row \notin Unsent
  BY DEF IInv, Shape, InStep, SeenIsDurable
<1>2. CASE order' = order /\ pc' \in {pc, "done"}
  BY <1>1, <1>2 DEF InStep, SeenIsDurable
<1>3. CASE CanTransition(o.mem, to) /\ order' = moved /\ pc' = pc
  <2>1. /\ DOMAIN moved = Leg /\ \A k \in Leg : DOMAIN moved[k] = Round
        /\ \A k \in Leg, r \in Round :
             /\ DOMAIN moved[k][r] = Fields /\ moved[k][r].sent = order[k][r].sent
             /\ IF k = l /\ r = round THEN moved[k][r].mem = to /\ moved[k][r].row = to
                                      ELSE moved[k][r] = order[k][r]
    BY <1>1 DEF Fields
  <2>2. ASSUME NEW k \in Leg, NEW r \in Round
        PROVE  moved[k][r].mem = moved[k][r].row
               /\ (moved[k][r].sent => moved[k][r].row \notin Unsent)
    BY <1>1, <1>3, <2>1, TransitionsForward
  <2>3. \A k \in Leg, r \in Round : InStep(order[k][r])' /\ SeenIsDurable(order[k][r])'
    BY <1>3, <2>2 DEF InStep, SeenIsDurable
  <2>4. DOMAIN order' = Leg /\ \A k \in Leg : DOMAIN order'[k] = Round
    BY <1>3, <2>1
  <2>5. \A k \in Leg, r \in Round : DOMAIN order'[k][r] = Fields
    BY <1>3, <2>1
  <2>6. QED
    BY <1>3, <2>3, <2>4, <2>5
<1>4. CASE CanTransition(o.mem, to) /\ order' = torn /\ pc' = "done"
  <2>1. /\ DOMAIN torn = Leg /\ \A k \in Leg : DOMAIN torn[k] = Round
        /\ \A k \in Leg, r \in Round :
             /\ DOMAIN torn[k][r] = Fields
             /\ torn[k][r].sent = order[k][r].sent /\ torn[k][r].mem = order[k][r].mem
             /\ IF k = l /\ r = round THEN torn[k][r].row = to ELSE torn[k][r] = order[k][r]
    BY <1>1 DEF Fields
  <2>2. ASSUME NEW k \in Leg, NEW r \in Round
        PROVE  /\ torn[k][r].mem = torn[k][r].row \/ CanTransition(torn[k][r].mem, torn[k][r].row)
               /\ torn[k][r].sent => torn[k][r].row \notin Unsent
    BY <1>1, <1>4, <2>1, TransitionsForward
  <2>3. QED
    BY <1>4, <2>1, <2>2 DEF InStep, SeenIsDurable
<1>5. QED
  BY <1>2, <1>3, <1>4 DEF Persist, Abort

-----------------------------------------------------------------------------
(* The steps that touch no order. *)
LEMMA OrdersAlone ==
  ASSUME IInv, pc # "done", UNCHANGED <<round, legs, order>>, pc' # "submit"
  PROVE  IInv'
BY DEF IInv, Shape, InStep, SeenIsDurable, AllSubmitted

(* A transition of an order, made while the round is opened or closed.     *)
LEMMA PersistInv ==
  ASSUME IInv, pc \notin {"done", "submit"}, NEW l, NEW to, Persist(l, to),
         UNCHANGED <<round, legs>>
  PROVE  IInv'
<1>1. /\ DOMAIN order' = Leg /\ \A k \in Leg : DOMAIN order'[k] = Round
      /\ \A k \in Leg, r \in Round :
           DOMAIN order'[k][r] = Fields /\ InStep(order[k][r])' /\ SeenIsDurable(order[k][r])'
      /\ pc' \in {pc, "done"}
  BY PersistKeeps
<1>2. round' \in Round /\ legs' \subseteq Leg
  BY DEF IInv, Shape
<1>3. QED
  BY <1>1, <1>2 DEF IInv, Shape, AllSubmitted

(* A step that fills in sizes or answers, and sends only what is submitted.*)
LEMMA AnswersInv ==
  ASSUME IInv, pc # "done", round' \in Round, legs' \subseteq Leg,
         DOMAIN order' = Leg, \A k \in Leg : DOMAIN order'[k] = Round,
         \A k \in Leg, r \in Round :
           /\ DOMAIN order'[k][r] = Fields
           /\ order'[k][r].mem = order[k][r].mem /\ order'[k][r].row = order[k][r].row
           /\ order'[k][r].sent => order[k][r].sent \/ order[k][r].mem = "Submitted",
         AllSubmitted'
  PROVE  IInv'
<1>1. ASSUME NEW k \in Leg, NEW r \in Round
      PROVE  InStep(order[k][r])' /\ SeenIsDurable(order[k][r])'
  BY DEF IInv, InStep, SeenIsDurable, Unsent
<1>2. QED
  BY <1>1 DEF IInv, Shape

(* A round of repairs or of one unwind starts with orders not yet opened. *)
LEMMA NewRoundInv ==
  ASSUME IInv, pc # "done", NEW r \in Round, NEW L \in SUBSET Leg, NEW sizes,
         NewRound(r, L, sizes)
  PROVE  IInv'
<1>1. \A k \in Leg : order'[k] = IF k \in L THEN [order[k] EXCEPT ![r].size = sizes[k]]
                                            ELSE order[k]
  BY DEF NewRound
<1>2. DOMAIN order' = Leg /\ round' = r /\ legs' = L /\ pc' = "open"
  BY DEF NewRound
<1>3. /\ \A k \in Leg : DOMAIN order[k] = Round
      /\ \A k \in Leg, q \in Round : DOMAIN order[k][q] = Fields
  BY DEF IInv, Shape
<1>4. ASSUME NEW k \in Leg
      PROVE  /\ DOMAIN order'[k] = Round
             /\ \A q \in Round :
                  /\ DOMAIN order'[k][q] = Fields
                  /\ order'[k][q].mem = order[k][q].mem /\ order'[k][q].row = order[k][q].row
                  /\ order'[k][q].sent = order[k][q].sent
  <2>1. CASE k \in L
    <3>1. order'[k] = [order[k] EXCEPT ![r].size = sizes[k]]
      BY <1>1, <2>1
    <3>2. QED
      BY <1>3, <3>1 DEF Fields
  <2>2. CASE k \notin L
    BY <1>1, <1>3, <2>2
  <2>3. QED
    BY <2>1, <2>2
<1>5. QED
  BY <1>2, <1>4, AnswersInv DEF AllSubmitted

-----------------------------------------------------------------------------
LEMMA NextIInv == IInv /\ [Next]_vars => IInv'
<1> SUFFICES ASSUME IInv, [Next]_vars PROVE IInv'
  OBVIOUS
<1> /\ round \in Round /\ legs \subseteq Leg /\ DOMAIN order = Leg
    /\ \A k \in Leg : DOMAIN order[k] = Round
    /\ \A k \in Leg, r \in Round : DOMAIN order[k][r] = Fields
  BY DEF IInv, Shape
<1>1. CASE Start
  BY <1>1, OrdersAlone DEF Start
<1>2. CASE SplitVenue
  BY <1>2, OrdersAlone DEF SplitVenue
<1>3. CASE SplitsDone
  <2>1. /\ pc = "split" /\ pc' = "open" /\ UNCHANGED <<round, legs>>
        /\ order' = [k \in Leg |-> [order[k] EXCEPT !["main"].size = opp.qty[k]]]
    BY <1>3 DEF SplitsDone
  <2>2. ASSUME NEW k \in Leg
        PROVE  /\ DOMAIN order'[k] = Round
               /\ \A r \in Round :
                    /\ DOMAIN order'[k][r] = Fields
                    /\ order'[k][r].mem = order[k][r].mem /\ order'[k][r].row = order[k][r].row
                    /\ order'[k][r].sent = order[k][r].sent
    BY <2>1 DEF Fields
  <2>3. QED
    BY <2>1, <2>2, AnswersInv DEF AllSubmitted
<1>4. CASE ConversionRow
  BY <1>4, OrdersAlone DEF ConversionRow, Abort
<1>5. CASE OpenOrder
  <2>1. PICK l, to : Persist(l, to)
    BY <1>5 DEF OpenOrder
  <2>2. QED
    BY <1>5, <2>1, PersistInv DEF OpenOrder
<1>6. CASE Opened
  <2>1. /\ pc = "open" /\ pc' = "submit" /\ UNCHANGED <<round, legs, order>>
        /\ \A l \in legs : order[l][round].mem = "Submitted"
    BY <1>6 DEF Opened, Unopened
  <2>2. AllSubmitted'
    BY <2>1 DEF AllSubmitted
  <2>3. QED
    BY <2>1, <2>2, AnswersInv
<1>7. CASE PaperAnswer
  <2>1. PICK ans :
          /\ pc = "submit" /\ pc' = "close" /\ UNCHANGED <<round, legs>>
          /\ order' = [k \in Leg |->
               IF k \notin legs THEN order[k]
               ELSE [order[k] EXCEPT ![round] =
                       [@ EXCEPT !.sent = TRUE, !.done = ans[k].got,
                                 !.resp = ans[k].resp, !.got = ans[k].got]]]
    BY <1>7 DEF PaperAnswer
  <2>2. \A k \in legs : order[k][round].mem = "Submitted"
    BY <2>1 DEF IInv, AllSubmitted
  <2>3. ASSUME NEW k \in Leg
        PROVE  /\ DOMAIN order'[k] = Round
               /\ \A r \in Round :
                    /\ DOMAIN order'[k][r] = Fields
                    /\ order'[k][r].mem = order[k][r].mem /\ order'[k][r].row = order[k][r].row
                    /\ order'[k][r].sent => order[k][r].sent \/ order[k][r].mem = "Submitted"
    <3>1. CASE k \in legs
      <4>1. order'[k] = [order[k] EXCEPT ![round] =
                           [@ EXCEPT !.sent = TRUE, !.done = ans[k].got,
                                     !.resp = ans[k].resp, !.got = ans[k].got]]
        BY <2>1, <3>1
      <4>2. QED
        BY <2>2, <3>1, <4>1 DEF Fields
    <3>2. CASE k \notin legs
      BY <2>1, <3>2
    <3>3. QED
      BY <3>1, <3>2
  <2>4. QED
    BY <2>1, <2>3, AnswersInv DEF AllSubmitted
<1>8. CASE LiveSend
  <2> DEFINE l == First(Unanswered)
  <2>1. PICK q :
          /\ pc = "submit" /\ UNCHANGED <<pc, round, legs>>
          /\ order' = [order EXCEPT ![l][round].sent = TRUE, ![l][round].done = q]
    BY <1>8 DEF LiveSend
  <2>2. l \in legs
    <3>1. Unanswered \subseteq Leg /\ Unanswered \subseteq legs /\ Unanswered # {}
      BY <1>8 DEF LiveSend, Unanswered
    <3>2. QED
      BY <3>1, FirstExists
  <2>3. order[l][round].mem = "Submitted"
    BY <2>1, <2>2 DEF IInv, AllSubmitted
  <2> HIDE DEF l
  <2>4. /\ DOMAIN order' = Leg /\ \A k \in Leg : DOMAIN order'[k] = Round
        /\ \A k \in Leg, r \in Round :
             /\ DOMAIN order'[k][r] = Fields
             /\ order'[k][r].mem = order[k][r].mem /\ order'[k][r].row = order[k][r].row
             /\ order'[k][r].sent => order[k][r].sent \/ order[k][r].mem = "Submitted"
    BY <2>1, <2>3 DEF Fields
  <2>5. AllSubmitted'
    BY <2>1, <2>4 DEF IInv, AllSubmitted
  <2>6. QED
    BY <2>1, <2>4, <2>5, AnswersInv
<1>9. CASE LiveAnswer
  <2> DEFINE l == First(Unanswered)
  <2>1. PICK ans :
          /\ pc = "submit" /\ pc' \in {"close", "submit"} /\ UNCHANGED <<round, legs>>
          /\ order' = [order EXCEPT ![l][round].resp = ans.resp, ![l][round].got = ans.got]
    BY <1>9 DEF LiveAnswer
  <2> HIDE DEF l
  <2>2. /\ DOMAIN order' = Leg /\ \A k \in Leg : DOMAIN order'[k] = Round
        /\ \A k \in Leg, r \in Round :
             /\ DOMAIN order'[k][r] = Fields
             /\ order'[k][r].mem = order[k][r].mem /\ order'[k][r].row = order[k][r].row
             /\ order'[k][r].sent = order[k][r].sent
    BY <2>1 DEF Fields
  <2>3. AllSubmitted'
    BY <2>1, <2>2 DEF IInv, AllSubmitted
  <2>4. QED
    BY <2>1, <2>2, <2>3, AnswersInv
<1>10. CASE WindowExpires
  BY <1>10, OrdersAlone DEF WindowExpires
<1>11. CASE BookFill
  <2> DEFINE l == First(Unclosed)
  <2>1. CASE pc' = "done" /\ UNCHANGED order
    BY <1>11, <2>1, OrdersAlone DEF BookFill
  <2>2. ASSUME NEW q, order' = [order EXCEPT ![l][round].booked = @ + q], pc' = pc
        PROVE  IInv'
    <3>1. pc = "close" /\ UNCHANGED <<round, legs>>
      BY <1>11 DEF BookFill
    <3> HIDE DEF l
    <3>2. /\ DOMAIN order' = Leg /\ \A k \in Leg : DOMAIN order'[k] = Round
          /\ \A k \in Leg, r \in Round :
               /\ DOMAIN order'[k][r] = Fields
               /\ order'[k][r].mem = order[k][r].mem /\ order'[k][r].row = order[k][r].row
               /\ order'[k][r].sent = order[k][r].sent
      BY <2>2 DEF Fields
    <3>3. QED
      BY <2>2, <3>1, <3>2, AnswersInv DEF AllSubmitted
  <2>3. QED
    BY <1>11, <2>1, <2>2 DEF BookFill, Abort
<1>12. CASE CloseOrder
  <2>1. PICK l, to : Persist(l, to)
    BY <1>12 DEF CloseOrder
  <2>2. QED
    BY <1>12, <2>1, PersistInv DEF CloseOrder
<1>13. CASE ExpireOrder
  <2>1. PICK l, to : Persist(l, to)
    BY <1>13 DEF ExpireOrder
  <2>2. QED
    BY <1>13, <2>1, PersistInv DEF ExpireOrder
<1>14. CASE RoundEnds
  <2>1. pc' \in {"unwind", "settle", "repair"}
    BY <1>14 DEF RoundEnds
  <2>2. QED
    BY <1>14, <2>1, OrdersAlone DEF RoundEnds
<1>15. CASE StartRepair
  <2>1. CASE pc' = "unwind" /\ UNCHANGED <<round, legs, order>>
    BY <1>15, <2>1, OrdersAlone DEF StartRepair
  <2>2. ASSUME NEW L \in SUBSET Leg, NEW sizes, NewRound("repair", L, sizes)
        PROVE  IInv'
    BY <1>15, <2>2, NewRoundInv DEF StartRepair, Round
  <2>3. QED
    BY <1>15, <2>1, <2>2 DEF StartRepair
<1>16. CASE StartUnwind
  <2>1. CASE ToUnwind = {}
    BY <1>16, <2>1, OrdersAlone DEF StartUnwind
  <2>2. CASE ToUnwind # {}
    <3>1. First(ToUnwind) \in Leg
      <4>1. ToUnwind \subseteq Leg
        BY DEF ToUnwind
      <4>2. QED
        BY <2>2, <4>1, FirstExists
    <3>2. PICK L \in SUBSET Leg : \E sizes : NewRound("unwind", L, sizes)
      BY <1>16, <2>2, <3>1 DEF StartUnwind
    <3>3. QED
      BY <1>16, <3>2, NewRoundInv DEF StartUnwind, Round
  <2>3. QED
    BY <2>1, <2>2
<1>17. CASE MergeVenue
  BY <1>17, OrdersAlone DEF MergeVenue, Abort
<1>18. CASE Report
  BY <1>18, OrdersAlone DEF Report
<1>19. CASE UNCHANGED vars
  BY <1>19 DEF vars, IInv, Shape, InStep, SeenIsDurable, AllSubmitted
<1>20. QED
  BY <1>1, <1>2, <1>3, <1>4, <1>5, <1>6, <1>7, <1>8, <1>9, <1>10, <1>11, <1>12, <1>13,
     <1>14, <1>15, <1>16, <1>17, <1>18, <1>19 DEF Next, Step, Ended

(* persist_transition and open_order, crates/execution/src/lib.rs and      *)
(* basket.rs: whenever the process dies, every order the venue has seen    *)
(* has a durable row that says at least Submitted, and memory never says   *)
(* more than the store.                                                    *)
THEOREM WriteAheadHolds == Spec => []WriteAhead
<1>1. IInv => WriteAhead
  BY DEF IInv, InStep, SeenIsDurable, Unsent, WriteAhead
<1>2. QED
  BY <1>1, InitIInv, NextIInv, PTL DEF Spec

-----------------------------------------------------------------------------
(* Markets, legs and fractions.                                            *)

(* Every token belongs to one market. *)
LEMMA MarketFacts ==
  /\ \A t \in Token : MarketOf(t) \in Market /\ t \in {Pair[MarketOf(t)][1], Pair[MarketOf(t)][2]}
  /\ \A m \in Market : Pair[m][1] \in Token /\ Pair[m][2] \in Token /\ Pair[m][1] # Pair[m][2]
  /\ \A t \in Token, m \in Market : t \in {Pair[m][1], Pair[m][2]} <=> MarketOf(t) = m
<1>1. ASSUME NEW t \in Token
      PROVE  MarketOf(t) \in Market /\ t \in {Pair[MarketOf(t)][1], Pair[MarketOf(t)][2]}
  <2>1. \E m \in Market : t \in {Pair[m][1], Pair[m][2]}
    BY BasketAssumption DEF BasketAssumption
  <2>2. QED
    BY <2>1 DEF MarketOf
<1>2. \A m \in Market : Pair[m][1] \in Token /\ Pair[m][2] \in Token /\ Pair[m][1] # Pair[m][2]
  BY BasketAssumption DEF BasketAssumption
<1>3. ASSUME NEW t \in Token, NEW m \in Market, t \in {Pair[m][1], Pair[m][2]}
      PROVE  MarketOf(t) = m
  <2>1. m # MarketOf(t) =>
          {Pair[m][1], Pair[m][2]} \cap {Pair[MarketOf(t)][1], Pair[MarketOf(t)][2]} = {}
    BY <1>1, BasketAssumption DEF BasketAssumption
  <2>2. QED
    BY <1>1, <1>3, <2>1
<1>4. QED
  BY <1>1, <1>2, <1>3

LEMMA LegFacts == IsFiniteSet(Leg) /\ Leg \subseteq Nat \ {0} /\ 1 \in Leg
<1>1. Legs \in Nat \ {0}
  BY BasketAssumption DEF BasketAssumption
<1>2. QED
  BY <1>1, FS_Interval DEF Leg

LEMMA OppFacts ==
  ASSUME NEW o \in Opp
  PROVE  /\ Covered(o)
         /\ \A l \in Leg : o.token[l] \in Token /\ o.buy[l] \in BOOLEAN /\ o.qty[l] \in Nat \ {0}
         /\ \A m \in Market : o.split[m] \in Nat
<1>1. o \in OppRecord /\ Covered(o)
  BY BasketAssumption DEF BasketAssumption
<1>2. QED
  BY <1>1 DEF OppRecord

-----------------------------------------------------------------------------
(* Fractions are ordered as they are in the code, by cross products.       *)
LEMMA Fractions ==
  ASSUME NEW a \in Nat, NEW c \in Nat, NEW e \in Nat,
         NEW b \in Nat \ {0}, NEW d \in Nat \ {0}, NEW f \in Nat \ {0},
         a * d <= c * b, c * f <= e * d
  PROVE  a * f <= e * b
<1>1. (a * f) * d <= (e * b) * d
  <2>1. (a * d) * f <= (c * b) * f
    BY SMT
  <2>2. (c * f) * b <= (e * d) * b
    BY SMT
  <2>3. (a * d) * f = (a * f) * d /\ (c * b) * f = (c * f) * b /\ (e * d) * b = (e * b) * d
    BY SMT
  <2>4. a * d \in Nat /\ c * b \in Nat /\ c * f \in Nat /\ e * d \in Nat /\ a * f \in Nat /\ e * b \in Nat
    BY SMT
  <2> QED
    BY <2>1, <2>2, <2>3, <2>4
<1>2. QED
  <2>1. a * f \in Nat /\ e * b \in Nat
    BY SMT
  <2>2. SUFFICES ASSUME e * b + 1 <= a * f PROVE FALSE
    BY <2>1
  <2> DEFINE x == a * f
             y == e * b
  <2> HIDE DEF x, y
  <2>3. (y + 1) * d <= x * d
    BY <2>1, <2>2 DEF x, y
  <2>4. (y + 1) * d = y * d + d /\ y * d \in Nat
    BY <2>1 DEF y
  <2>5. x * d <= y * d
    BY <1>1 DEF x, y
  <2>6. x * d \in Nat
    BY <2>1 DEF x
  <2> QED
    BY ONLY <2>3, <2>4, <2>5, <2>6

(* Some leg has the smallest filled fraction.                              *)
LEMMA MostConstrained ==
  ASSUME NEW f \in [Leg -> Nat], NEW q \in [Leg -> Nat \ {0}]
  PROVE  \E j \in Leg : \A k \in Leg : f[j] * q[k] <= f[k] * q[j]
<1> DEFINE Upto(n) == 1..n
           Bad == {n \in Leg : ~ \E j \in Upto(n) : \A k \in Upto(n) : f[j] * q[k] <= f[k] * q[j]}
<1>1. Legs \in Nat \ {0} /\ Leg = 1..Legs /\ Leg \subseteq Nat \ {0}
  BY BasketAssumption, LegFacts DEF BasketAssumption, Leg
<1>2. SUFFICES ASSUME Bad # {} PROVE FALSE
  <2>1. Legs \in Leg
    BY <1>1
  <2>2. Legs \notin Bad => \E j \in Upto(Legs) : \A k \in Upto(Legs) : f[j] * q[k] <= f[k] * q[j]
    BY <2>1
  <2> QED
    BY <1>1, <2>1, <2>2
<1>3. PICK n \in Bad : \A k \in Bad : n <= k
  <2>1. Bad \subseteq Nat
    BY <1>1
  <2> HIDE DEF Bad
  <2> QED
    BY <1>2, <2>1, LeastExists
<1>4. n \in Leg /\ ~ \E j \in Upto(n) : \A k \in Upto(n) : f[j] * q[k] <= f[k] * q[j]
  BY <1>3
<1>5. CASE n = 1
  <2>1. Upto(n) = {1} /\ 1 \in Leg
    BY <1>1, <1>5
  <2>2. f[1] * q[1] <= f[1] * q[1]
    BY <2>1
  <2> QED
    BY <1>4, <2>1, <2>2
<1>6. CASE n # 1
  <2>1. n - 1 \in Leg /\ n - 1 \notin Bad /\ Upto(n) = Upto(n - 1) \cup {n} /\ Upto(n) \subseteq Leg
    <3>1. n - 1 \in Leg /\ Upto(n) = Upto(n - 1) \cup {n} /\ Upto(n) \subseteq Leg
      BY <1>1, <1>4, <1>6
    <3>2. n - 1 \notin Bad
      <4>1. ~(n <= n - 1)
        BY <1>1, <1>4
      <4> HIDE DEF Bad
      <4> QED
        BY <1>3, <4>1
    <3> QED
      BY <3>1, <3>2
  <2>2. PICK j \in Upto(n - 1) : \A k \in Upto(n - 1) : f[j] * q[k] <= f[k] * q[j]
    BY <2>1
  <2>3. j \in Leg /\ f[j] \in Nat /\ q[j] \in Nat \ {0} /\ f[n] \in Nat /\ q[n] \in Nat \ {0}
    BY <1>4, <2>1, <2>2
  <2> HIDE DEF Upto, Bad
  <2>4. CASE f[j] * q[n] <= f[n] * q[j]
    BY <1>4, <2>1, <2>2, <2>4
  <2>5. CASE ~(f[j] * q[n] <= f[n] * q[j])
    <3>1. f[n] * q[j] <= f[j] * q[n]
      <4>1. f[j] * q[n] \in Nat /\ f[n] * q[j] \in Nat
        BY <2>3
      <4> QED
        BY <2>5, <4>1
    <3>2. ASSUME NEW k \in Upto(n - 1) PROVE f[n] * q[k] <= f[k] * q[n]
      <4>1. k \in Leg /\ f[k] \in Nat /\ q[k] \in Nat \ {0} /\ f[j] * q[k] <= f[k] * q[j]
        BY <2>1, <2>2
      <4> QED
        BY <2>3, <3>1, <4>1, Fractions
    <3>3. f[n] * q[n] <= f[n] * q[n]
      BY <2>3
    <3>4. n \in Upto(n) /\ \A k \in Upto(n) : f[n] * q[k] <= f[k] * q[n]
      BY <2>1, <3>2, <3>3
    <3> QED
      BY <1>4, <3>4
  <2> QED
    BY <2>4, <2>5
<1>7. QED
  BY <1>5, <1>6

(* surpluses: what is above the smallest fraction is part of what filled.  *)
LEMMA SurplusFits ==
  ASSUME opp \in Opp, filled \in [Leg -> Nat], NEW l \in Leg
  PROVE  Surplus(l) \in Nat /\ Surplus(l) <= filled[l]
<1>1. opp.qty \in [Leg -> Nat \ {0}]
  <2>1. opp \in OppRecord
    BY BasketAssumption DEF BasketAssumption
  <2> QED
    BY <2>1 DEF OppRecord
<1> DEFINE P(j) == \A k \in Leg : filled[j] * opp.qty[k] <= filled[k] * opp.qty[j]
           j == CHOOSE i \in Leg : P(i)
           target == (opp.qty[l] * filled[j]) \div opp.qty[j]
<1>2. j \in Leg
  <2>1. \E i \in Leg : P(i)
    BY <1>1, MostConstrained
  <2> HIDE DEF P
  <2> QED
    BY <2>1
<1>3. target \in Nat
  <2>1. opp.qty[l] \in Nat /\ filled[j] \in Nat /\ opp.qty[j] \in Nat \ {0}
    BY <1>1, <1>2
  <2> HIDE DEF j
  <2>2. opp.qty[l] * filled[j] \in Nat
    BY <2>1
  <2> DEFINE a == opp.qty[l] * filled[j]
             b == opp.qty[j]
  <2> HIDE DEF a, b
  <2>3. a \in Nat /\ b \in Nat \ {0}
    BY <2>1, <2>2 DEF a, b
  <2>4. a \div b \in Nat
    BY ONLY <2>3, SMT
  <2> QED
    BY <2>4 DEF a, b
<1>4. Surplus(l) = IF filled[l] > target THEN filled[l] - target ELSE 0
  BY DEF Surplus
<1> HIDE DEF target
<1>5. filled[l] \in Nat
  OBVIOUS
<1>6. QED
  BY <1>3, <1>4, <1>5

-----------------------------------------------------------------------------
(* The invariant behind the report: `Truth' is what WithinMeans,           *)
(* ReportIsTruth and ReportAsAssumed rest on.                              *)

\* an order may change only while its round runs
Active(l, r) == pc \in {"open", "submit", "close", "expire"} /\ r = round /\ l \in legs

Resting(o) == o.mem \in Terminal \cup {"None"}

\* nothing is booked that was not reported, nor reported that was not traded
Fits(o) ==
  /\ o.booked <= o.got /\ o.got <= o.done /\ o.done <= o.size
  /\ ~live => o.done = o.got
  /\ ~o.sent => o.done = 0
  /\ o.mem \in Unsent => o.done = 0
  /\ o.mem = "Submitted" => o.booked = 0
  /\ o.resp # "ok" => o.got = 0
  /\ o.mem \in {"PartFilled", "Filled", "Cancelled"} => o.booked = o.got
  /\ o.mem \in {"Rejected", "Expired"} => o.booked = 0 /\ (~live => o.done = 0)

Counted(o) == IF o.mem \in Terminal THEN o.booked ELSE 0

\* a repair asks for what is missing, an unwind for the surplus
Sizes(l) ==
  /\ order[l]["main"].size <= opp.qty[l]
  /\ order[l]["repair"].size + order[l]["main"].booked <= opp.qty[l]
  /\ order[l]["unwind"].size \in {0, Surplus(l)}
  /\ order[l]["unwind"].size # 0 => opp.buy[l]
  /\ filled[l] = Counted(order[l]["main"]) + Counted(order[l]["repair"])

Orders ==
  /\ \A l \in Leg : Sizes(l) /\ \A r \in Round : Fits(order[l][r])
  /\ outcome # "Err" => \A l \in Leg, r \in Round :
       order[l][r].mem = order[l][r].row /\ (Active(l, r) \/ Resting(order[l][r]))

NotYet(l, r) == order[l][r].mem = "None" /\ order[l][r].size = 0
Early == pc \in {"start", "split"} \/ (pc = "row" /\ conv.units > 0)
Merging == pc \in {"settle", "done"} \/ (pc = "row" /\ conv.units < 0)

Converting ==
  /\ conv.market \in Market /\ conv.units \in Int
  /\ \/ /\ conv.units > 0 /\ conv.units = opp.split[conv.market] /\ conv.market \notin todo
     \/ /\ conv.units < 0 /\ conv.units = -Sets(conv.market) /\ ~live

Course ==
  /\ pc = "start" => \A t \in Token : hold[t] = 0 /\ chain[t] = 0
  /\ round = "main" => \A l \in Leg : NotYet(l, "repair")
  /\ round # "unwind" => \A l \in Leg : NotYet(l, "unwind")
  /\ pc = "repair" => round = "main"
  /\ Early => round = "main" /\ legs = Leg /\ \A l \in Leg, r \in Round : order[l][r] = NoOrder
  /\ ~Early /\ outcome \notin {"Err", "RejectedUnhedged"} => todo = {}
  /\ pc = "open" \/ (~live /\ pc \in {"submit", "expire"}) =>
       \A l \in legs : order[l][round].done = 0
  /\ pc = "expire" => /\ round # "unwind"
                      /\ \A l \in legs : order[l][round].mem \in {"Submitted", "Expired"}
  /\ pc = "row" => Converting
  /\ live => PureBuy(opp)
  /\ \A m \in todo : opp.split[m] > 0
  /\ round = "main" /\ errors > 0 /\ outcome # "Err" =>
       \E l \in Leg : order[l]["main"].mem = "Rejected"
  /\ outcome # "none" => Merging
  /\ outcome \in {"Err", "RejectedUnhedged"} => pc = "done"

Net(l, m, r, u) == IF opp.buy[l] THEN m + r - u ELSE -m - r - u

BookedOn(ord, t) == [l \in Leg |-> IF opp.token[l] # t THEN 0
  ELSE Net(l, ord[l]["main"].booked, ord[l]["repair"].booked, ord[l]["unwind"].booked)]
DoneOn(ord, t) == [l \in Leg |-> IF opp.token[l] # t THEN 0
  ELSE Net(l, ord[l]["main"].done, ord[l]["repair"].done, ord[l]["unwind"].done)]

\* what the splits made of t: on the venue, and in the ledger
Made(t) == IF MarketOf(t) \in todo THEN 0 ELSE opp.split[MarketOf(t)]
Recorded(t) == IF pc = "row" /\ conv.market = MarketOf(t) THEN 0 ELSE Made(t)

Accounted == ~Merging => \A t \in Token :
  /\ hold[t] = Recorded(t) + Total(BookedOn(order, t), Leg)
  /\ chain[t] = Made(t) + Total(DoneOn(order, t), Leg)

\* all that a paper venue traded is in the ledger once trading is over
Agreed == ~live /\ Merging /\ outcome # "Err" =>
  chain = IF pc = "row" THEN Converted(hold, conv.market, conv.units) ELSE hold

Explained(t) == hold[t] > 0 =>
  \/ opp.split[MarketOf(t)] > 0
  \/ \E l \in Leg : opp.buy[l] /\ opp.token[l] = t

Tapes ==
  /\ Accounted /\ Agreed
  /\ outcome # "Err" => durable = hold
  /\ \A t \in Token : chain[t] >= 0 /\ Explained(t)

Outcomes ==
  /\ outcome = "FilledClean" => errors = 0
  /\ outcome \in {"FilledClean", "Repaired"} => Complete
  /\ outcome \in {"NoFill", "RejectedUnhedged"} => \A t \in Token : hold[t] = 0

Truth == TypeOK /\ Orders /\ Course /\ Tapes /\ Outcomes
Whole == IInv /\ Truth

\* the least a leg may add to t
Low(t) == [l \in Leg |-> IF opp.token[l] = t /\ ~opp.buy[l] THEN -opp.qty[l] ELSE 0]

(* What a basket sells it has split. *)
LEMMA SplitsCover ==
  ASSUME opp \in Opp, NEW t \in Token, NEW f,
         \A l \in Leg : f[l] \in Int /\ Low(t)[l] <= f[l]
  PROVE  opp.split[MarketOf(t)] + Total(f, Leg) >= 0
<1> DEFINE S == {l \in Leg : ~opp.buy[l] /\ opp.token[l] = t}
           w == [l \in Leg |-> IF l \in S THEN opp.qty[l] ELSE 0]
<1>1. /\ IsFiniteSet(Leg) /\ S \in SUBSET Leg /\ IsFiniteSet(S)
      /\ \A l \in Leg : opp.qty[l] \in Int /\ opp.qty[l] \in Nat
      /\ opp.split[MarketOf(t)] \in Nat
  <2>1. IsFiniteSet(Leg) /\ S \in SUBSET Leg
    BY LegFacts
  <2>2. IsFiniteSet(S)
    BY <2>1, FS_Subset
  <2> QED
    BY <2>1, <2>2, OppFacts, MarketFacts
<1>2. Total(opp.qty, S) <= opp.split[MarketOf(t)]
  <2>1. Covered(opp)
    BY OppFacts
  <2>2. MapThenSumSet(LAMBDA l : opp.qty[l], S) <= opp.split[MarketOf(t)]
    BY <2>1 DEF Covered
  <2> QED
    BY <2>2 DEF Total
<1>3. Total(w, Leg) = Total(w, S)
  BY <1>1, TotalSupport
<1>4. Total(w, S) = Total(opp.qty, S)
  <2>1. \A l \in S : w[l] = opp.qty[l]
    OBVIOUS
  <2> HIDE DEF w, S
  <2> QED
    BY <1>1, <2>1, TotalAgree
<1>5. Total(Low(t), Leg) = -Total(w, Leg)
  <2>1. \A l \in Leg : Low(t)[l] \in Int /\ w[l] \in Int /\ Low(t)[l] = -w[l]
    <3> SUFFICES ASSUME NEW l \in Leg PROVE Low(t)[l] \in Int /\ w[l] \in Int /\ Low(t)[l] = -w[l]
      OBVIOUS
    <3>1. CASE l \in S
      BY <1>1, <3>1 DEF Low
    <3>2. CASE l \notin S
      <4>1. PICK z \in Int : z = 0 /\ -z = z
        OBVIOUS
      <4> QED
        BY <3>2, <4>1 DEF Low
    <3> QED
      BY <3>1, <3>2
  <2> HIDE DEF w
  <2> QED
    BY <1>1, <2>1, TotalMinus
<1>6. Total(Low(t), Leg) <= Total(f, Leg)
  <2>1. \A l \in Leg : Low(t)[l] \in Int
    BY <1>1 DEF Low
  <2> QED
    BY <1>1, <2>1, TotalLess
<1>7. Total(f, Leg) \in Int /\ Total(opp.qty, S) \in Int
  <2> HIDE DEF S
  <2> QED
    BY <1>1, TotalType
<1> HIDE DEF w, S
<1>8. QED
  BY <1>1, <1>2, <1>3, <1>4, <1>5, <1>6, <1>7

LEMMA Records ==
  ASSUME TypeOK
  PROVE  /\ DOMAIN order = Leg /\ \A l \in Leg : DOMAIN order[l] = Round
         /\ \A l \in Leg, r \in Round :
              /\ order[l][r] \in OrderRecord /\ DOMAIN order[l][r] = Fields
              /\ order[l][r].size \in Nat /\ order[l][r].done \in Nat
              /\ order[l][r].got \in Nat /\ order[l][r].booked \in Nat
              /\ order[l][r].mem \in OrderState \cup {"None"}
              /\ order[l][r].sent \in BOOLEAN
         /\ \A l \in Leg : filled[l] \in Nat
         /\ \A t \in Token : hold[t] \in Nat /\ chain[t] \in Int /\ durable[t] \in Int
         /\ "main" \in Round /\ "repair" \in Round /\ "unwind" \in Round
BY DEF TypeOK, OrderRecord, Fields, Round

(* Surplus, what filled and what was asked, leg by leg. *)
LEMMA Bounds ==
  ASSUME TypeOK, Orders, Course, NEW l \in Leg
  PROVE  /\ filled[l] \in Nat /\ opp.qty[l] \in Nat \ {0} /\ filled[l] <= opp.qty[l]
         /\ Surplus(l) \in Nat /\ Surplus(l) <= filled[l]
         /\ filled[l] <= order[l]["main"].booked + order[l]["repair"].booked
         /\ order[l]["unwind"].done <= Surplus(l)
         /\ ~opp.buy[l] => order[l]["unwind"].done = 0
         /\ order[l]["main"].got + order[l]["repair"].got <= opp.qty[l]
              \/ (round # "main" /\ order[l]["main"].booked + order[l]["repair"].got <= opp.qty[l])
<1>1. /\ \A r \in Round : Fits(order[l][r]) /\ order[l][r].size \in Nat /\ order[l][r].done \in Nat
              /\ order[l][r].got \in Nat /\ order[l][r].booked \in Nat
      /\ "main" \in Round /\ "repair" \in Round /\ "unwind" \in Round
      /\ Sizes(l) /\ filled[l] \in Nat
  BY Records DEF Orders
<1>2. opp.qty[l] \in Nat \ {0} /\ Surplus(l) \in Nat /\ Surplus(l) <= filled[l]
  BY OppFacts, SurplusFits DEF TypeOK
<1>3. filled[l] <= order[l]["main"].booked + order[l]["repair"].booked
  BY <1>1 DEF Sizes, Counted
<1>4. order[l]["main"].booked + order[l]["repair"].got <= opp.qty[l]
  BY <1>1, <1>2 DEF Sizes, Fits
<1>5. filled[l] <= opp.qty[l]
  BY <1>1, <1>2, <1>3, <1>4 DEF Fits
<1>6. order[l]["unwind"].done <= Surplus(l) /\ (~opp.buy[l] => order[l]["unwind"].done = 0)
  BY <1>1, <1>2 DEF Sizes, Fits
<1>7. round = "main" => order[l]["repair"].got = 0 /\ order[l]["main"].got <= opp.qty[l]
  BY <1>1, <1>2 DEF Sizes, Fits, Course, NotYet
<1>8. QED
  BY <1>1, <1>2, <1>3, <1>4, <1>5, <1>6, <1>7

(* A leg never sells more than it was meant to, nor unwinds more than it got.*)
LEMMA DoneFits ==
  ASSUME TypeOK, Orders, Course, outcome # "Err", NEW l \in Leg, NEW t \in Token
  PROVE  DoneOn(order, t)[l] \in Int /\ Low(t)[l] <= DoneOn(order, t)[l]
<1> DEFINE m == order[l]["main"]
           r == order[l]["repair"]
           u == order[l]["unwind"]
<1>1. /\ \A o \in {m, r, u} : /\ Fits(o) /\ o.size \in Nat /\ o.done \in Nat
                              /\ o.got \in Nat /\ o.booked \in Nat
      /\ "main" \in Round
  BY Records DEF Orders
<1>2. /\ opp.buy[l] \in BOOLEAN /\ live \in BOOLEAN /\ opp.qty[l] \in Nat
      /\ filled[l] \in Nat /\ Surplus(l) \in Nat /\ Surplus(l) <= filled[l]
      /\ filled[l] <= m.booked + r.booked /\ u.done <= Surplus(l)
      /\ ~opp.buy[l] => u.done = 0
      /\ (m.got + r.got <= opp.qty[l] \/ (round # "main" /\ m.booked + r.got <= opp.qty[l]))
  BY Bounds, OppFacts DEF TypeOK
<1>3. ~opp.buy[l] => m.done + r.done <= opp.qty[l]
  <2> SUFFICES ASSUME ~opp.buy[l] PROVE m.done + r.done <= opp.qty[l]
    OBVIOUS
  <2>1. ~live
    BY DEF Course, PureBuy
  <2>2. m.done = m.got /\ r.done = r.got
    BY <1>1, <2>1 DEF Fits
  <2>3. round # "main" => m.done = m.booked
    <3> SUFFICES ASSUME round # "main" PROVE m.done = m.booked
      OBVIOUS
    <3>1. Resting(m)
      BY <1>1 DEF Orders, Active
    <3> QED
      BY <1>1, <2>1, <2>2, <3>1 DEF Resting, Fits, Terminal, Unsent
  <2> HIDE DEF m, r, u
  <2> QED
    BY <1>1, <1>2, <2>2, <2>3
<1>4. DoneOn(order, t)[l] =
        IF opp.token[l] # t THEN 0 ELSE IF opp.buy[l] THEN m.done + r.done - u.done
                                                      ELSE -m.done - r.done - u.done
  BY DEF DoneOn, Net
<1>5. m.booked <= m.done /\ r.booked <= r.done
  BY <1>1 DEF Fits
<1>6. Low(t)[l] = IF opp.token[l] = t /\ ~opp.buy[l] THEN -opp.qty[l] ELSE 0
  BY DEF Low
<1> HIDE DEF m, r, u
<1>7. CASE opp.token[l] # t
  BY <1>4, <1>6, <1>7
<1>8. CASE opp.token[l] = t /\ opp.buy[l]
  BY <1>1, <1>2, <1>4, <1>5, <1>6, <1>8
<1>9. CASE opp.token[l] = t /\ ~opp.buy[l]
  BY <1>1, <1>2, <1>3, <1>4, <1>6, <1>9
<1>10. QED
  BY <1>2, <1>7, <1>8, <1>9

(* The venue never sells a token it does not hold. *)
LEMMA ChainCovered ==
  TypeOK /\ Orders /\ Course /\ Accounted /\ todo = {} /\ ~Merging /\ outcome # "Err"
    => \A t \in Token : chain[t] >= 0
<1> SUFFICES ASSUME TypeOK, Orders, Course, Accounted, todo = {}, ~Merging, outcome # "Err", NEW t \in Token
             PROVE  chain[t] >= 0
  OBVIOUS
<1>1. opp.split[MarketOf(t)] + Total(DoneOn(order, t), Leg) >= 0
  BY DoneFits, SplitsCover DEF TypeOK
<1>2. chain[t] = opp.split[MarketOf(t)] + Total(DoneOn(order, t), Leg)
  BY DEF Accounted, Made
<1>3. QED
  BY <1>1, <1>2

LEMMA ChainCoveredNext ==
  (TypeOK /\ Orders /\ Course /\ Accounted /\ todo = {} /\ ~Merging /\ outcome # "Err")'
    => (\A t \in Token : chain[t] >= 0)'
BY ChainCovered, PTL

(* Nor does the ledger: what an answered order has still to book is there. *)
LEMMA SaleCovered ==
  ASSUME TypeOK, Orders, Course, Accounted, pc = "close", NEW l \in legs,
         ~(round # "unwind" /\ opp.buy[l])
  PROVE  order[l][round].got - order[l][round].booked <= hold[opp.token[l]]
<1> DEFINE t == opp.token[l]
           k == order[l][round].got - order[l][round].booked
           f == BookedOn(order, t)
           g == [f EXCEPT ![l] = @ - k]
<1>1. /\ l \in Leg /\ round \in Round /\ opp \in Opp /\ t \in Token /\ k \in Int
      /\ \A j \in Leg : opp.buy[j] \in BOOLEAN /\ opp.qty[j] \in Nat
  BY Records, OppFacts DEF TypeOK
<1>2. ASSUME NEW j \in Leg PROVE f[j] \in Int /\ g[j] \in Int /\ Low(t)[j] <= g[j]
  <2> DEFINE m == order[j]["main"]
             r == order[j]["repair"]
             u == order[j]["unwind"]
  <2>1. /\ \A o \in {m, r, u} : /\ Fits(o) /\ o.done \in Nat /\ o.size \in Nat
                                /\ o.got \in Nat /\ o.booked \in Nat
    BY Records DEF Orders
  <2>2. /\ filled[j] \in Nat /\ Surplus(j) \in Nat /\ Surplus(j) <= filled[j]
        /\ filled[j] <= m.booked + r.booked /\ u.done <= Surplus(j)
        /\ ~opp.buy[j] => u.done = 0
        /\ m.got + r.got <= opp.qty[j] \/ (round # "main" /\ m.booked + r.got <= opp.qty[j])
    BY Bounds
  <2>3. \A o \in {m, r, u} : o.booked <= o.got /\ o.got <= o.done
    BY <2>1 DEF Fits
  <2>4. f[j] = IF opp.token[j] # t THEN 0 ELSE IF opp.buy[j] THEN m.booked + r.booked - u.booked
                                               ELSE -m.booked - r.booked - u.booked
    BY DEF BookedOn, Net
  <2>5. /\ f \in [Leg -> Int]
    <3>1. ASSUME NEW i \in Leg PROVE f[i] \in Int
      BY <1>1, Records DEF BookedOn, Net
    <3> QED
      BY <3>1 DEF BookedOn
  <2>6. g[j] = IF j = l THEN f[j] - k ELSE f[j]
    BY <1>1, <2>5
  <2>7. Low(t)[j] = IF opp.token[j] = t /\ ~opp.buy[j] THEN -opp.qty[j] ELSE 0
    BY DEF Low
  <2>8. j = l => k = IF round = "main" THEN m.got - m.booked
                     ELSE IF round = "repair" THEN r.got - r.booked ELSE u.got - u.booked
    BY <1>1 DEF Round
  <2>9. j = l => opp.token[j] = t /\ (opp.buy[j] => round = "unwind")
    BY <1>1
  <2>10. f[j] \in Int /\ g[j] \in Int
    BY <1>1, <2>5, <2>6
  <2> HIDE DEF m, r, u, f, g, k, t
  <2>11. CASE j # l
    BY <1>1, <2>1, <2>2, <2>3, <2>4, <2>6, <2>7, <2>11
  <2>12. CASE j = l /\ opp.buy[j]
    BY <1>1, <2>1, <2>2, <2>3, <2>4, <2>6, <2>7, <2>8, <2>9, <2>12
  <2>13. CASE j = l /\ ~opp.buy[j]
    BY <1>1, <2>1, <2>2, <2>3, <2>4, <2>6, <2>7, <2>8, <2>9, <2>13
  <2> QED
    BY <1>1, <2>10, <2>11, <2>12, <2>13
<1>3. opp.split[MarketOf(t)] + Total(g, Leg) >= 0
  <2> HIDE DEF g
  <2> QED
    BY <1>1, <1>2, SplitsCover
<1>4. Total(g, Leg) = Total(f, Leg) - k
  <2>1. \A j \in Leg \ {l} : f[j] = g[j]
    BY DEF BookedOn
  <2>2. g[l] = f[l] - k
    BY <1>1 DEF BookedOn
  <2> HIDE DEF f, g, k
  <2>3. Total(g, Leg) = Total(f, Leg) - f[l] + g[l]
    BY <1>1, <1>2, <2>1, LegFacts, TotalChange
  <2>4. Total(f, Leg) \in Int /\ f[l] \in Int
    BY <1>1, <1>2, LegFacts, TotalType
  <2> QED
    BY <1>1, <2>2, <2>3, <2>4
<1>5. hold[t] = opp.split[MarketOf(t)] + Total(f, Leg)
  <2>1. ~Merging /\ ~Early /\ outcome = "none"
    BY DEF Merging, Early, Course
  <2>2. todo = {}
    BY <2>1 DEF Course
  <2> QED
    BY <1>1, <2>1, <2>2 DEF Accounted, Recorded, Made
<1>6. Total(f, Leg) \in Int /\ opp.split[MarketOf(t)] \in Int
  <2>1. Total(f, Leg) \in Int
    <3> HIDE DEF f, g, k, t
    <3> QED
      BY <1>2, LegFacts, TotalType
  <2>2. opp.split[MarketOf(t)] \in Nat
    BY <1>1, OppFacts, MarketFacts
  <2> QED
    BY <2>1, <2>2
<1> HIDE DEF f, g, k
<1>7. k <= hold[t]
  BY <1>1, <1>3, <1>4, <1>5, <1>6
<1>8. QED
  BY <1>7 DEF k, t

-----------------------------------------------------------------------------
LEMMA InitTruth == Init => Truth
<1> SUFFICES ASSUME Init PROVE Truth
  OBVIOUS
<1>1. /\ opp \in Opp /\ (live => PureBuy(opp)) /\ live \in BOOLEAN
      /\ todo = {m \in Market : opp.split[m] > 0}
  BY BasketAssumption DEF Init, BasketAssumption
<1>2. /\ \A l \in Leg, r \in Round : order[l][r] = NoOrder
      /\ order = [l \in Leg |-> [r \in Round |-> NoOrder]]
      /\ "main" \in Round /\ "repair" \in Round /\ "unwind" \in Round
  BY DEF Init, Round
<1>3. /\ NoOrder \in OrderRecord /\ Fits(NoOrder) /\ Resting(NoOrder) /\ Counted(NoOrder) = 0
      /\ NoOrder.mem = "None" /\ NoOrder.row = "None" /\ NoOrder.size = 0 /\ NoOrder.done = 0
      /\ NoOrder.booked = 0
  BY DEF NoOrder, OrderRecord, Fits, Resting, Counted, Terminal, OrderState, Unsent
<1>4. TypeOK
  BY <1>1, <1>2, <1>3 DEF Init, TypeOK, Round
<1>5. Orders
  <2>1. ASSUME NEW l \in Leg PROVE Sizes(l)
    BY <1>1, <1>2, <1>3, OppFacts DEF Sizes, Init
  <2> QED
    BY <1>2, <1>3, <2>1 DEF Orders
<1>6. Course
  BY <1>1, <1>2, <1>3 DEF Init, Course, NotYet, Early
<1>7. Tapes
  <2>1. ASSUME NEW t \in Token
        PROVE  /\ Made(t) = 0 /\ Recorded(t) = 0
               /\ Total(BookedOn(order, t), Leg) = 0 /\ Total(DoneOn(order, t), Leg) = 0
    <3>1. Made(t) = 0 /\ Recorded(t) = 0
      BY <1>1, MarketFacts, OppFacts DEF Made, Recorded, Init
    <3>2. \A l \in Leg : BookedOn(order, t)[l] = 0 /\ DoneOn(order, t)[l] = 0
      <4>1. 0 - 0 = 0 /\ 0 + 0 = 0
        OBVIOUS
      <4>2. \E z \in Int : z = 0 /\ -z = 0
        OBVIOUS
      <4> QED
        BY <1>2, <1>3, <4>1, <4>2 DEF BookedOn, DoneOn, Net
    <3> QED
      BY <3>1, <3>2, LegFacts, TotalZero
  <2>2. Accounted
    BY <2>1 DEF Accounted, Init
  <2> QED
    BY <2>2 DEF Tapes, Agreed, Merging, Explained, Init
<1>8. QED
  BY <1>4, <1>5, <1>6, <1>7 DEF Truth, Outcomes, Init

-----------------------------------------------------------------------------
(* What a step leaves alone. *)

Untraded == \A l \in Leg, r \in Round :
  order'[l][r].done = order[l][r].done /\ order'[l][r].booked = order[l][r].booked

LEMMA SumsStay ==
  ASSUME Untraded, opp' = opp, NEW t \in Token
  PROVE  BookedOn(order, t)' = BookedOn(order, t) /\ DoneOn(order, t)' = DoneOn(order, t)
<1>1. "main" \in Round /\ "repair" \in Round /\ "unwind" \in Round
  BY DEF Round
<1>2. QED
  BY <1>1 DEF Untraded, BookedOn, DoneOn, Net

(* A step that neither trades nor converts, and does not end the trading,  *)
(* keeps the tapes, an abort whatever it did.                              *)
LEMMA TapesKept ==
  ASSUME Truth, Untraded, UNCHANGED <<live, opp, hold, chain, todo>>,
         \/ pc' = "done" /\ outcome' = "Err"
         \/ /\ durable' = durable /\ ~Merging /\ ~Merging' /\ pc # "row" /\ pc' # "row"
  PROVE  Tapes'
<1>1. \A t \in Token : chain'[t] >= 0 /\ Explained(t)'
  BY DEF Truth, Tapes, Explained
<1>2. CASE pc' = "done" /\ outcome' = "Err"
  BY <1>1, <1>2 DEF Tapes, Accounted, Agreed, Merging
<1>3. CASE durable' = durable /\ ~Merging /\ ~Merging' /\ pc # "row" /\ pc' # "row"
  <2>1. durable = hold
    BY <1>3 DEF Truth, Course, Tapes
  <2>2. ASSUME NEW t \in Token
        PROVE  Recorded(t)' = Recorded(t) /\ Made(t)' = Made(t)
    BY <1>3 DEF Recorded, Made
  <2>3. Accounted'
    BY <1>3, <2>2, SumsStay DEF Truth, Tapes, Accounted
  <2>4. Agreed'
    BY <1>3 DEF Agreed
  <2> QED
    BY <1>1, <1>3, <2>1, <2>3, <2>4 DEF Tapes
<1>4. QED
  BY <1>2, <1>3

LEMMA OrdersKept ==
  ASSUME Truth, UNCHANGED <<live, opp, order, filled, round, legs>>,
         \/ outcome' = "Err"
         \/ /\ outcome # "Err"
            /\ \A l \in Leg, r \in Round : Active(l, r) => Active(l, r)' \/ Resting(order[l][r])
  PROVE  Orders'
<1>1. \A l \in Leg : Surplus(l)' = Surplus(l)
  BY DEF Surplus
<1>2. ASSUME NEW l \in Leg
      PROVE  Sizes(l)' /\ \A r \in Round : Fits(order[l][r])'
  BY <1>1 DEF Truth, Orders, Sizes, Counted, Fits
<1>3. ASSUME outcome' # "Err", NEW l \in Leg, NEW r \in Round
      PROVE  (order[l][r].mem = order[l][r].row /\ (Active(l, r) \/ Resting(order[l][r])))'
  BY <1>3 DEF Truth, Orders, Resting
<1>4. QED
  BY <1>2, <1>3 DEF Orders

\* a step that may only end the basket in an error
Unresolved == outcome' = outcome \/ outcome' = "Err"

LEMMA OutcomesKept ==
  ASSUME Truth, ~Merging, Unresolved
  PROVE  Outcomes'
BY DEF Truth, Course, Outcomes, Unresolved

LEMMA TypeKept ==
  ASSUME Truth, UNCHANGED <<live, opp, round, legs, order, filled, chain, hold, errors>>,
         durable' \in [Token -> Int], todo' \subseteq Market,
         pc' \in {"start", "split", "row", "open", "submit", "close", "expire", "repair",
                  "unwind", "settle", "done"},
         outcome' \in {"none", "Err", "RejectedUnhedged", "NoFill", "FilledClean",
                       "Repaired", "Unwound"}
  PROVE  TypeOK'
BY DEF Truth, TypeOK

-----------------------------------------------------------------------------
LEMMA StartTruth == ASSUME Truth, Start PROVE Truth'
<1>1. /\ pc = "start" /\ outcome = "none" /\ Early /\ ~Merging
      /\ UNCHANGED <<live, opp, round, legs, order, filled, chain, durable, hold, conv, todo, errors>>
      /\ \/ pc' = "done" /\ outcome' = "RejectedUnhedged"
         \/ pc' = "split" /\ outcome' = outcome
  BY DEF Start, Truth, Course, Merging, Early
<1>2. TypeOK'
  BY <1>1, TypeKept DEF Truth, TypeOK
<1>3. Orders'
  BY <1>1, OrdersKept DEF Active
<1>4. Course'
  BY <1>1 DEF Truth, Course, Early, Merging, NotYet, Converting
<1>5. \A t \in Token : hold[t] = 0 /\ chain[t] = 0
  BY <1>1 DEF Truth, Course
<1>6. CASE pc' = "split" /\ outcome' = outcome
  <2>1. Tapes'
    BY <1>1, <1>6, TapesKept DEF Untraded, Merging
  <2> QED
    BY <1>1, <1>2, <1>3, <1>4, <1>6, <2>1, OutcomesKept DEF Truth, Unresolved
<1>7. CASE pc' = "done" /\ outcome' = "RejectedUnhedged"
  <2>1. chain = hold /\ durable = hold
    BY <1>1, <1>5 DEF Truth, TypeOK, Tapes
  <2>2. Tapes'
    BY <1>1, <1>5, <1>7, <2>1 DEF Truth, Tapes, Accounted, Agreed, Merging, Explained
  <2> QED
    BY <1>1, <1>2, <1>3, <1>4, <1>5, <1>7, <2>2 DEF Truth, Outcomes
<1>8. QED
  BY <1>1, <1>6, <1>7

LEMMA OpenedTruth == ASSUME Truth, Opened PROVE Truth'
<1>1. /\ pc = "open" /\ pc' = "submit" /\ outcome = "none" /\ ~Early /\ ~Merging /\ ~Merging'
      /\ UNCHANGED <<live, opp, round, legs, order, filled, chain, durable, hold, conv, todo,
                     errors, outcome>>
  BY DEF Opened, Truth, Course, Merging, Early
<1>2. TypeOK'
  BY <1>1, TypeKept DEF Truth, TypeOK
<1>3. Orders'
  BY <1>1, OrdersKept DEF Active
<1>4. Course'
  BY <1>1 DEF Truth, Course, Early, Merging, NotYet
<1>5. Tapes'
  BY <1>1, TapesKept DEF Untraded
<1>6. QED
  BY <1>1, <1>2, <1>3, <1>4, <1>5, OutcomesKept DEF Truth, Unresolved

LEMMA WindowTruth == ASSUME Truth, IInv, WindowExpires PROVE Truth'
<1>1. /\ pc = "submit" /\ pc' = "expire" /\ outcome = "none" /\ ~Early /\ ~Merging /\ ~Merging'
      /\ round # "unwind"
      /\ UNCHANGED <<live, opp, round, legs, order, filled, chain, durable, hold, conv, todo,
                     errors, outcome>>
  BY DEF WindowExpires, Truth, Course, Merging, Early
<1>2. TypeOK'
  BY <1>1, TypeKept DEF Truth, TypeOK
<1>3. Orders'
  BY <1>1, OrdersKept DEF Active
<1>4. Course'
  BY <1>1 DEF Truth, Course, Early, Merging, NotYet, IInv, AllSubmitted
<1>5. Tapes'
  BY <1>1, TapesKept DEF Untraded
<1>6. QED
  BY <1>1, <1>2, <1>3, <1>4, <1>5, OutcomesKept DEF Truth, Unresolved

(* A conversion moves both tokens of a market. *)
LEMMA ConvertedIs ==
  ASSUME NEW tape, NEW m \in Market, NEW u
  PROVE  /\ Converted(tape, m, u) = [t \in Token |-> IF MarketOf(t) = m THEN tape[t] + u ELSE tape[t]]
BY MarketFacts DEF Converted

-----------------------------------------------------------------------------
LEMMA SplitTruth == ASSUME Truth, SplitVenue PROVE Truth'
<1>1. PICK m \in todo :
        /\ todo' = todo \ {m} /\ chain' = Converted(chain, m, opp.split[m])
        /\ conv' = [market |-> m, units |-> opp.split[m]]
  BY DEF SplitVenue
<1>2. /\ pc = "split" /\ pc' = "row" /\ outcome = "none" /\ Early /\ ~Merging
      /\ UNCHANGED <<live, opp, round, legs, order, filled, durable, hold, errors, outcome>>
  BY DEF SplitVenue, Truth, Course, Merging, Early
<1>3. m \in Market /\ opp.split[m] \in Nat /\ opp.split[m] > 0
  BY <1>1, OppFacts DEF Truth, TypeOK, Course
<1>4. conv'.market = m /\ conv'.units = opp.split[m] /\ Early' /\ ~Merging'
  BY <1>1, <1>2, <1>3 DEF Early, Merging
<1>5. \A t \in Token : chain'[t] = IF MarketOf(t) = m THEN chain[t] + opp.split[m] ELSE chain[t]
  BY <1>1, <1>3, ConvertedIs
<1>6. TypeOK'
  <2>1. chain' \in [Token -> Int]
    BY <1>1, <1>3, ConvertedIs DEF Truth, TypeOK
  <2> QED
    BY <1>1, <1>2, <2>1 DEF Truth, TypeOK
<1>7. Orders'
  BY <1>2, OrdersKept DEF Active
<1>8. Course'
  BY <1>1, <1>2, <1>3, <1>4 DEF Truth, Course, NotYet, Converting
<1>9. Tapes'
  <2>1. ASSUME NEW t \in Token
        PROVE  /\ hold'[t] = Recorded(t)' + Total(BookedOn(order, t), Leg)'
               /\ chain'[t] = Made(t)' + Total(DoneOn(order, t), Leg)'
    <3>1. Total(BookedOn(order, t), Leg)' = Total(BookedOn(order, t), Leg)
          /\ Total(DoneOn(order, t), Leg)' = Total(DoneOn(order, t), Leg)
      BY <1>2, SumsStay DEF Untraded
    <3>2. /\ hold[t] = Recorded(t) + Total(BookedOn(order, t), Leg)
          /\ chain[t] = Made(t) + Total(DoneOn(order, t), Leg)
      BY <1>2 DEF Truth, Tapes, Accounted
    <3>3. MarketOf(t) = m => Recorded(t) = 0 /\ Made(t) = 0 /\ Recorded(t)' = 0 /\ Made(t)' = opp.split[m]
      BY <1>1, <1>2, <1>4 DEF Recorded, Made
    <3>4. MarketOf(t) # m => Recorded(t) = Made(t) /\ Recorded(t)' = Made(t) /\ Made(t)' = Made(t)
      BY <1>1, <1>2, <1>4 DEF Recorded, Made
    <3>5. chain[t] \in Int /\ hold[t] \in Int
      BY DEF Truth, TypeOK
    <3>6. CASE MarketOf(t) = m
      <4> DEFINE d == Total(DoneOn(order, t), Leg)
      <4>1. d \in Int
        BY LegFacts, <1>2, TotalType, DoneFits DEF Truth, TypeOK
      <4> QED
        BY <1>2, <1>3, <1>5, <3>1, <3>2, <3>3, <3>5, <3>6, <4>1
    <3>7. CASE MarketOf(t) # m
      BY <1>2, <1>5, <3>1, <3>2, <3>4, <3>7
    <3> QED
      BY <3>6, <3>7
  <2>2. Accounted'
    BY <2>1 DEF Accounted
  <2>3. ASSUME NEW t \in Token PROVE chain'[t] >= 0
    BY <1>3, <1>5 DEF Truth, Tapes, TypeOK
  <2>4. durable' = hold'
    BY <1>2 DEF Truth, Tapes
  <2> QED
    BY <1>2, <1>4, <2>2, <2>3, <2>4 DEF Truth, Tapes, Agreed, Explained
<1>10. QED
  BY <1>2, <1>6, <1>7, <1>8, <1>9, OutcomesKept DEF Truth, Unresolved

-----------------------------------------------------------------------------
(* An abort leaves everything but the store as it is. *)
LEMMA AbortTruth ==
  ASSUME Truth, Abort, UNCHANGED <<live, opp, round, legs, order, filled, chain, hold, todo, errors>>,
         durable' \in [Token -> Int]
  PROVE  Truth'
<1>1. pc' = "done" /\ outcome' = "Err"
  BY DEF Abort
<1>2. TypeOK'
  BY <1>1, TypeKept DEF Truth, TypeOK
<1>3. Orders'
  BY <1>1, OrdersKept
<1>4. Course'
  BY <1>1 DEF Truth, Course, Early, Merging, NotYet
<1>5. Tapes'
  BY <1>1, TapesKept DEF Untraded
<1>6. QED
  BY <1>1, <1>2, <1>3, <1>4, <1>5 DEF Truth, Outcomes

LEMMA SetsFit ==
  ASSUME TypeOK, NEW m \in Market
  PROVE  /\ Sets(m) \in Nat
         /\ \A t \in Token : MarketOf(t) = m => Sets(m) <= hold[t]
<1>1. /\ Pair[m][1] \in Token /\ Pair[m][2] \in Token
      /\ \A t \in Token : MarketOf(t) = m => t \in {Pair[m][1], Pair[m][2]}
  BY MarketFacts
<1>2. hold[Pair[m][1]] \in Nat /\ hold[Pair[m][2]] \in Nat
  BY <1>1 DEF TypeOK
<1>3. QED
  BY <1>1, <1>2 DEF Sets, Least

LEMMA RowTruth == ASSUME Truth, ConversionRow PROVE Truth'
<1> DEFINE m == conv.market
           u == conv.units
<1>1. /\ pc = "row" /\ Converting /\ m \in Market /\ u \in Int
      /\ UNCHANGED <<live, opp, round, legs, order, filled, chain, todo, errors>>
      /\ outcome \notin {"Err", "RejectedUnhedged"}
  BY DEF ConversionRow, Truth, Course, Converting
<1>2. \A tape : Converted(tape, m, u) = [t \in Token |-> IF MarketOf(t) = m THEN tape[t] + u ELSE tape[t]]
  BY <1>1, ConvertedIs
<1>3. Converted(durable, m, u) \in [Token -> Int]
  <2> HIDE DEF m, u
  <2>1. \A t \in Token : durable[t] \in Int
    BY DEF Truth, TypeOK
  <2>2. \A t \in Token : durable[t] + u \in Int
    BY <1>1, <2>1
  <2> QED
    BY <1>2, <2>1, <2>2
<1>4. CASE Abort /\ durable' \in {durable, Converted(durable, m, u)} /\ hold' = hold
  BY <1>1, <1>3, <1>4, AbortTruth DEF Truth, TypeOK
<1>5. CASE /\ durable' = Converted(durable, m, u) /\ hold' = Converted(hold, m, u)
           /\ pc' = (IF u > 0 THEN "split" ELSE "settle") /\ outcome' = outcome
  <2>1. durable = hold /\ \A t \in Token : hold[t] \in Nat /\ chain[t] \in Int
    BY <1>1 DEF Truth, Tapes, TypeOK
  <2>2. \A t \in Token : hold'[t] = IF MarketOf(t) = m THEN hold[t] + u ELSE hold[t]
    BY <1>2, <1>5
  <2>3. durable' = hold'
    BY <1>5, <2>1
  <2>4. conv' = NoConv
    BY DEF ConversionRow
  <2>5. CASE u > 0
    <3>1. u = opp.split[m] /\ u \in Nat /\ m \notin todo /\ Early /\ Early' /\ ~Merging /\ ~Merging'
          /\ pc' = "split" /\ outcome = "none"
      BY <1>1, <1>5, <2>5 DEF Converting, Early, Merging, Truth, Course
    <3>2. TypeOK'
      <4>1. hold' \in [Token -> Nat]
        <5> HIDE DEF m, u
        <5>1. \A t \in Token : hold[t] + u \in Nat
          BY <2>1, <3>1
        <5> QED
          BY <1>2, <1>5, <2>1, <5>1
      <4> QED
        BY <1>1, <1>3, <1>5, <3>1, <4>1 DEF Truth, TypeOK
    <3>3. Orders'
      BY <1>1, <1>5, OrdersKept DEF Active
    <3>4. Course'
      BY <1>1, <1>5, <3>1 DEF Truth, Course, NotYet
    <3>5. ASSUME NEW t \in Token
          PROVE  /\ hold'[t] = Recorded(t)' + Total(BookedOn(order, t), Leg)'
                 /\ chain'[t] = Made(t)' + Total(DoneOn(order, t), Leg)'
      <4>1. Total(BookedOn(order, t), Leg)' = Total(BookedOn(order, t), Leg)
            /\ Total(DoneOn(order, t), Leg)' = Total(DoneOn(order, t), Leg)
        BY <1>1, SumsStay DEF Untraded
      <4>2. /\ hold[t] = Recorded(t) + Total(BookedOn(order, t), Leg)
            /\ chain[t] = Made(t) + Total(DoneOn(order, t), Leg)
        BY <3>1 DEF Truth, Tapes, Accounted
      <4>3. MarketOf(t) = m => Recorded(t) = 0 /\ Recorded(t)' = u
        BY <1>1, <3>1 DEF Recorded, Made
      <4>4. MarketOf(t) # m => Recorded(t)' = Recorded(t)
        BY <1>1, <3>1 DEF Recorded, Made
      <4>5. Made(t)' = Made(t)
        BY <1>1 DEF Made
      <4> DEFINE b == Total(BookedOn(order, t), Leg)
      <4>6. MarketOf(t) = m => hold[t] = 0 + b /\ b \in Int
        <5>1. \A l \in Leg : BookedOn(order, t)[l] \in Int
          BY Records, OppFacts DEF BookedOn, Net, Truth, TypeOK
        <5>2. b \in Int
          BY <5>1, LegFacts, TotalType
        <5> QED
          BY <4>2, <4>3, <5>2
      <4> HIDE DEF b
      <4> QED
        BY <1>1, <2>1, <2>2, <3>1, <4>1, <4>2, <4>3, <4>4, <4>5, <4>6 DEF b
    <3>6. ASSUME NEW t \in Token PROVE Explained(t)'
      <4>1. MarketOf(t) = m => opp'.split[MarketOf(t)] > 0
        BY <1>1, <2>5, <3>1
      <4>2. MarketOf(t) # m => hold'[t] = hold[t]
        BY <2>2
      <4> QED
        BY <1>1, <4>1, <4>2 DEF Truth, Tapes, Explained
    <3>7. Tapes'
      BY <1>1, <2>3, <3>1, <3>5, <3>6 DEF Truth, Tapes, Accounted, Agreed
    <3> QED
      BY <1>5, <3>1, <3>2, <3>3, <3>4, <3>7, OutcomesKept DEF Truth, Unresolved
  <2>6. CASE ~(u > 0)
    <3>1. u = -Sets(m) /\ u < 0 /\ ~live /\ ~Early /\ ~Early' /\ Merging /\ Merging' /\ pc' = "settle"
      BY <1>1, <1>5, <2>6 DEF Converting, Early, Merging
    <3>2. \A t \in Token : hold'[t] \in Nat /\ hold'[t] <= hold[t]
      <4>1. Sets(m) \in Nat /\ \A t \in Token : MarketOf(t) = m => Sets(m) <= hold[t]
        BY SetsFit, <1>1 DEF Truth
      <4> QED
        BY <1>1, <2>1, <2>2, <3>1, <4>1
    <3>3. TypeOK'
      <4>1. hold' \in [Token -> Nat]
        BY <1>2, <1>5, <3>2
      <4> QED
        BY <1>1, <1>3, <1>5, <3>1, <4>1 DEF Truth, TypeOK
    <3>4. Orders'
      BY <1>1, <1>5, OrdersKept DEF Active
    <3>5. Course'
      BY <1>1, <1>5, <3>1 DEF Truth, Course, NotYet
    <3>6. chain = hold'
      BY <1>1, <1>5, <3>1 DEF Truth, Tapes, Agreed
    <3>7. ASSUME NEW t \in Token PROVE Explained(t)'
      <4>1. hold'[t] > 0 => hold[t] > 0
        BY <2>1, <3>2
      <4> QED
        BY <1>1, <4>1 DEF Truth, Tapes, Explained
    <3>8. Tapes'
      BY <1>1, <2>3, <3>1, <3>6, <3>7 DEF Truth, Tapes, Accounted, Agreed
    <3>9. Outcomes'
      <4>1. outcome = "NoFill" => \A t \in Token : hold'[t] = 0
        BY <2>1, <3>2 DEF Truth, Outcomes
      <4> QED
        BY <1>1, <1>5, <4>1 DEF Truth, Outcomes, Complete
    <3> QED
      BY <3>3, <3>4, <3>5, <3>8, <3>9 DEF Truth
  <2> QED
    BY <2>5, <2>6
<1>6. QED
  BY <1>4, <1>5 DEF ConversionRow

LEMMA MergeTruth == ASSUME Truth, MergeVenue PROVE Truth'
<1>1. /\ pc = "settle" /\ Merging /\ ~Early /\ outcome \notin {"Err", "RejectedUnhedged"}
      /\ UNCHANGED <<live, opp, round, legs, order, filled, durable, hold, todo, errors>>
  BY DEF MergeVenue, Truth, Course, Merging, Early
<1>2. CASE live
  BY <1>1, <1>2, AbortTruth DEF MergeVenue, Truth, TypeOK
<1>3. CASE ~live
  <2>1. PICK m \in Mergeable :
          /\ chain' = Converted(chain, m, -Sets(m))
          /\ conv' = [market |-> m, units |-> -Sets(m)]
          /\ pc' = "row" /\ outcome' = outcome
    BY <1>3 DEF MergeVenue
  <2>2. m \in Market /\ Sets(m) \in Nat /\ Sets(m) > 0
    <3>1. m \in Market /\ Sets(m) >= MergeDust /\ MergeDust \in Nat \ {0}
      BY BasketAssumption DEF Mergeable, BasketAssumption
    <3>2. Sets(m) \in Nat
      BY <3>1, SetsFit DEF Truth
    <3> QED
      BY <3>1, <3>2
  <2>3. /\ conv'.market = m /\ conv'.units = -Sets(m) /\ conv'.units < 0 /\ conv'.units \in Int
        /\ ~Early' /\ Merging'
    BY <2>1, <2>2 DEF Early, Merging
  <2>4. chain = hold
    BY <1>1, <1>3 DEF Truth, Tapes, Agreed
  <2>5. \A t \in Token : chain'[t] \in Nat
    <3>1. \A t \in Token : chain'[t] = IF MarketOf(t) = m THEN hold[t] + (-Sets(m)) ELSE hold[t]
      BY <2>1, <2>2, <2>4, ConvertedIs
    <3>2. \A t \in Token : hold[t] \in Nat /\ (MarketOf(t) = m => Sets(m) <= hold[t])
      BY <2>2, SetsFit DEF Truth, TypeOK
    <3> QED
      BY <2>2, <3>1, <3>2
  <2>6. TypeOK'
    <3>1. chain' \in [Token -> Int]
      BY <2>1, <2>5 DEF Converted
    <3> QED
      BY <1>1, <2>1, <3>1 DEF Truth, TypeOK
  <2>7. Orders'
    BY <1>1, <2>1, OrdersKept DEF Active
  <2>8. Sets(m)' = Sets(m)
    BY <1>1 DEF Sets
  <2>9. Course'
    <3>1. Converting'
      BY <1>1, <1>3, <2>1, <2>2, <2>3, <2>8 DEF Converting
    <3> QED
      BY <1>1, <2>1, <2>3, <3>1 DEF Truth, Course, NotYet
  <2>10. Tapes'
    <3>1. Agreed'
      BY <1>1, <2>1, <2>3, <2>4 DEF Agreed
    <3> QED
      BY <1>1, <2>1, <2>3, <2>5, <3>1 DEF Truth, Tapes, Accounted, Explained
  <2> QED
    BY <1>1, <2>1, <2>6, <2>7, <2>9, <2>10 DEF Truth, Outcomes, Complete
<1>4. QED
  BY <1>2, <1>3

LEMMA ReportTruth == ASSUME Truth, Report PROVE Truth'
<1>1. /\ pc = "settle" /\ pc' = "done" /\ Merging /\ Merging' /\ ~Early /\ ~Early'
      /\ outcome \notin {"Err", "RejectedUnhedged"}
      /\ UNCHANGED <<live, opp, round, legs, order, filled, chain, durable, hold, conv, todo,
                     errors, outcome>>
  BY DEF Report, Truth, Course, Merging, Early
<1>2. TypeOK'
  BY <1>1, TypeKept DEF Truth, TypeOK
<1>3. Orders'
  BY <1>1, OrdersKept DEF Active
<1>4. Course'
  BY <1>1 DEF Truth, Course, NotYet
<1>5. Tapes'
  BY <1>1 DEF Truth, Tapes, Accounted, Agreed, Explained
<1>6. QED
  BY <1>1, <1>2, <1>3, <1>4, <1>5 DEF Truth, Outcomes, Complete

-----------------------------------------------------------------------------
(* One order replaced by another. *)
LEMMA OneOrder ==
  ASSUME TypeOK, NEW l \in Leg, NEW new \in OrderRecord, order' = [order EXCEPT ![l][round] = new]
  PROVE  /\ order' \in [Leg -> [Round -> OrderRecord]]
         /\ order'[l][round] = new
         /\ \A k \in Leg, r \in Round : k # l \/ r # round => order'[k][r] = order[k][r]
         /\ \A k \in Leg \ {l} : order'[k] = order[k]
BY Records DEF TypeOK

(* Sizes stay what they were asked for while a round runs. *)
LEMMA SizesKept ==
  ASSUME Truth, TypeOK', opp' = opp, NEW k \in Leg,
         \A r \in Round : order'[k][r].size = order[k][r].size /\ Fits(order[k][r])',
         round = "main" \/ order'[k]["main"].booked = order[k]["main"].booked,
         filled' = filled \/ round # "unwind",
         filled'[k] = Counted(order'[k]["main"]) + Counted(order'[k]["repair"])
  PROVE  Sizes(k)'
<1>1. /\ "main" \in Round /\ "repair" \in Round /\ "unwind" \in Round /\ Sizes(k)
      /\ order[k]["main"].size \in Nat /\ order'[k]["main"].booked \in Nat
      /\ order'[k]["main"].got \in Nat /\ order'[k]["main"].done \in Nat
      /\ opp.qty[k] \in Nat
  <2>1. \A r \in Round : order'[k][r] \in OrderRecord
    BY DEF TypeOK
  <2> QED
    BY <2>1, Records, OppFacts DEF Truth, Orders, TypeOK, Round, OrderRecord
<1>2. order'[k]["repair"].size + order'[k]["main"].booked <= opp.qty[k]
  <2>1. CASE round = "main"
    <3>1. order[k]["repair"].size = 0
      BY <2>1 DEF Truth, Course, NotYet
    <3> QED
      BY <1>1, <3>1 DEF Fits, Sizes
  <2>2. CASE round # "main"
    BY <1>1, <2>2 DEF Sizes
  <2> QED
    BY <2>1, <2>2
<1>3. order'[k]["unwind"].size \in {0, Surplus(k)'}
  <2>1. CASE filled' = filled
    BY <1>1, <2>1 DEF Sizes, Surplus
  <2>2. CASE round # "unwind"
    BY <1>1, <2>2 DEF Truth, Course, NotYet
  <2> QED
    BY <2>1, <2>2
<1>4. QED
  BY <1>1, <1>2, <1>3 DEF Sizes, Counted

\* what replaces an order in a running round, and what it adds to its leg
LEMMA OneFits ==
  ASSUME Truth, TypeOK', UNCHANGED <<live, opp, round, legs>>, NEW l \in legs,
         NEW new \in OrderRecord, order' = [order EXCEPT ![l][round] = new],
         new.size = order[l][round].size, Fits(new),
         \A k \in Leg \ {l} : filled'[k] = filled[k],
         round = "unwind" => filled' = filled,
         round # "unwind" => filled'[l] = filled[l] + Counted(new) - Counted(order[l][round])
  PROVE  \A k \in Leg : Sizes(k)' /\ \A r \in Round : Fits(order[k][r])'
<1>1. /\ l \in Leg /\ round \in Round /\ "main" \in Round /\ "repair" \in Round /\ "unwind" \in Round
      /\ \A k \in Leg : Sizes(k) /\ \A r \in Round : Fits(order[k][r])
  BY Records DEF Truth, TypeOK, Orders
<1>2. /\ order'[l][round] = new
      /\ \A k \in Leg, r \in Round : k # l \/ r # round => order'[k][r] = order[k][r]
  BY <1>1, OneOrder DEF Truth
<1>3. ASSUME NEW k \in Leg, NEW r \in Round
      PROVE  order'[k][r].size = order[k][r].size /\ Fits(order[k][r])'
  <2>1. Fits(order'[k][r])
    BY <1>1, <1>2
  <2>2. Fits(order[k][r])'
    BY <2>1 DEF Fits
  <2> QED
    BY <1>2, <2>2
<1>4. ASSUME NEW k \in Leg
      PROVE  filled'[k] = Counted(order'[k]["main"]) + Counted(order'[k]["repair"])
  <2>1. filled[k] = Counted(order[k]["main"]) + Counted(order[k]["repair"])
    BY <1>1 DEF Sizes
  <2>2. CASE k # l
    BY <1>1, <1>2, <2>1, <2>2
  <2>3. CASE k = l /\ round = "unwind"
    BY <1>1, <1>2, <2>1, <2>3
  <2>4. CASE k = l /\ round # "unwind"
    <3>1. Counted(order[k]["main"]) \in Nat /\ Counted(order[k]["repair"]) \in Nat /\ Counted(new) \in Nat
      BY <1>1, Records DEF Counted, Truth, OrderRecord
    <3>2. CASE round = "main"
      <4>1. /\ Counted(order'[k]["main"]) = Counted(new) /\ order'[k]["repair"] = order[k]["repair"]
            /\ filled'[k] = filled[k] + Counted(new) - Counted(order[k]["main"])
        BY <1>1, <1>2, <2>4, <3>2
      <4> QED
        BY <2>1, <3>1, <4>1
    <3>3. CASE round = "repair"
      <4>1. /\ Counted(order'[k]["repair"]) = Counted(new) /\ order'[k]["main"] = order[k]["main"]
            /\ filled'[k] = filled[k] + Counted(new) - Counted(order[k]["repair"])
        BY <1>1, <1>2, <2>4, <3>3
      <4> QED
        BY <2>1, <3>1, <4>1
    <3> QED
      BY <1>1, <2>4, <3>2, <3>3 DEF Round
  <2> QED
    BY <2>2, <2>3, <2>4
<1>5. ASSUME NEW k \in Leg PROVE Sizes(k)'
  <2>1. round = "main" \/ order'[k]["main"].booked = order[k]["main"].booked
    BY <1>1, <1>2
  <2>2. filled' = filled \/ round # "unwind"
    OBVIOUS
  <2> QED
    BY <1>3, <1>4, <2>1, <2>2, SizesKept
<1>6. QED
  BY <1>3, <1>5

LEMMA PersistMoves ==
  ASSUME TypeOK, NEW l \in Leg, NEW to, Persist(l, to)
  PROVE  \E new \in OrderRecord :
           LET o == order[l][round] IN
           /\ order' = [order EXCEPT ![l][round] = new]
           /\ new.size = o.size /\ new.sent = o.sent /\ new.done = o.done
           /\ new.resp = o.resp /\ new.got = o.got /\ new.booked = o.booked
           /\ \/ CanTransition(o.mem, to) /\ new.mem = to /\ new.row = to /\ UNCHANGED <<pc, outcome>>
              \/ new.mem = o.mem /\ Abort
<1> DEFINE o == order[l][round]
           moved == [o EXCEPT !.mem = to, !.row = to]
           torn == [o EXCEPT !.row = to]
<1>1. o \in OrderRecord /\ order \in [Leg -> [Round -> OrderRecord]] /\ round \in Round
  BY DEF TypeOK
<1>2. CanTransition(o.mem, to) => to \in OrderState
  BY DEF CanTransition, OrderState, Terminal
<1>3. CanTransition(o.mem, to) => moved \in OrderRecord /\ torn \in OrderRecord
  BY <1>1, <1>2 DEF OrderRecord
<1>4. /\ [order EXCEPT ![l][round].mem = to, ![l][round].row = to] = [order EXCEPT ![l][round] = moved]
      /\ [order EXCEPT ![l][round].row = to] = [order EXCEPT ![l][round] = torn]
      /\ order = [order EXCEPT ![l][round] = o]
  BY <1>1
<1>5. /\ moved.mem = to /\ moved.row = to /\ moved.size = o.size /\ moved.sent = o.sent
      /\ moved.done = o.done /\ moved.resp = o.resp /\ moved.got = o.got /\ moved.booked = o.booked
      /\ torn.mem = o.mem /\ torn.size = o.size /\ torn.sent = o.sent
      /\ torn.done = o.done /\ torn.resp = o.resp /\ torn.got = o.got /\ torn.booked = o.booked
  BY <1>1 DEF OrderRecord
<1>6. \/ ~CanTransition(o.mem, to) /\ Abort /\ order' = order
      \/ /\ CanTransition(o.mem, to)
         /\ \/ order' = [order EXCEPT ![l][round].mem = to, ![l][round].row = to] /\ UNCHANGED <<pc, outcome>>
            \/ /\ Abort
               /\ order' \in {order, [order EXCEPT ![l][round].row = to]}
  BY DEF Persist
<1> HIDE DEF moved, torn, o
<1>7. CASE order' = order /\ Abort
  BY <1>1, <1>4, <1>7 DEF o
<1>8. CASE CanTransition(o.mem, to) /\ order' = [order EXCEPT ![l][round] = moved] /\ UNCHANGED <<pc, outcome>>
  BY <1>3, <1>5, <1>8 DEF o
<1>9. CASE CanTransition(o.mem, to) /\ order' = [order EXCEPT ![l][round] = torn] /\ Abort
  BY <1>3, <1>5, <1>9 DEF o
<1>10. QED
  BY <1>4, <1>6, <1>7, <1>8, <1>9

(* persist_transition: an order moves on, with what the new state says of  *)
(* it, or the basket ends in an error.                                     *)
LEMMA PersistTruth ==
  ASSUME Truth, pc \in {"open", "close", "expire"}, NEW l \in legs, NEW to, Persist(l, to),
         UNCHANGED <<live, opp, round, legs, chain, durable, hold, conv, todo>>,
         LET o == order[l][round] IN
         /\ o.mem \notin Terminal
         /\ CanTransition(o.mem, to) =>
              /\ to = "Submitted" => o.booked = 0
              /\ to \in Unsent => o.done = 0
              /\ to \in {"PartFilled", "Filled", "Cancelled"} => o.booked = o.got
              /\ to \in {"Rejected", "Expired"} => o.booked = 0 /\ (~live => o.done = 0)
         /\ filled' = IF order'[l][round].mem \in Terminal /\ round # "unwind"
                      THEN [filled EXCEPT ![l] = @ + o.booked] ELSE filled,
         errors' = errors \/ (errors' = errors + 1 /\ to = "Rejected"),
         pc = "expire" => to = "Expired"
  PROVE  Truth'
<1> DEFINE o == order[l][round]
<1>1. /\ l \in Leg /\ round \in Round /\ TypeOK /\ ~Merging /\ ~Early /\ outcome = "none"
      /\ Fits(o) /\ o \in OrderRecord /\ o.mem \notin Terminal
  BY DEF Truth, Course, Orders, TypeOK, Merging, Early
<1>2. PICK new \in OrderRecord :
        /\ order' = [order EXCEPT ![l][round] = new]
        /\ new.size = o.size /\ new.sent = o.sent /\ new.done = o.done
        /\ new.resp = o.resp /\ new.got = o.got /\ new.booked = o.booked
        /\ \/ CanTransition(o.mem, to) /\ new.mem = to /\ new.row = to /\ UNCHANGED <<pc, outcome>>
           \/ new.mem = o.mem /\ Abort
  BY <1>1, PersistMoves
<1>3. /\ order' \in [Leg -> [Round -> OrderRecord]] /\ order'[l][round] = new
      /\ \A k \in Leg, r \in Round : k # l \/ r # round => order'[k][r] = order[k][r]
  BY <1>1, <1>2, OneOrder
<1>4. Fits(new)
  <2>1. CASE new.mem = o.mem
    BY <1>1, <1>2, <2>1 DEF Fits
  <2>2. CASE CanTransition(o.mem, to) /\ new.mem = to
    BY <1>1, <1>2, <2>2 DEF Fits
  <2> QED
    BY <1>2, <2>1, <2>2
<1>5. /\ filled' = (IF new.mem \in Terminal /\ round # "unwind"
                    THEN [filled EXCEPT ![l] = @ + o.booked] ELSE filled)
      /\ filled \in [Leg -> Nat] /\ o.booked \in Nat /\ errors \in Nat
  BY <1>1, <1>3 DEF TypeOK, OrderRecord
<1>6. filled' \in [Leg -> Nat] /\ errors' \in Nat
  <2> HIDE DEF o
  <2>1. [filled EXCEPT ![l] = @ + o.booked] \in [Leg -> Nat]
    BY <1>1, <1>5
  <2>2. errors' \in Nat
    BY <1>5
  <2> QED
    BY <1>5, <2>1, <2>2
<1>7. pc' \in {pc, "done"} /\ outcome' \in {outcome, "Err"}
  BY <1>2 DEF Abort
<1>8. TypeOK'
  BY <1>1, <1>3, <1>6, <1>7 DEF TypeOK
<1>9. \A k \in Leg : Sizes(k)' /\ \A r \in Round : Fits(order[k][r])'
  <2>1. Counted(o) = 0 /\ Counted(new) = IF new.mem \in Terminal THEN o.booked ELSE 0
    BY <1>1, <1>2 DEF Counted
  <2>2. \A k \in Leg \ {l} : filled'[k] = filled[k]
    BY <1>5
  <2>3. round # "unwind" => filled'[l] = filled[l] + Counted(new) - Counted(o)
    BY <1>1, <1>5, <2>1
  <2>4. round = "unwind" => filled' = filled
    BY <1>5
  <2> QED
    BY <1>2, <1>4, <1>8, <2>2, <2>3, <2>4, OneFits
<1>10. Orders'
  <2>1. ASSUME outcome' # "Err", NEW k \in Leg, NEW r \in Round
        PROVE  (order[k][r].mem = order[k][r].row /\ (Active(k, r) \/ Resting(order[k][r])))'
    <3>1. pc' = pc /\ new.mem = to /\ new.row = to
      BY <1>2, <2>1 DEF Abort
    <3>2. CASE k = l /\ r = round
      BY <1>3, <3>1, <3>2 DEF Active
    <3>3. CASE k # l \/ r # round
      BY <1>1, <1>3, <3>1, <3>3 DEF Truth, Orders, Active, Resting
    <3> QED
      BY <3>2, <3>3
  <2> QED
    BY <1>9, <2>1 DEF Orders
<1>11. Course'
  <2>1. ASSUME NEW k \in Leg, NEW r \in Round, r # round, NotYet(k, r) PROVE NotYet(k, r)'
    BY <1>3, <2>1 DEF NotYet
  <2>2. \A k \in Leg, r \in Round : order'[k][r].done = order[k][r].done
    BY <1>2, <1>3
  <2>3. "main" \in Round /\ "repair" \in Round /\ "unwind" \in Round /\ legs \subseteq Leg
    BY <1>1 DEF TypeOK, Round
  <2>4. CASE Abort
    BY <1>1, <2>1, <2>3, <2>4 DEF Truth, Course, Abort, Early, Merging
  <2>5. CASE new.mem = to /\ UNCHANGED <<pc, outcome>>
    <3>1. pc = "expire" => \A k \in legs : order'[k][round].mem \in {"Submitted", "Expired"}
      BY <1>1, <1>3, <2>3, <2>5 DEF Truth, Course
    <3>2. round = "main" /\ errors' > 0 => \E k \in Leg : order'[k]["main"].mem = "Rejected"
      <4> SUFFICES ASSUME round = "main", errors' > 0
                   PROVE  \E k \in Leg : order'[k]["main"].mem = "Rejected"
        OBVIOUS
      <4>1. CASE errors' = errors
        <5>1. PICK k \in Leg : order[k]["main"].mem = "Rejected"
          BY <1>1, <4>1 DEF Truth, Course
        <5>2. k # l
          BY <1>1, <5>1 DEF Terminal
        <5> QED
          BY <1>3, <2>3, <5>1, <5>2
      <4>2. CASE to = "Rejected"
        BY <1>1, <1>3, <2>5, <4>2
      <4> QED
        BY <4>1, <4>2
    <3> QED
      BY <1>1, <2>1, <2>2, <2>3, <2>5, <3>1, <3>2 DEF Truth, Course, Early, Merging
  <2> QED
    BY <1>2, <2>4, <2>5
<1>12. Tapes'
  <2>1. Untraded
    BY <1>2, <1>3 DEF Untraded
  <2>2. (pc' = "done" /\ outcome' = "Err") \/ (~Merging' /\ pc' # "row" /\ pc # "row")
    BY <1>2 DEF Abort, Merging
  <2> QED
    BY <1>1, <2>1, <2>2, TapesKept
<1>13. QED
  BY <1>1, <1>7, <1>8, <1>10, <1>11, <1>12, OutcomesKept DEF Truth, Unresolved

LEMMA OpenTruth == ASSUME Truth, OpenOrder PROVE Truth'
<1> DEFINE l == First(Unopened)
           o == order[l][round]
<1>1. /\ pc = "open" /\ l \in legs /\ l \in Leg /\ Unopened # {} /\ o.mem # "Submitted"
      /\ Persist(l, Following(o.mem)) /\ round \in Round
      /\ UNCHANGED <<live, opp, round, legs, filled, chain, durable, hold, conv, todo, errors>>
  <2>1. Unopened \subseteq legs /\ legs \subseteq Leg
    BY DEF Unopened, Truth, TypeOK
  <2>2. l \in Unopened
    BY <2>1, FirstExists DEF OpenOrder
  <2> QED
    BY <2>1, <2>2 DEF OpenOrder, Unopened, Truth, TypeOK
<1>2. o.done = 0 /\ o.booked = 0 /\ o.got = 0
  <2>1. o.done = 0 /\ Fits(o) /\ o.got \in Nat /\ o.booked \in Nat
    BY <1>1, Records DEF Truth, Course, Orders
  <2> QED
    BY <2>1 DEF Fits
<1> HIDE DEF l, o
<1>3. CASE o.mem \in Terminal
  <2>1. ~CanTransition(o.mem, Following(o.mem))
    BY <1>3 DEF CanTransition, Following, Terminal
  <2>2. Abort /\ UNCHANGED order
    BY <1>1, <2>1 DEF Persist, o
  <2> QED
    BY <1>1, <2>2, AbortTruth DEF Truth, TypeOK
<1>4. CASE o.mem \notin Terminal
  <2>1. filled' = IF order'[l][round].mem \in Terminal /\ round # "unwind"
                  THEN [filled EXCEPT ![l] = @ + o.booked] ELSE filled
    <3>1. [filled EXCEPT ![l] = @ + 0] = filled
      BY <1>1 DEF Truth, TypeOK
    <3> QED
      BY <1>1, <1>2, <3>1
  <2> QED
    BY <1>1, <1>2, <1>4, <2>1, PersistTruth DEF o
<1>5. QED
  BY <1>3, <1>4

LEMMA UnclosedFirst ==
  ASSUME Truth, Unclosed # {}
  PROVE  First(Unclosed) \in legs /\ First(Unclosed) \in Leg /\ order[First(Unclosed)][round].mem \notin Terminal
<1>1. Unclosed \subseteq legs /\ legs \subseteq Leg
  BY DEF Unclosed, Truth, TypeOK
<1>2. First(Unclosed) \in Unclosed
  BY <1>1, FirstExists
<1>3. QED
  BY <1>1, <1>2 DEF Unclosed

LEMMA CloseTruth == ASSUME Truth, CloseOrder PROVE Truth'
<1> DEFINE l == First(Unclosed)
           o == order[l][round]
<1>1. /\ pc = "close" /\ l \in legs /\ l \in Leg /\ o.mem \notin Terminal /\ round \in Round
      /\ o.mem = "Live" => o.booked = o.got
      /\ Persist(l, Closing(o))
      /\ errors' = errors + (IF Closing(o) = "Rejected" THEN 1 ELSE 0)
      /\ filled' = IF order'[l][round].mem \in Terminal /\ round # "unwind"
                   THEN [filled EXCEPT ![l] = @ + o.got] ELSE filled
      /\ UNCHANGED <<live, opp, round, legs, chain, durable, hold, conv, todo>>
  BY UnclosedFirst DEF CloseOrder, Truth, TypeOK
<1>2. /\ Fits(o) /\ o.got \in Nat /\ o.booked \in Nat /\ o.done \in Nat /\ errors \in Nat
      /\ filled \in [Leg -> Nat]
  BY <1>1, Records DEF Truth, Orders, TypeOK
<1> HIDE DEF l, o
<1>3. CanTransition(o.mem, Closing(o)) =>
        /\ Closing(o) = "Submitted" => o.booked = 0
        /\ Closing(o) \in Unsent => o.done = 0
        /\ Closing(o) \in {"PartFilled", "Filled", "Cancelled"} => o.booked = o.got
        /\ Closing(o) \in {"Rejected", "Expired"} => o.booked = 0 /\ (~live => o.done = 0)
        /\ Closing(o) \in Terminal => o.booked = o.got
  <2> SUFFICES ASSUME CanTransition(o.mem, Closing(o))
               PROVE  /\ Closing(o) \notin Unsent /\ Closing(o) # "Submitted" /\ Closing(o) # "Expired"
                      /\ Closing(o) \in {"PartFilled", "Filled", "Cancelled"} => o.booked = o.got
                      /\ Closing(o) = "Rejected" => o.booked = 0 /\ o.got = 0 /\ (~live => o.done = 0)
    BY DEF Terminal
  <2>1. CASE o.mem = "Submitted"
    BY <1>2, <2>1 DEF Closing, Fits, Unsent
  <2>2. CASE o.mem = "Live"
    BY <1>1, <2>2 DEF Closing, Unsent
  <2>3. CASE o.mem \notin {"Submitted", "Live"}
    <3>1. Closing(o) = "Cancelled"
      BY <2>3 DEF Closing
    <3>2. o.mem = "PartFilled"
      BY <2>3, <3>1 DEF CanTransition, Terminal
    <3> QED
      BY <1>2, <3>1, <3>2 DEF Fits, Unsent
  <2> QED
    BY <2>1, <2>2, <2>3
<1>4. filled' = IF order'[l][round].mem \in Terminal /\ round # "unwind"
                THEN [filled EXCEPT ![l] = @ + o.booked] ELSE filled
  <2>1. PICK new \in OrderRecord :
          /\ order' = [order EXCEPT ![l][round] = new]
          /\ \/ CanTransition(o.mem, Closing(o)) /\ new.mem = Closing(o)
             \/ new.mem = o.mem
    BY <1>1, PersistMoves DEF Truth, o
  <2>2. order'[l][round] = new
    BY <1>1, <2>1, OneOrder DEF Truth
  <2>3. order'[l][round].mem \in Terminal => o.booked = o.got
    BY <1>1, <1>3, <2>1, <2>2
  <2> QED
    BY <1>1, <2>3
<1>5. errors' = errors \/ (errors' = errors + 1 /\ Closing(o) = "Rejected")
  BY <1>1, <1>2
<1>6. QED
  BY <1>1, <1>3, <1>4, <1>5, PersistTruth DEF o

LEMMA ExpireTruth == ASSUME Truth, ExpireOrder PROVE Truth'
<1> DEFINE l == First(Unclosed)
           o == order[l][round]
<1>1. /\ pc = "expire" /\ l \in legs /\ l \in Leg /\ o.mem \notin Terminal /\ round \in Round
      /\ Persist(l, "Expired")
      /\ UNCHANGED <<live, opp, round, legs, filled, chain, durable, hold, conv, todo, errors>>
  BY UnclosedFirst DEF ExpireOrder, Truth, TypeOK
<1>2. o.booked = 0 /\ (~live => o.done = 0)
  <2>1. Fits(o) /\ o.mem = "Submitted"
    BY <1>1 DEF Truth, Orders, Course, Terminal
  <2> QED
    BY <1>1, <2>1 DEF Fits, Truth, Course
<1> HIDE DEF l, o
<1>3. filled' = IF order'[l][round].mem \in Terminal /\ round # "unwind"
                THEN [filled EXCEPT ![l] = @ + o.booked] ELSE filled
  <2>1. [filled EXCEPT ![l] = @ + 0] = filled
    BY <1>1 DEF Truth, TypeOK
  <2> QED
    BY <1>1, <1>2, <2>1
<1>4. QED
  BY <1>1, <1>2, <1>3, PersistTruth DEF o, Unsent

-----------------------------------------------------------------------------
(* An order asked in another size. *)
LEMMA Resized ==
  ASSUME NEW f \in [Round -> OrderRecord], NEW r \in Round, NEW s \in Nat,
         NEW g, g = [f EXCEPT ![r].size = s]
  PROVE  /\ g \in [Round -> OrderRecord] /\ g[r] = [f[r] EXCEPT !.size = s]
         /\ \A q \in Round : q # r => g[q] = f[q]
<1> DEFINE o == [f[r] EXCEPT !.size = s]
<1>1. o \in OrderRecord
  <2>1. f[r] \in OrderRecord
    OBVIOUS
  <2> QED
    BY <2>1 DEF OrderRecord
<1>2. g = [f EXCEPT ![r] = o]
  OBVIOUS
<1> HIDE DEF o
<1>3. g \in [Round -> OrderRecord] /\ g[r] = o /\ \A q \in Round : q # r => g[q] = f[q]
  BY <1>1, <1>2
<1>4. QED
  BY <1>3 DEF o

LEMMA SplitsDoneTruth == ASSUME Truth, SplitsDone PROVE Truth'
<1>1. /\ pc = "split" /\ pc' = "open" /\ todo = {} /\ outcome = "none" /\ Early /\ ~Merging
      /\ ~Early' /\ ~Merging' /\ round = "main" /\ legs = Leg
      /\ \A l \in Leg, r \in Round : order[l][r] = NoOrder
      /\ order' = [l \in Leg |-> [order[l] EXCEPT !["main"].size = opp.qty[l]]]
      /\ UNCHANGED <<live, opp, round, legs, filled, chain, durable, hold, conv, todo, errors, outcome>>
  BY DEF SplitsDone, Truth, Course, Merging, Early
<1>2. /\ "main" \in Round /\ "repair" \in Round /\ "unwind" \in Round
      /\ NoOrder.mem = "None" /\ NoOrder.row = "None" /\ NoOrder.size = 0 /\ NoOrder.done = 0
      /\ NoOrder.booked = 0 /\ NoOrder.got = 0 /\ NoOrder.resp = "none" /\ NoOrder.sent = FALSE
      /\ order \in [Leg -> [Round -> OrderRecord]]
  BY DEF Round, NoOrder, Truth, TypeOK
<1>3. \A l \in Leg : opp.qty[l] \in Nat
  BY OppFacts DEF Truth, TypeOK
<1>4. ASSUME NEW l \in Leg, NEW r \in Round
      PROVE  /\ order'[l][r].mem = "None" /\ order'[l][r].row = "None" /\ order'[l][r].done = 0
             /\ order'[l][r].booked = 0 /\ order'[l][r].got = 0 /\ order'[l][r].resp = "none"
             /\ order'[l][r].size = (IF r = "main" THEN opp.qty[l] ELSE 0)
             /\ order'[l][r].size \in Nat
  <2>1. order'[l][r] = IF r = "main" THEN [NoOrder EXCEPT !.size = opp.qty[l]] ELSE NoOrder
    BY <1>1, <1>2
  <2>2. NoOrder \in OrderRecord
    BY <1>1, <1>2
  <2> QED
    BY <1>2, <1>3, <2>1, <2>2 DEF OrderRecord
<1>5. TypeOK'
  <2>1. order' \in [Leg -> [Round -> OrderRecord]]
    <3>1. \A l \in Leg : [order[l] EXCEPT !["main"].size = opp.qty[l]] \in [Round -> OrderRecord]
      <4> SUFFICES ASSUME NEW l \in Leg
                   PROVE  [order[l] EXCEPT !["main"].size = opp.qty[l]] \in [Round -> OrderRecord]
        OBVIOUS
      <4> QED
        BY <1>2, <1>3, Resized
    <3> QED
      BY <1>1, <3>1
  <2> QED
    BY <1>1, <2>1 DEF Truth, TypeOK
<1>6. Orders'
  <2>1. ASSUME NEW l \in Leg, NEW r \in Round
        PROVE  /\ Fits(order[l][r])'
               /\ (order[l][r].mem = order[l][r].row /\ (Active(l, r) \/ Resting(order[l][r])))'
    <3>1. /\ order'[l][r].mem = "None" /\ order'[l][r].row = "None" /\ order'[l][r].done = 0
          /\ order'[l][r].booked = 0 /\ order'[l][r].got = 0 /\ order'[l][r].resp = "none"
          /\ order'[l][r].size \in Nat
      BY <1>4
    <3> QED
      BY <3>1 DEF Fits, Resting, Terminal
  <2>2. ASSUME NEW l \in Leg PROVE Sizes(l)'
    <3>1. filled[l] = 0
      BY <1>1, <1>2 DEF Truth, Orders, Sizes, Counted, Terminal
    <3> QED
      BY <1>1, <1>2, <1>3, <1>4, <3>1 DEF Sizes, Counted, Terminal
  <2> QED
    BY <2>1, <2>2 DEF Orders
<1>7. Course'
  BY <1>1, <1>2, <1>4 DEF Truth, Course, NotYet
<1>8. Tapes'
  <2>1. Untraded
    BY <1>1, <1>2, <1>4 DEF Untraded
  <2> QED
    BY <1>1, <2>1, TapesKept
<1>9. QED
  BY <1>1, <1>5, <1>6, <1>7, <1>8, OutcomesKept DEF Truth, Unresolved

-----------------------------------------------------------------------------
(* A round asks for quantities of its own, of legs not yet in such a round.*)
LEMMA NewRoundTruth ==
  ASSUME Truth, pc \in {"repair", "unwind"}, NEW r \in {"repair", "unwind"}, NEW L \in SUBSET Leg,
         NEW sizes, NewRound(r, L, sizes),
         UNCHANGED <<live, opp, filled, chain, durable, hold, conv, todo, errors, outcome>>,
         \A l \in L : /\ sizes[l] \in Nat /\ order[l][r].mem = "None"
                      /\ r = "repair" => sizes[l] + order[l]["main"].booked <= opp.qty[l]
                      /\ r = "unwind" => sizes[l] = Surplus(l) /\ opp.buy[l],
         r = "repair" => round = "main"
  PROVE  Truth'
<1>1. /\ round' = r /\ legs' = L /\ pc' = "open" /\ ~Early /\ ~Early' /\ ~Merging /\ ~Merging'
      /\ outcome = "none" /\ todo = {} /\ r \in Round /\ r # "main"
      /\ order' = [l \in Leg |-> IF l \in L THEN [order[l] EXCEPT ![r].size = sizes[l]] ELSE order[l]]
  BY DEF NewRound, Early, Merging, Truth, Course, Round
<1>2. /\ order \in [Leg -> [Round -> OrderRecord]]
      /\ "main" \in Round /\ "repair" \in Round /\ "unwind" \in Round
  BY DEF Truth, TypeOK, Round
<1>3. ASSUME NEW l \in Leg
      PROVE  /\ order'[l] \in [Round -> OrderRecord]
             /\ \A q \in Round : ~(l \in L /\ q = r) => order'[l][q] = order[l][q]
             /\ l \in L => order'[l][r] = [order[l][r] EXCEPT !.size = sizes[l]]
  <2>1. CASE l \in L
    <3>1. order'[l] = [order[l] EXCEPT ![r].size = sizes[l]]
      BY <1>1, <2>1
    <3>2. order[l] \in [Round -> OrderRecord] /\ r \in Round /\ sizes[l] \in Nat
      BY <1>1, <1>2, <2>1
    <3>3. order'[l] \in [Round -> OrderRecord] /\ order'[l][r] = [order[l][r] EXCEPT !.size = sizes[l]]
          /\ \A q \in Round : q # r => order'[l][q] = order[l][q]
      BY <3>1, <3>2, Resized
    <3> QED
      BY <2>1, <3>3
  <2>2. CASE l \notin L
    BY <1>1, <1>2, <2>2
  <2> QED
    BY <2>1, <2>2
<1>4. ASSUME NEW l \in Leg, NEW q \in Round
      PROVE  LET o == order[l][q]
                 n == order'[l][q]
             IN  /\ n.mem = o.mem /\ n.row = o.row /\ n.sent = o.sent /\ n.done = o.done
                 /\ n.resp = o.resp /\ n.got = o.got /\ n.booked = o.booked
                 /\ n.size = IF l \in L /\ q = r THEN sizes[l] ELSE o.size
  <2>1. CASE l \in L /\ q = r
    <3>1. order'[l][q] = [order[l][q] EXCEPT !.size = sizes[l]] /\ order[l][q] \in OrderRecord
      BY <1>2, <1>3, <2>1
    <3> QED
      BY <2>1, <3>1 DEF OrderRecord
  <2>2. CASE ~(l \in L /\ q = r)
    BY <1>3, <2>2
  <2> QED
    BY <2>1, <2>2
<1>5. TypeOK'
  <2>1. order' \in [Leg -> [Round -> OrderRecord]]
    <3>1. order' = [l \in Leg |-> order'[l]]
      BY <1>1
    <3> QED
      BY <1>3, <3>1
  <2> QED
    BY <1>1, <2>1 DEF Truth, TypeOK
<1>6. ASSUME NEW l \in Leg, NEW q \in Round PROVE Fits(order[l][q])'
  <2>1. /\ Fits(order[l][q]) /\ order[l][q].done \in Nat
    BY Records DEF Truth, Orders
  <2>2. CASE l \in L /\ q = r
    <3>1. order[l][q].mem = "None" /\ sizes[l] \in Nat
      BY <2>2
    <3>2. order'[l][q].done <= order'[l][q].size
      <4>1. order[l][q].done = 0
        BY <2>1, <3>1 DEF Fits, Unsent
      <4> QED
        BY <1>4, <2>2, <3>1, <4>1
    <3> QED
      BY <1>4, <2>1, <3>2 DEF Fits
  <2>3. CASE ~(l \in L /\ q = r)
    BY <1>4, <2>1, <2>3 DEF Fits
  <2> QED
    BY <2>2, <2>3
<1>7. ASSUME NEW l \in Leg PROVE Sizes(l)'
  <2>1. Surplus(l)' = Surplus(l) /\ Sizes(l)
    BY DEF Surplus, Truth, Orders
  <2>2. order'[l]["unwind"].size \in {0, Surplus(l)} /\ (order'[l]["unwind"].size # 0 => opp.buy[l])
    BY <1>2, <1>4, <2>1 DEF Sizes
  <2>3. order'[l]["repair"].size + order'[l]["main"].booked <= opp.qty[l]
    BY <1>2, <1>4, <2>1 DEF Sizes
  <2>4. order'[l]["main"].size = order[l]["main"].size
    BY <1>1, <1>2, <1>4
  <2>5. /\ Counted(order'[l]["main"]) = Counted(order[l]["main"])
        /\ Counted(order'[l]["repair"]) = Counted(order[l]["repair"])
    BY <1>2, <1>4 DEF Counted
  <2> QED
    BY <2>1, <2>2, <2>3, <2>4, <2>5 DEF Sizes, Counted
<1>8. Orders'
  <2>1. ASSUME NEW l \in Leg, NEW q \in Round
        PROVE  (order[l][q].mem = order[l][q].row /\ (Active(l, q) \/ Resting(order[l][q])))'
    <3>1. order[l][q].mem = order[l][q].row /\ Resting(order[l][q])
      BY <1>1 DEF Truth, Orders, Active
    <3> QED
      BY <1>4, <3>1 DEF Resting
  <2> QED
    BY <1>6, <1>7, <2>1 DEF Orders
<1>9. Course'
  <2>1. ASSUME NEW l \in Leg, NEW q \in Round, q # r, NotYet(l, q) PROVE NotYet(l, q)'
    BY <1>4, <2>1 DEF NotYet
  <2>2. \A l \in L : order'[l][r].done = 0
    <3> SUFFICES ASSUME NEW l \in L PROVE order'[l][r].done = 0
      OBVIOUS
    <3>1. Fits(order[l][r])
      BY <1>1 DEF Truth, Orders
    <3> QED
      BY <1>1, <1>4, <3>1 DEF Fits, Unsent
  <2>3. r = "repair" => \A l \in Leg : NotYet(l, "unwind")
    BY DEF Truth, Course
  <2> QED
    BY <1>1, <1>2, <2>1, <2>2, <2>3 DEF Truth, Course
<1>10. Tapes'
  <2>1. Untraded
    BY <1>4 DEF Untraded
  <2> QED
    BY <1>1, <2>1, TapesKept
<1>11. QED
  BY <1>1, <1>5, <1>8, <1>9, <1>10, OutcomesKept DEF Truth, Unresolved

(* A round that ends without a report: every order rests. *)
LEMMA OnwardTruth ==
  ASSUME Truth, pc \in {"close", "expire", "repair"}, pc' \in {"repair", "unwind"},
         \A l \in legs : order[l][round].mem \in Terminal \/ pc = "repair",
         pc' = "repair" => round = "main",
         UNCHANGED <<live, opp, round, legs, order, filled, chain, durable, hold, conv, todo,
                     errors, outcome>>
  PROVE  Truth'
<1>1. outcome = "none" /\ ~Early /\ ~Early' /\ ~Merging /\ ~Merging'
  BY DEF Truth, Course, Early, Merging
<1>2. TypeOK'
  BY <1>1, TypeKept DEF Truth, TypeOK
<1>3. Orders'
  BY <1>1, OrdersKept DEF Active, Resting
<1>4. Course'
  BY <1>1 DEF Truth, Course, NotYet
<1>5. Tapes'
  BY <1>1, TapesKept DEF Untraded
<1>6. QED
  BY <1>1, <1>2, <1>3, <1>4, <1>5, OutcomesKept DEF Truth, Unresolved

LEMMA RepairTruth == ASSUME Truth, StartRepair PROVE Truth'
<1>1. /\ pc = "repair" /\ round = "main" /\ ~Early
      /\ UNCHANGED <<live, opp, filled, chain, durable, hold, conv, todo, errors, outcome>>
  BY DEF StartRepair, Truth, Course, Early
<1>2. CASE pc' = "unwind" /\ UNCHANGED <<round, legs, order>>
  BY <1>1, <1>2, OnwardTruth
<1> DEFINE sizes == [l \in Leg |-> opp.qty[l] - filled[l]]
<1>3. ASSUME NEW L \in SUBSET {l \in Leg : filled[l] < opp.qty[l]}, NewRound("repair", L, sizes)
      PROVE  Truth'
  <2>1. ASSUME NEW l \in L
        PROVE  /\ sizes[l] \in Nat /\ order[l]["repair"].mem = "None"
               /\ sizes[l] + order[l]["main"].booked <= opp.qty[l]
    <3>1. /\ filled[l] \in Nat /\ opp.qty[l] \in Nat /\ filled[l] < opp.qty[l] /\ l \in Leg
          /\ order[l]["main"].booked \in Nat /\ order[l]["main"].done \in Nat
          /\ order[l]["main"].got \in Nat
      BY Records, OppFacts DEF Truth, TypeOK
    <3>2. NotYet(l, "repair")
      BY <1>1, <3>1 DEF Truth, Course
    <3>3. order[l]["main"].booked = filled[l]
      <4>1. /\ Fits(order[l]["main"]) /\ Resting(order[l]["main"])
            /\ filled[l] = Counted(order[l]["main"]) + Counted(order[l]["repair"])
        BY <1>1, <3>1, Records DEF Truth, Orders, Sizes, Active, Course
      <4>2. Counted(order[l]["repair"]) = 0
        BY <3>2 DEF NotYet, Counted, Terminal
      <4>3. order[l]["main"].mem = "None" => order[l]["main"].booked = 0
        BY <3>1, <4>1 DEF Fits, Unsent
      <4> QED
        BY <3>1, <4>1, <4>2, <4>3 DEF Counted, Resting
    <3>4. sizes[l] = opp.qty[l] - filled[l]
      BY <3>1
    <3> HIDE DEF sizes
    <3> QED
      BY <3>1, <3>2, <3>3, <3>4 DEF NotYet
  <2> HIDE DEF sizes
  <2>2. L \in SUBSET Leg
    OBVIOUS
  <2> QED
    BY <1>1, <1>3, <2>1, <2>2, NewRoundTruth
<1>4. QED
  BY <1>2, <1>3 DEF StartRepair

-----------------------------------------------------------------------------
(* Once every order rests, the ledger holds what it holds for a reason: in *)
(* paper mode all that the venue traded.                                   *)
LEMMA SettleTapes ==
  ASSUME Truth, pc \in {"close", "expire", "unwind"}, pc' = "settle", outcome' # "Err",
         \A l \in Leg, r \in Round : Resting(order[l][r]),
         UNCHANGED <<live, opp, order, chain, durable, hold, conv, todo>>
  PROVE  Tapes'
<1>1. outcome = "none" /\ ~Early /\ ~Merging /\ Merging' /\ todo = {}
  BY DEF Truth, Course, Early, Merging
<1>2. ASSUME ~live, NEW t \in Token PROVE chain[t] = hold[t]
  <2>1. \A l \in Leg, r \in Round : order[l][r].booked = order[l][r].done
    <3> SUFFICES ASSUME NEW l \in Leg, NEW r \in Round PROVE order[l][r].booked = order[l][r].done
      OBVIOUS
    <3>1. /\ Fits(order[l][r]) /\ Resting(order[l][r])
          /\ order[l][r].booked \in Nat /\ order[l][r].got \in Nat /\ order[l][r].done \in Nat
      BY Records DEF Truth, Orders
    <3> QED
      BY <1>2, <3>1 DEF Fits, Resting, Terminal, Unsent
  <2>2. BookedOn(order, t) = DoneOn(order, t)
    BY <2>1 DEF BookedOn, DoneOn, Net, Round
  <2>3. Recorded(t) = Made(t)
    BY DEF Recorded
  <2> QED
    BY <1>1, <2>2, <2>3 DEF Truth, Tapes, Accounted
<1>3. ~live => chain = hold
  BY <1>2 DEF Truth, TypeOK
<1>4. durable = hold
  BY <1>1 DEF Truth, Tapes
<1>5. QED
  BY <1>1, <1>3, <1>4 DEF Truth, Tapes, Accounted, Agreed, Explained

LEMMA SettleTruth ==
  ASSUME Truth, pc \in {"close", "expire", "unwind"}, pc' = "settle",
         outcome' \in {"NoFill", "FilledClean", "Repaired", "Unwound"},
         \A l \in Leg, r \in Round : Resting(order[l][r]),
         UNCHANGED <<live, opp, round, legs, order, filled, chain, durable, hold, conv, todo, errors>>,
         Outcomes'
  PROVE  Truth'
<1>1. outcome = "none" /\ ~Early /\ ~Merging /\ ~Early' /\ Merging'
  BY DEF Truth, Course, Early, Merging
<1>2. TypeOK'
  BY <1>1, TypeKept DEF Truth, TypeOK
<1>3. Orders'
  BY <1>1, OrdersKept
<1>4. Course'
  BY <1>1 DEF Truth, Course, NotYet
<1>5. QED
  BY <1>2, <1>3, <1>4, SettleTapes DEF Truth

LEMMA RoundEndsTruth == ASSUME Truth, RoundEnds PROVE Truth'
<1>1. /\ pc \in {"close", "expire"} /\ Unclosed = {} /\ outcome = "none" /\ ~Early /\ ~Merging
      /\ todo = {}
      /\ UNCHANGED <<live, opp, round, legs, order, filled, chain, durable, hold, conv, todo, errors>>
  BY DEF RoundEnds, Truth, Course, Early, Merging
<1>2. \A l \in legs : order[l][round].mem \in Terminal
  BY <1>1 DEF Unclosed
<1>3. \A l \in Leg, r \in Round : Resting(order[l][r])
  BY <1>1, <1>2 DEF Truth, Orders, Active, Resting
<1>4. CASE pc' \in {"repair", "unwind"} /\ outcome' = outcome /\ (pc' = "repair" => round = "main")
  BY <1>1, <1>2, <1>4, OnwardTruth
<1>5. CASE round = "main" /\ Complete /\ pc' = "settle" /\ outcome' = "FilledClean"
  <2>1. errors = 0
    <3> SUFFICES ASSUME errors # 0 PROVE FALSE
      OBVIOUS
    <3>1. PICK l \in Leg : order[l]["main"].mem = "Rejected"
      BY <1>1, <1>5 DEF Truth, Course, TypeOK
    <3>2. NotYet(l, "repair") /\ Fits(order[l]["main"]) /\ Sizes(l)
      BY <1>5 DEF Truth, Course, Orders, Round
    <3>3. filled[l] = 0
      BY <3>1, <3>2 DEF NotYet, Sizes, Counted, Fits, Terminal
    <3>4. filled[l] = opp.qty[l] /\ opp.qty[l] \in Nat \ {0}
      BY <1>5, OppFacts DEF Complete, Truth, TypeOK
    <3> QED
      BY <3>3, <3>4
  <2>2. Outcomes'
    BY <1>1, <1>5, <2>1 DEF Outcomes, Complete
  <2> QED
    BY <1>1, <1>3, <1>5, <2>2, SettleTruth
<1>6. CASE /\ round = "main" /\ (\A l \in Leg : filled[l] = 0) /\ NoSplit
           /\ pc' = "settle" /\ outcome' = "NoFill"
  <2>1. ASSUME NEW t \in Token PROVE hold[t] = 0
    <3>1. ASSUME NEW l \in Leg PROVE BookedOn(order, t)[l] = 0
      <4>1. /\ NotYet(l, "repair") /\ NotYet(l, "unwind") /\ Resting(order[l]["main"])
            /\ \A r \in Round : Fits(order[l][r]) /\ order[l][r].booked \in Nat
                                /\ order[l][r].got \in Nat /\ order[l][r].done \in Nat
            /\ filled[l] = Counted(order[l]["main"]) + Counted(order[l]["repair"])
            /\ "main" \in Round /\ "repair" \in Round /\ "unwind" \in Round
        BY <1>3, <1>6, Records DEF Truth, Course, Orders, Sizes
      <4>2. \A r \in Round : order[l][r].mem = "None" => order[l][r].booked = 0
        BY <4>1 DEF Fits, Unsent
      <4>3. order[l]["repair"].booked = 0 /\ order[l]["unwind"].booked = 0
        BY <4>1, <4>2 DEF NotYet
      <4>4. order[l]["main"].booked = 0
        BY <1>6, <4>1, <4>2, <4>3 DEF Counted, Resting, NotYet, Terminal
      <4>5. \E z \in Int : z = 0 /\ -z = 0
        OBVIOUS
      <4> QED
        BY <4>3, <4>4, <4>5 DEF BookedOn, Net
    <3>2. Total(BookedOn(order, t), Leg) = 0
      BY <3>1, LegFacts, TotalZero
    <3>3. Recorded(t) = 0
      BY <1>1, <1>6, MarketFacts DEF Recorded, Made, NoSplit
    <3> QED
      BY <1>1, <3>2, <3>3 DEF Truth, Tapes, Accounted
  <2>2. Outcomes'
    BY <1>1, <1>6, <2>1 DEF Outcomes
  <2> QED
    BY <1>1, <1>3, <1>6, <2>2, SettleTruth
<1>7. QED
  BY <1>1, <1>4, <1>5, <1>6 DEF RoundEnds

LEMMA UnwindTruth == ASSUME Truth, StartUnwind PROVE Truth'
<1>1. /\ pc = "unwind" /\ outcome = "none" /\ ~Early /\ ~Merging
      /\ UNCHANGED <<live, opp, filled, chain, durable, hold, conv, todo, errors>>
  BY DEF StartUnwind, Truth, Course, Early, Merging
<1>2. CASE ToUnwind = {}
  <2>1. /\ outcome' = (IF Complete THEN "Repaired" ELSE "Unwound") /\ pc' = "settle"
        /\ UNCHANGED <<round, legs, order>>
    BY <1>2 DEF StartUnwind
  <2>2. \A l \in Leg, r \in Round : Resting(order[l][r])
    BY <1>1 DEF Truth, Orders, Active
  <2>3. Outcomes'
    BY <1>1, <2>1 DEF Outcomes, Complete
  <2> QED
    BY <1>1, <2>1, <2>2, <2>3, SettleTruth
<1>3. CASE ToUnwind # {}
  <2> DEFINE l == First(ToUnwind)
             sizes == [k \in Leg |-> Surplus(k)]
  <2>1. NewRound("unwind", {l}, sizes) /\ outcome' = outcome
    BY <1>3 DEF StartUnwind
  <2>2. l \in Leg /\ opp.buy[l] /\ order[l]["unwind"].mem = "None"
    <3>1. l \in ToUnwind
      BY <1>3, FirstExists DEF ToUnwind
    <3> QED
      BY <3>1 DEF ToUnwind
  <2>3. sizes[l] = Surplus(l) /\ Surplus(l) \in Nat
    BY <2>2, SurplusFits DEF Truth, TypeOK
  <2> HIDE DEF l, sizes
  <2>4. {l} \in SUBSET Leg
    BY <2>2
  <2> QED
    BY <1>1, <2>1, <2>2, <2>3, <2>4, NewRoundTruth
<1>4. QED
  BY <1>2, <1>3

-----------------------------------------------------------------------------
(* A trade of the running round changes what its leg nets to by its signed *)
(* quantity.                                                               *)
LEMMA NetMoves ==
  ASSUME opp \in Opp, round \in Round, NEW l \in Leg, NEW m \in Nat, NEW r \in Nat, NEW u \in Nat,
         NEW q \in Nat
  PROVE  /\ Net(l, m, r, u) \in Int /\ Signed(l, round, q) \in Int
         /\ Net(l, IF round = "main" THEN m + q ELSE m, IF round = "repair" THEN r + q ELSE r,
                IF round = "unwind" THEN u + q ELSE u)
              = Net(l, m, r, u) + Signed(l, round, q)
<1>1. opp.buy[l] \in BOOLEAN /\ round \in {"main", "repair", "unwind"}
  BY OppFacts DEF Round
<1>2. CASE opp.buy[l]
  BY <1>1, <1>2 DEF Net, Signed
<1>3. CASE ~opp.buy[l]
  BY <1>1, <1>3 DEF Net, Signed
<1>4. QED
  BY <1>1, <1>2, <1>3

(* One leg moves the total of its token. *)
LEMMA OneMoves ==
  ASSUME opp \in Opp, NEW l \in Leg, NEW t \in Token, NEW f, NEW g, NEW d \in Int,
         \A k \in Leg : f[k] \in Int, \A k \in Leg \ {l} : f[k] = g[k],
         g[l] = IF opp.token[l] = t THEN f[l] + d ELSE f[l]
  PROVE  Total(g, Leg) = IF opp.token[l] = t THEN Total(f, Leg) + d ELSE Total(f, Leg)
<1>1. \A k \in Leg : g[k] \in Int
  OBVIOUS
<1>2. Total(g, Leg) = Total(f, Leg) - f[l] + g[l]
  <2>1. IsFiniteSet(Leg) /\ \A k \in Leg : f[k] \in Int /\ g[k] \in Int
    BY <1>1, LegFacts
  <2> QED
    BY <2>1, TotalChange
<1>3. Total(f, Leg) \in Int
  BY LegFacts, TotalType
<1>4. f[l] \in Int /\ g[l] \in Int
  BY <1>1
<1>5. QED
  BY <1>2, <1>3, <1>4

LEMMA SumTypes ==
  ASSUME TypeOK, NEW t \in Token, NEW l \in Leg
  PROVE  BookedOn(order, t)[l] \in Int /\ DoneOn(order, t)[l] \in Int
BY Records, OppFacts DEF BookedOn, DoneOn, Net, TypeOK

LEMMA DoneTyped ==
  ASSUME TypeOK', UNCHANGED opp, opp \in Opp, NEW t \in Token, NEW l \in Leg
  PROVE  DoneOn(order, t)'[l] \in Int
<1>1. "main" \in Round /\ "repair" \in Round /\ "unwind" \in Round
  BY DEF Round
<1>2. \A r \in Round : order'[l][r].done \in Nat
  BY DEF TypeOK, OrderRecord
<1>3. opp.buy[l] \in BOOLEAN
  BY OppFacts
<1>4. QED
  BY <1>1, <1>2, <1>3 DEF DoneOn, Net

(* What the orders of a leg that did not move net to stays.                *)
LEMMA LegStays ==
  ASSUME UNCHANGED opp, NEW l \in Leg, NEW t \in Token
  PROVE  /\ (\A r \in Round : order'[l][r].done = order[l][r].done) =>
              DoneOn(order, t)'[l] = DoneOn(order, t)[l]
         /\ (\A r \in Round : order'[l][r].booked = order[l][r].booked) =>
              BookedOn(order, t)'[l] = BookedOn(order, t)[l]
<1>1. "main" \in Round /\ "repair" \in Round /\ "unwind" \in Round
  BY DEF Round
<1>2. QED
  BY <1>1 DEF DoneOn, BookedOn, Net

LEMMA LegMoves ==
  ASSUME TypeOK, UNCHANGED opp, NEW l \in Leg, NEW t \in Token, NEW q \in Nat
  PROVE  /\ Signed(l, round, q) \in Int
         /\ (\A r \in Round : order'[l][r].done =
               IF r = round THEN order[l][r].done + q ELSE order[l][r].done) =>
              DoneOn(order, t)'[l] = IF opp.token[l] = t THEN DoneOn(order, t)[l] + Signed(l, round, q)
                                                         ELSE DoneOn(order, t)[l]
         /\ (\A r \in Round : order'[l][r].booked =
               IF r = round THEN order[l][r].booked + q ELSE order[l][r].booked) =>
              BookedOn(order, t)'[l] = IF opp.token[l] = t THEN BookedOn(order, t)[l] + Signed(l, round, q)
                                                           ELSE BookedOn(order, t)[l]
<1>1. "main" \in Round /\ "repair" \in Round /\ "unwind" \in Round /\ round \in Round /\ opp \in Opp
  BY DEF Round, TypeOK
<1>2. Signed(l, round, q) \in Int
  BY <1>1, NetMoves
<1>3. ASSUME \A r \in Round : order'[l][r].done =
               IF r = round THEN order[l][r].done + q ELSE order[l][r].done
      PROVE  DoneOn(order, t)'[l] = IF opp.token[l] = t THEN DoneOn(order, t)[l] + Signed(l, round, q)
                                                         ELSE DoneOn(order, t)[l]
  <2> DEFINE m == order[l]["main"].done
             r == order[l]["repair"].done
             u == order[l]["unwind"].done
  <2>1. /\ order'[l]["main"].done = IF round = "main" THEN m + q ELSE m
        /\ order'[l]["repair"].done = IF round = "repair" THEN r + q ELSE r
        /\ order'[l]["unwind"].done = IF round = "unwind" THEN u + q ELSE u
    BY <1>1, <1>3
  <2>2. m \in Nat /\ r \in Nat /\ u \in Nat
    BY <1>1, Records
  <2>3. DoneOn(order, t)[l] = IF opp.token[l] # t THEN 0 ELSE Net(l, m, r, u)
    BY DEF DoneOn
  <2>4. DoneOn(order, t)'[l] = IF opp.token[l] # t THEN 0
          ELSE Net(l, order'[l]["main"].done, order'[l]["repair"].done, order'[l]["unwind"].done)
    BY DEF DoneOn, Net
  <2>5. DoneOn(order, t)'[l] = IF opp.token[l] # t THEN 0
          ELSE Net(l, IF round = "main" THEN m + q ELSE m, IF round = "repair" THEN r + q ELSE r,
                   IF round = "unwind" THEN u + q ELSE u)
    BY ONLY <2>1, <2>4
  <2> HIDE DEF m, r, u
  <2>6. Net(l, IF round = "main" THEN m + q ELSE m, IF round = "repair" THEN r + q ELSE r,
                IF round = "unwind" THEN u + q ELSE u)
              = Net(l, m, r, u) + Signed(l, round, q)
    BY <1>1, <2>2, NetMoves
  <2> QED
    BY ONLY <2>3, <2>5, <2>6
<1>4. ASSUME \A r \in Round : order'[l][r].booked =
               IF r = round THEN order[l][r].booked + q ELSE order[l][r].booked
      PROVE  BookedOn(order, t)'[l] = IF opp.token[l] = t THEN BookedOn(order, t)[l] + Signed(l, round, q)
                                                           ELSE BookedOn(order, t)[l]
  <2> DEFINE m == order[l]["main"].booked
             r == order[l]["repair"].booked
             u == order[l]["unwind"].booked
  <2>1. /\ order'[l]["main"].booked = IF round = "main" THEN m + q ELSE m
        /\ order'[l]["repair"].booked = IF round = "repair" THEN r + q ELSE r
        /\ order'[l]["unwind"].booked = IF round = "unwind" THEN u + q ELSE u
    BY <1>1, <1>4
  <2>2. m \in Nat /\ r \in Nat /\ u \in Nat
    BY <1>1, Records
  <2>3. BookedOn(order, t)[l] = IF opp.token[l] # t THEN 0 ELSE Net(l, m, r, u)
    BY DEF BookedOn
  <2>4. BookedOn(order, t)'[l] = IF opp.token[l] # t THEN 0
          ELSE Net(l, order'[l]["main"].booked, order'[l]["repair"].booked, order'[l]["unwind"].booked)
    BY DEF BookedOn, Net
  <2>5. BookedOn(order, t)'[l] = IF opp.token[l] # t THEN 0
          ELSE Net(l, IF round = "main" THEN m + q ELSE m, IF round = "repair" THEN r + q ELSE r,
                   IF round = "unwind" THEN u + q ELSE u)
    BY ONLY <2>1, <2>4
  <2> HIDE DEF m, r, u
  <2>6. Net(l, IF round = "main" THEN m + q ELSE m, IF round = "repair" THEN r + q ELSE r,
                IF round = "unwind" THEN u + q ELSE u)
              = Net(l, m, r, u) + Signed(l, round, q)
    BY <1>1, <2>2, NetMoves
  <2> QED
    BY ONLY <2>3, <2>5, <2>6
<1>5. QED
  BY <1>2, <1>3, <1>4

-----------------------------------------------------------------------------
(* Answers of the venue: they leave the states of the orders and the books.*)
LEMMA AnswersKeep ==
  ASSUME Truth, pc = "submit", pc' \in {"submit", "close"}, pc' = "submit" => live,
         UNCHANGED <<live, opp, round, legs, filled, durable, hold, conv, todo, errors, outcome>>,
         order' \in [Leg -> [Round -> OrderRecord]], chain' \in [Token -> Int],
         \A l \in Leg, r \in Round :
           /\ order'[l][r].size = order[l][r].size /\ order'[l][r].booked = order[l][r].booked
           /\ order'[l][r].mem = order[l][r].mem /\ order'[l][r].row = order[l][r].row
           /\ Fits(order[l][r])',
         \A t \in Token : chain'[t] - chain[t] = Total(DoneOn(order, t)', Leg) - Total(DoneOn(order, t), Leg)
  PROVE  Truth'
<1>1. outcome = "none" /\ ~Early /\ ~Early' /\ ~Merging /\ ~Merging' /\ todo = {} /\ outcome' # "Err"
  BY DEF Truth, Course, Early, Merging
<1>2. TypeOK'
  BY DEF Truth, TypeOK
<1>3. /\ "main" \in Round /\ "repair" \in Round /\ "unwind" \in Round
  BY DEF Round
<1>4. ASSUME NEW k \in Leg PROVE Sizes(k)'
  <2>1. filled'[k] = Counted(order'[k]["main"]) + Counted(order'[k]["repair"])
    BY <1>3 DEF Truth, Orders, Sizes, Counted
  <2> QED
    BY <1>2, <1>3, <2>1, SizesKept
<1>5. Orders'
  <2>1. ASSUME NEW l \in Leg, NEW r \in Round
        PROVE  (order[l][r].mem = order[l][r].row /\ (Active(l, r) \/ Resting(order[l][r])))'
    BY <1>1 DEF Truth, Orders, Active, Resting
  <2> QED
    BY <1>4, <2>1 DEF Orders
<1>6. Course'
  BY <1>1, <1>3 DEF Truth, Course, NotYet, Early, Merging
<1>7. Accounted'
  <2>1. ASSUME NEW t \in Token
        PROVE  /\ hold'[t] = Recorded(t)' + Total(BookedOn(order, t)', Leg)
               /\ chain'[t] = Made(t)' + Total(DoneOn(order, t)', Leg)
    <3>1. /\ hold[t] = Recorded(t) + Total(BookedOn(order, t), Leg)
          /\ chain[t] = Made(t) + Total(DoneOn(order, t), Leg)
          /\ Recorded(t)' = Recorded(t) /\ Made(t)' = Made(t) /\ Made(t) \in Nat
      BY <1>1, OppFacts, MarketFacts DEF Truth, TypeOK, Tapes, Accounted, Recorded, Made
    <3>2. BookedOn(order, t)' = BookedOn(order, t)
      BY <1>3 DEF BookedOn, Net
    <3>3. Total(DoneOn(order, t), Leg) \in Int /\ Total(DoneOn(order, t)', Leg) \in Int
      <4>1. \A l \in Leg : DoneOn(order, t)[l] \in Int
        BY SumTypes DEF Truth
      <4>2. \A l \in Leg : DoneOn(order, t)'[l] \in Int
        <5>1. opp' = opp /\ opp \in Opp
          BY DEF Truth, TypeOK
        <5> QED
          BY <1>2, <5>1, DoneTyped
      <4> QED
        BY <4>1, <4>2, LegFacts, TotalType
    <3>4. chain'[t] - chain[t] = Total(DoneOn(order, t)', Leg) - Total(DoneOn(order, t), Leg)
          /\ chain'[t] \in Int /\ chain[t] \in Int
      BY DEF Truth, TypeOK
    <3>5. chain'[t] = Made(t)' + Total(DoneOn(order, t)', Leg)
      <4> DEFINE d == Total(DoneOn(order, t), Leg)
                 e == Total(DoneOn(order, t)', Leg)
                 c == chain[t]
                 k == chain'[t]
                 a == Made(t)
                 b == Made(t)'
      <4>1. c = a + d /\ b = a /\ a \in Nat /\ d \in Int /\ e \in Int /\ k - c = e - d /\ k \in Int /\ c \in Int
        BY <3>1, <3>3, <3>4
      <4> HIDE DEF a, b, c, d, e, k
      <4>2. k = b + e
        BY ONLY <4>1
      <4> QED
        BY <4>2 DEF k, b, e
    <3>6. hold'[t] = hold[t]
      OBVIOUS
    <3> QED
      BY <3>1, <3>2, <3>5, <3>6
  <2> QED
    BY <2>1 DEF Accounted
<1>8. \A t \in Token : chain'[t] >= 0
  BY <1>1, <1>2, <1>5, <1>6, <1>7, ChainCoveredNext
<1>9. Tapes'
  BY <1>1, <1>7, <1>8 DEF Truth, Tapes, Agreed, Explained
<1>10. QED
  BY <1>1, <1>2, <1>5, <1>6, <1>9, OutcomesKept DEF Truth, Unresolved

-----------------------------------------------------------------------------
LEMMA UnansweredFirst ==
  ASSUME Truth, Unanswered # {}
  PROVE  First(Unanswered) \in legs /\ First(Unanswered) \in Leg
<1>1. Unanswered \subseteq legs /\ legs \subseteq Leg
  BY DEF Unanswered, Truth, TypeOK
<1>2. First(Unanswered) \in Unanswered
  BY <1>1, FirstExists
<1>3. QED
  BY <1>1, <1>2 DEF Unanswered

LEMMA SubmittedIs ==
  ASSUME Truth, IInv, pc = "submit", NEW l \in legs
  PROVE  LET o == order[l][round] IN
         /\ l \in Leg /\ round \in Round /\ o \in OrderRecord /\ Fits(o)
         /\ o.mem = "Submitted" /\ o.booked = 0 /\ o.got \in Nat /\ o.done \in Nat /\ o.size \in Nat
         /\ (~o.sent \/ ~live => o.done = 0 /\ o.got = 0)
<1>1. l \in Leg /\ round \in Round /\ order[l][round].mem = "Submitted"
  BY DEF Truth, TypeOK, IInv, AllSubmitted
<1>2. /\ order[l][round] \in OrderRecord /\ Fits(order[l][round]) /\ order[l][round].got \in Nat
      /\ order[l][round].done \in Nat /\ order[l][round].size \in Nat
      /\ order[l][round].booked \in Nat
  BY <1>1, Records DEF Truth, Orders
<1>3. ~live => order[l][round].done = 0
  BY DEF Truth, Course
<1>4. QED
  BY <1>1, <1>2, <1>3 DEF Fits

LEMMA SendTruth == ASSUME Truth, IInv, LiveSend PROVE Truth'
<1> DEFINE l == First(Unanswered)
           o == order[l][round]
<1>1. PICK q \in 0..o.size :
        /\ order' = [order EXCEPT ![l][round].sent = TRUE, ![l][round].done = q]
        /\ chain' = Moved(chain, l, round, q)
  BY DEF LiveSend
<1>2. /\ live /\ pc = "submit" /\ Unanswered # {} /\ ~o.sent
      /\ UNCHANGED <<live, opp, pc, round, legs, filled, durable, hold, conv, todo, errors, outcome>>
  BY DEF LiveSend
<1>3. l \in legs /\ l \in Leg
  BY <1>2, UnansweredFirst
<1> DEFINE new == [o EXCEPT !.sent = TRUE, !.done = q]
<1>4. /\ round \in Round /\ o \in OrderRecord /\ Fits(o) /\ o.mem = "Submitted" /\ o.booked = 0
      /\ o.done = 0 /\ o.got = 0 /\ o.size \in Nat /\ q \in Nat /\ q <= o.size
  BY <1>1, <1>2, <1>3, SubmittedIs
<1> HIDE DEF l
<1>5. order' = [order EXCEPT ![l][round] = new]
  BY <1>1
<1>6. /\ new \in OrderRecord /\ new.sent = TRUE /\ new.done = q /\ new.mem = o.mem /\ new.row = o.row
      /\ new.size = o.size /\ new.resp = o.resp /\ new.got = o.got /\ new.booked = o.booked
  BY <1>4 DEF OrderRecord
<1>7. Fits(new)
  <2> HIDE DEF new, o
  <2> QED
    BY <1>2, <1>4, <1>6 DEF Fits, Unsent
<1> HIDE DEF new
<1>8. /\ order' \in [Leg -> [Round -> OrderRecord]] /\ order'[l][round] = new
      /\ \A k \in Leg, r \in Round : k # l \/ r # round => order'[k][r] = order[k][r]
  BY <1>3, <1>5, <1>6, OneOrder DEF Truth
<1>9. ASSUME NEW k \in Leg, NEW r \in Round
      PROVE  /\ order'[k][r].size = order[k][r].size /\ order'[k][r].booked = order[k][r].booked
             /\ order'[k][r].mem = order[k][r].mem /\ order'[k][r].row = order[k][r].row
             /\ Fits(order[k][r])'
  <2>1. Fits(order'[k][r])
    BY <1>7, <1>8 DEF Truth, Orders
  <2>2. Fits(order[k][r])'
    BY <1>2, <2>1 DEF Fits
  <2> QED
    BY <1>6, <1>8, <2>2
<1>10. ASSUME NEW t \in Token
       PROVE  chain'[t] - chain[t] = Total(DoneOn(order, t)', Leg) - Total(DoneOn(order, t), Leg)
  <2>1. \A r \in Round : order'[l][r].done = IF r = round THEN order[l][r].done + q ELSE order[l][r].done
    BY <1>3, <1>4, <1>6, <1>8
  <2>2. /\ Signed(l, round, q) \in Int
        /\ DoneOn(order, t)'[l] = IF opp.token[l] = t THEN DoneOn(order, t)[l] + Signed(l, round, q)
                                                     ELSE DoneOn(order, t)[l]
    BY <1>2, <1>3, <1>4, <2>1, LegMoves DEF Truth
  <2>3. \A k \in Leg \ {l} : DoneOn(order, t)'[k] = DoneOn(order, t)[k]
    BY <1>2, <1>8, LegStays
  <2>4. \A k \in Leg : DoneOn(order, t)[k] \in Int
    BY SumTypes DEF Truth
  <2>5. opp \in Opp /\ chain \in [Token -> Int]
    BY DEF Truth, TypeOK
  <2>6. Total(DoneOn(order, t)', Leg) =
          IF opp.token[l] = t THEN Total(DoneOn(order, t), Leg) + Signed(l, round, q)
                              ELSE Total(DoneOn(order, t), Leg)
    BY <1>3, <2>2, <2>3, <2>4, <2>5, OneMoves
  <2>7. Total(DoneOn(order, t), Leg) \in Int
    BY <2>4, LegFacts, TotalType
  <2>8. chain'[t] = IF opp.token[l] = t THEN chain[t] + Signed(l, round, q) ELSE chain[t]
    BY <1>1, <1>3, <2>5 DEF Moved
  <2>9. chain[t] \in Int
    BY <2>5
  <2> QED
    BY <2>2, <2>6, <2>7, <2>8, <2>9
<1>11. chain' \in [Token -> Int]
  <2>1. opp.token[l] \in Token /\ opp \in Opp /\ chain \in [Token -> Int]
    BY <1>3, OppFacts DEF Truth, TypeOK
  <2>2. Signed(l, round, q) \in Int
    BY <1>3, <1>4, <2>1, NetMoves
  <2> QED
    BY <1>1, <2>1, <2>2 DEF Moved
<1>12. QED
  BY <1>2, <1>8, <1>9, <1>10, <1>11, AnswersKeep

LEMMA AnswerTruth == ASSUME Truth, IInv, LiveAnswer PROVE Truth'
<1> DEFINE l == First(Unanswered)
           o == order[l][round]
<1>1. PICK ans \in Answers(l) :
        /\ ans.got <= o.done
        /\ order' = [order EXCEPT ![l][round].resp = ans.resp, ![l][round].got = ans.got]
  BY DEF LiveAnswer
<1>2. /\ live /\ pc = "submit" /\ Unanswered # {} /\ o.sent /\ pc' \in {"submit", "close"}
      /\ UNCHANGED <<live, opp, round, legs, filled, chain, durable, hold, conv, todo, errors, outcome>>
  BY DEF LiveAnswer
<1>3. l \in legs /\ l \in Leg
  BY <1>2, UnansweredFirst
<1> DEFINE new == [o EXCEPT !.resp = ans.resp, !.got = ans.got]
<1>4. /\ round \in Round /\ o \in OrderRecord /\ Fits(o) /\ o.mem = "Submitted" /\ o.booked = 0
      /\ o.done \in Nat /\ o.size \in Nat
  BY <1>1, <1>2, <1>3, SubmittedIs
<1> HIDE DEF l
<1>5. ans.got \in Nat /\ ans.resp \in {"ok", "err"} /\ (ans.resp # "ok" => ans.got = 0)
  BY <1>1, <1>4 DEF Answers
<1>6. order' = [order EXCEPT ![l][round] = new]
  BY <1>1
<1>7. /\ new \in OrderRecord /\ new.sent = o.sent /\ new.done = o.done /\ new.mem = o.mem
      /\ new.row = o.row /\ new.size = o.size /\ new.resp = ans.resp /\ new.got = ans.got
      /\ new.booked = o.booked
  BY <1>4, <1>5 DEF OrderRecord
<1>8. Fits(new)
  <2> HIDE DEF new, o
  <2> QED
    BY <1>1, <1>2, <1>4, <1>5, <1>7 DEF Fits, Unsent
<1> HIDE DEF new
<1>9. /\ order' \in [Leg -> [Round -> OrderRecord]] /\ order'[l][round] = new
      /\ \A k \in Leg, r \in Round : k # l \/ r # round => order'[k][r] = order[k][r]
  BY <1>3, <1>6, <1>7, OneOrder DEF Truth
<1>10. ASSUME NEW k \in Leg, NEW r \in Round
       PROVE  /\ order'[k][r].size = order[k][r].size /\ order'[k][r].booked = order[k][r].booked
              /\ order'[k][r].mem = order[k][r].mem /\ order'[k][r].row = order[k][r].row
              /\ order'[k][r].done = order[k][r].done
              /\ Fits(order[k][r])'
  <2>1. Fits(order'[k][r])
    BY <1>8, <1>9 DEF Truth, Orders
  <2>2. Fits(order[k][r])'
    BY <1>2, <2>1 DEF Fits
  <2> QED
    BY <1>7, <1>9, <2>2
<1>11. ASSUME NEW t \in Token
       PROVE  chain'[t] - chain[t] = Total(DoneOn(order, t)', Leg) - Total(DoneOn(order, t), Leg)
  <2>1. Untraded /\ opp' = opp /\ chain' = chain
    BY <1>2, <1>10 DEF Untraded
  <2>2. DoneOn(order, t)' = DoneOn(order, t)
    BY <2>1, SumsStay
  <2>3. Total(DoneOn(order, t), Leg) \in Int /\ chain[t] \in Int
    <3>1. \A k \in Leg : DoneOn(order, t)[k] \in Int
      BY SumTypes DEF Truth
    <3> QED
      BY <3>1, LegFacts, TotalType DEF Truth, TypeOK
  <2> QED
    BY <2>1, <2>2, <2>3
<1>12. chain' \in [Token -> Int]
  BY <1>2 DEF Truth, TypeOK
<1>13. QED
  BY <1>2, <1>9, <1>10, <1>11, <1>12, AnswersKeep

-----------------------------------------------------------------------------
LEMMA PaperTruth == ASSUME Truth, IInv, PaperAnswer PROVE Truth'
<1>1. PICK ans \in [legs -> UNION {Answers(l) : l \in legs}] :
       /\ \A l \in legs : ans[l] \in Answers(l)
       /\ order' = [l \in Leg |->
            IF l \notin legs THEN order[l]
            ELSE [order[l] EXCEPT ![round] =
                    [@ EXCEPT !.sent = TRUE, !.done = ans[l].got,
                              !.resp = ans[l].resp, !.got = ans[l].got]]]
       /\ chain' = [t \in Token |-> chain[t] +
            MapThenSumSet(LAMBDA l : [k \in legs |-> Signed(k, round, ans[k].got)][l],
                          {l \in legs : opp.token[l] = t})]
  BY DEF PaperAnswer
<1>2. /\ ~live /\ pc = "submit" /\ pc' = "close"
      /\ UNCHANGED <<live, opp, round, legs, filled, durable, hold, conv, todo, errors, outcome>>
      /\ legs \subseteq Leg /\ round \in Round /\ opp \in Opp
      /\ order \in [Leg -> [Round -> OrderRecord]] /\ chain \in [Token -> Int]
  BY DEF PaperAnswer, Truth, TypeOK
<1>3. ASSUME NEW l \in legs
      PROVE  /\ l \in Leg /\ ans[l].got \in Nat /\ ans[l].got <= order[l][round].size
             /\ ans[l].resp \in {"ok", "err"} /\ (ans[l].resp # "ok" => ans[l].got = 0)
             /\ Signed(l, round, ans[l].got) \in Int
  <2>1. order[l][round].size \in Nat /\ l \in Leg
    BY <1>2, <1>3, SubmittedIs
  <2>2. /\ ans[l].got \in Nat /\ ans[l].got <= order[l][round].size
        /\ ans[l].resp \in {"ok", "err"} /\ (ans[l].resp # "ok" => ans[l].got = 0)
    <3>1. CASE ans[l] = [resp |-> "err", got |-> 0]
      BY <2>1, <3>1
    <3>2. CASE ans[l] \in [resp: {"ok"}, got: 0..order[l][round].size]
      BY <2>1, <3>2
    <3> QED
      BY <1>1, <1>3, <3>1, <3>2 DEF Answers
  <2> QED
    BY <1>2, <2>1, <2>2, NetMoves
<1> DEFINE new(l) == [order[l][round] EXCEPT !.sent = TRUE, !.done = ans[l].got,
                                             !.resp = ans[l].resp, !.got = ans[l].got]
<1>4. ASSUME NEW l \in legs
      PROVE  /\ new(l) \in OrderRecord /\ new(l).sent = TRUE /\ new(l).done = ans[l].got
             /\ new(l).resp = ans[l].resp /\ new(l).got = ans[l].got
             /\ new(l).mem = order[l][round].mem /\ new(l).row = order[l][round].row
             /\ new(l).size = order[l][round].size /\ new(l).booked = order[l][round].booked
             /\ new(l).mem = "Submitted" /\ new(l).booked = 0
             /\ order[l][round].done = 0
  <2>1. /\ order[l][round] \in OrderRecord /\ order[l][round].mem = "Submitted"
        /\ order[l][round].booked = 0 /\ order[l][round].done = 0
    BY <1>2, <1>4, SubmittedIs
  <2> QED
    BY <1>3, <1>4, <2>1 DEF OrderRecord
<1>5. \A l \in legs : Fits(new(l))
  <2> SUFFICES ASSUME NEW l \in legs PROVE Fits(new(l))
    OBVIOUS
  <2>1. /\ new(l).done = ans[l].got /\ new(l).got = ans[l].got /\ new(l).resp = ans[l].resp
        /\ new(l).booked = 0 /\ new(l).mem = "Submitted" /\ new(l).size = order[l][round].size
        /\ new(l).sent = TRUE /\ ans[l].got \in Nat /\ ans[l].got <= order[l][round].size
        /\ (ans[l].resp # "ok" => ans[l].got = 0)
    BY <1>3, <1>4
  <2> HIDE DEF new
  <2> QED
    BY <2>1 DEF Fits, Unsent
<1>6. \A l \in Leg : order'[l] = IF l \in legs THEN [order[l] EXCEPT ![round] = new(l)] ELSE order[l]
  <2> SUFFICES ASSUME NEW l \in Leg
               PROVE  order'[l] = IF l \in legs THEN [order[l] EXCEPT ![round] = new(l)] ELSE order[l]
    OBVIOUS
  <2>1. CASE l \in legs
    BY <1>1, <2>1
  <2>2. CASE l \notin legs
    BY <1>1, <2>2
  <2> QED
    BY <2>1, <2>2
<1> HIDE DEF new
<1>7. ASSUME NEW l \in Leg
      PROVE  /\ order'[l] \in [Round -> OrderRecord]
             /\ \A r \in Round : order'[l][r] =
                  IF l \in legs /\ r = round THEN new(l) ELSE order[l][r]
  <2>1. order[l] \in [Round -> OrderRecord]
    BY <1>2
  <2>2. CASE l \in legs
    <3>1. new(l) \in OrderRecord /\ order'[l] = [order[l] EXCEPT ![round] = new(l)]
      BY <1>4, <1>6, <2>2
    <3> QED
      BY <1>2, <2>1, <2>2, <3>1
  <2>3. CASE l \notin legs
    BY <1>6, <2>1, <2>3
  <2> QED
    BY <2>2, <2>3
<1>8. order' \in [Leg -> [Round -> OrderRecord]]
  <2>1. order' = [l \in Leg |-> order'[l]]
    BY <1>1
  <2> QED
    BY <1>7, <2>1
<1>9. ASSUME NEW l \in Leg, NEW r \in Round
      PROVE  /\ order'[l][r].size = order[l][r].size /\ order'[l][r].booked = order[l][r].booked
             /\ order'[l][r].mem = order[l][r].mem /\ order'[l][r].row = order[l][r].row
             /\ Fits(order[l][r])'
  <2>1. Fits(order'[l][r])
    BY <1>5, <1>7 DEF Truth, Orders
  <2>2. Fits(order[l][r])'
    BY <1>2, <2>1 DEF Fits
  <2>3. CASE l \in legs /\ r = round
    BY <1>4, <1>7, <2>2, <2>3, ZenonT(20)
  <2>4. CASE ~(l \in legs /\ r = round)
    BY <1>7, <2>2, <2>4
  <2> QED
    BY <2>3, <2>4
<1>10. ASSUME NEW t \in Token
       PROVE  /\ chain'[t] \in Int
              /\ chain'[t] - chain[t] = Total(DoneOn(order, t)', Leg) - Total(DoneOn(order, t), Leg)
  <2> DEFINE traded == [k \in legs |-> Signed(k, round, ans[k].got)]
             S == {l \in legs : opp.token[l] = t}
             g == [l \in Leg |-> IF l \in S THEN traded[l] ELSE 0]
             f == DoneOn(order, t)
             h == DoneOn(order, t)'
  <2>1. /\ IsFiniteSet(Leg) /\ S \in SUBSET Leg /\ IsFiniteSet(S)
    BY <1>2, LegFacts, FS_Subset
  <2>2. \A l \in Leg : g[l] \in Int
    BY <1>3
  <2>3. \A l \in Leg : f[l] \in Int
    BY SumTypes DEF Truth
  <2>4. \A l \in Leg : h[l] = f[l] + g[l]
    <3> SUFFICES ASSUME NEW l \in Leg PROVE h[l] = f[l] + g[l]
      OBVIOUS
    <3>1. CASE l \in legs
      <4>1. \A r \in Round : order'[l][r].done =
              IF r = round THEN order[l][r].done + ans[l].got ELSE order[l][r].done
        <5>1. new(l).done = order[l][round].done + ans[l].got
          <6>1. new(l).done = ans[l].got /\ order[l][round].done = 0 /\ ans[l].got \in Nat
            BY <1>3, <1>4, <3>1
          <6> QED
            BY <6>1
        <5> QED
          BY <1>7, <3>1, <5>1
      <4>2. h[l] = IF opp.token[l] = t THEN f[l] + Signed(l, round, ans[l].got) ELSE f[l]
        BY <1>2, <1>3, <3>1, <4>1, LegMoves DEF Truth
      <4>3. g[l] = IF opp.token[l] = t THEN Signed(l, round, ans[l].got) ELSE 0
        BY <3>1
      <4>4. f[l] \in Int /\ g[l] \in Int
        BY <2>2, <2>3
      <4> HIDE DEF f, g, h
      <4> QED
        BY <4>2, <4>3, <4>4
    <3>2. CASE l \notin legs
      <4>1. \A r \in Round : order'[l][r].done = order[l][r].done
        BY <1>7, <3>2
      <4>2. h[l] = f[l]
        BY <1>2, <4>1, LegStays
      <4>3. g[l] = 0
        BY <3>2
      <4>4. f[l] \in Int
        BY <2>3
      <4> HIDE DEF f, g, h
      <4> QED
        BY <4>2, <4>3, <4>4
    <3> QED
      BY <3>1, <3>2
  <2>5. \A l \in Leg \ S : g[l] = 0
    OBVIOUS
  <2>6. \A l \in S : g[l] = traded[l]
    BY <1>2
  <2>7. chain'[t] = chain[t] + Total(traded, S)
    BY <1>1 DEF Total
  <2>8. Total(g, Leg) = Total(traded, S) /\ Total(g, Leg) \in Int
    <3> HIDE DEF g, traded, S
    <3>1. Total(g, Leg) = Total(g, S)
      BY <2>1, <2>2, <2>5, TotalSupport
    <3>2. Total(g, S) = Total(traded, S)
      BY <2>1, <2>6, TotalAgree
    <3>3. Total(g, Leg) \in Int
      BY <2>1, <2>2, TotalType
    <3> QED
      BY <3>1, <3>2, <3>3
  <2>9. Total(h, Leg) = Total(f, Leg) + Total(g, Leg) /\ Total(f, Leg) \in Int
    <3> HIDE DEF f, g, h
    <3>1. \A l \in Leg : h[l] \in Int
      BY <2>2, <2>3, <2>4
    <3> QED
      BY <2>1, <2>2, <2>3, <2>4, <3>1, TotalPlus, TotalType
  <2>10. chain[t] \in Int
    BY <1>2
  <2> HIDE DEF f, g, h, traded, S
  <2>11. chain'[t] \in Int /\ chain'[t] - chain[t] = Total(h, Leg) - Total(f, Leg)
    BY <2>7, <2>8, <2>9, <2>10
  <2> QED
    BY <2>11 DEF f, h
<1>11. chain' \in [Token -> Int]
  <2>1. chain' = [t \in Token |-> chain'[t]]
    BY <1>1
  <2> QED
    BY <1>10, <2>1
<1>12. QED
  BY <1>2, <1>8, <1>9, <1>10, <1>11, AnswersKeep

-----------------------------------------------------------------------------
LEMMA FillTruth == ASSUME Truth, BookFill PROVE Truth'
<1> DEFINE l == First(Unclosed)
           o == order[l][round]
<1>1. /\ pc = "close" /\ l \in legs /\ l \in Leg /\ round \in Round /\ opp \in Opp
      /\ o.mem = "Live" /\ o.booked < o.got
      /\ UNCHANGED <<live, opp, round, legs, filled, chain, conv, todo, errors>>
      /\ outcome = "none" /\ ~Early /\ ~Merging /\ todo = {}
      /\ opp.token[l] \in Token /\ opp.buy[l] \in BOOLEAN
  BY UnclosedFirst, OppFacts DEF BookFill, Truth, TypeOK, Course, Early, Merging
<1>2. /\ Fits(o) /\ o \in OrderRecord /\ o.got \in Nat /\ o.booked \in Nat /\ o.done \in Nat
      /\ durable = hold /\ hold \in [Token -> Nat] /\ durable \in [Token -> Int]
  BY <1>1, Records DEF Truth, Orders, Tapes, TypeOK
<1>3. PICK q \in 1..(o.got - o.booked) :
        \/ /\ durable' = Moved(durable, l, round, q)
           /\ hold' = Ledger(l, round, q)
           /\ order' = [order EXCEPT ![l][round].booked = @ + q]
           /\ UNCHANGED <<pc, outcome>>
        \/ /\ durable' \in {durable, Moved(durable, l, round, q)}
           /\ Abort
           /\ UNCHANGED <<hold, order>>
  BY DEF BookFill
<1>4. q \in Nat /\ q >= 1 /\ q <= o.got - o.booked
  <2> HIDE DEF o
  <2> QED
    BY <1>2, <1>3
<1>5. Signed(l, round, q) = (IF round # "unwind" /\ opp.buy[l] THEN q ELSE -q)
  BY DEF Signed
<1>6. Signed(l, round, q) \in Int
  <2> HIDE DEF l, o
  <2> QED
    BY <1>1, <1>4, NetMoves
<1>7. Moved(durable, l, round, q) \in [Token -> Int]
  <2> HIDE DEF l
  <2> QED
    BY <1>1, <1>2, <1>6 DEF Moved
<1>8. CASE durable' \in {durable, Moved(durable, l, round, q)} /\ Abort /\ UNCHANGED <<hold, order>>
  BY <1>1, <1>2, <1>7, <1>8, AbortTruth
<1>9. CASE /\ durable' = Moved(durable, l, round, q) /\ hold' = Ledger(l, round, q)
           /\ order' = [order EXCEPT ![l][round].booked = @ + q] /\ UNCHANGED <<pc, outcome>>
  <2>1. ~(round # "unwind" /\ opp.buy[l]) => q <= hold[opp.token[l]]
    <3> SUFFICES ASSUME ~(round # "unwind" /\ opp.buy[l]) PROVE q <= hold[opp.token[l]]
      OBVIOUS
    <3>1. o.got - o.booked <= hold[opp.token[l]]
      BY <1>1, SaleCovered DEF Truth, Tapes
    <3>2. hold[opp.token[l]] \in Nat
      BY <1>1, <1>2
    <3> HIDE DEF l, o
    <3> QED
      BY <1>2, <1>4, <3>1, <3>2
  <2>2. ASSUME NEW t \in Token
        PROVE  /\ hold'[t] \in Nat
               /\ hold'[t] = IF opp.token[l] = t THEN hold[t] + Signed(l, round, q) ELSE hold[t]
               /\ durable'[t] = hold'[t]
               /\ hold'[t] > hold[t] => opp.buy[l] /\ opp.token[l] = t
    <3>1. hold[t] \in Nat
      BY <1>2
    <3>2. durable'[t] = IF opp.token[l] = t THEN hold[t] + Signed(l, round, q) ELSE hold[t]
      BY <1>2, <1>9 DEF Moved
    <3>3. hold'[t] = IF opp.token[l] = t
                     THEN IF Signed(l, round, q) >= 0 THEN hold[t] + q ELSE hold[t] - Least(q, hold[t])
                     ELSE hold[t]
      BY <1>2, <1>9 DEF Ledger
    <3> HIDE DEF l, o
    <3>4. CASE round # "unwind" /\ opp.buy[l]
      <4>1. Signed(l, round, q) = q
        BY <1>5, <3>4
      <4> QED
        BY <1>4, <3>1, <3>2, <3>3, <3>4, <4>1
    <3>5. CASE ~(round # "unwind" /\ opp.buy[l])
      <4>1. Signed(l, round, q) = -q /\ ~(Signed(l, round, q) >= 0)
        BY <1>4, <1>5, <3>5
      <4>2. opp.token[l] = t => q <= hold[t]
        BY <2>1, <3>5
      <4>3. opp.token[l] = t => Least(q, hold[t]) = q
        BY <4>2 DEF Least
      <4> QED
        BY <1>4, <3>1, <3>2, <3>3, <4>1, <4>2, <4>3
    <3> QED
      BY <3>4, <3>5
  <2>3. hold' \in [Token -> Nat] /\ durable' = hold' /\ durable' \in [Token -> Int]
    <3>1. hold' = [t \in Token |-> hold'[t]] /\ durable' = [t \in Token |-> durable'[t]]
      BY <1>2, <1>9 DEF Ledger, Moved
    <3> HIDE DEF l
    <3>2. hold' \in [Token -> Nat]
      BY <2>2, <3>1
    <3>3. durable' = hold'
      BY <2>2, <3>1
    <3> QED
      BY <1>7, <1>9, <3>2, <3>3
  <2> DEFINE new == [o EXCEPT !.booked = @ + q]
  <2>4. order' = [order EXCEPT ![l][round] = new]
    BY <1>9
  <2>5. o.booked + q \in Nat /\ o.booked + q <= o.got
    <3> HIDE DEF o
    <3> QED
      BY <1>2, <1>4
  <2>6. /\ new \in OrderRecord /\ new.sent = o.sent /\ new.done = o.done /\ new.mem = o.mem
        /\ new.row = o.row /\ new.size = o.size /\ new.resp = o.resp /\ new.got = o.got
        /\ new.booked = o.booked + q
    BY <1>2, <2>5 DEF OrderRecord
  <2>7. Fits(new)
    <3> HIDE DEF new, o
    <3> QED
      BY <1>1, <1>2, <2>5, <2>6 DEF Fits, Unsent
  <2> HIDE DEF new
  <2>8. /\ order' \in [Leg -> [Round -> OrderRecord]] /\ order'[l][round] = new
        /\ \A k \in Leg, r \in Round : k # l \/ r # round => order'[k][r] = order[k][r]
    <3> HIDE DEF l
    <3> QED
      BY <1>1, <2>4, <2>6, OneOrder DEF Truth
  <2>9. TypeOK'
    BY <1>1, <1>9, <2>3, <2>8 DEF Truth, TypeOK
  <2>10. ASSUME NEW k \in Leg, NEW r \in Round
         PROVE  /\ order'[k][r].size = order[k][r].size /\ order'[k][r].mem = order[k][r].mem
                /\ order'[k][r].row = order[k][r].row /\ order'[k][r].done = order[k][r].done
    BY <1>1, <2>6, <2>8
  <2>11. \A k \in Leg : Sizes(k)' /\ \A r \in Round : Fits(order[k][r])'
    <3>1. Counted(new) = 0 /\ Counted(o) = 0
      BY <1>1, <2>6 DEF Counted, Terminal
    <3>2. filled[l] \in Nat
      BY <1>1 DEF Truth, TypeOK
    <3>3. filled'[l] = filled[l] + Counted(new) - Counted(o)
      BY <1>1, <3>1, <3>2
    <3>4. new.size = order[l][round].size
      BY <2>6
    <3>5. \A k \in Leg \ {l} : filled'[k] = filled[k]
      BY <1>1
    <3> HIDE DEF l
    <3> QED
      BY <1>1, <2>4, <2>6, <2>7, <2>9, <3>3, <3>4, <3>5, OneFits DEF o
  <2>12. Orders'
    <3>1. ASSUME NEW k \in Leg, NEW r \in Round
          PROVE  (order[k][r].mem = order[k][r].row /\ (Active(k, r) \/ Resting(order[k][r])))'
      BY <1>1, <1>9, <2>10 DEF Truth, Orders, Active, Resting
    <3> QED
      BY <2>11, <3>1 DEF Orders
  <2>13. Course'
    <3>1. "main" \in Round /\ "repair" \in Round /\ "unwind" \in Round
      BY DEF Round
    <3>2. ~Merging' /\ ~Early' /\ pc' = "close" /\ outcome' = "none"
      BY <1>1, <1>9 DEF Merging, Early
    <3>3. /\ round' = "main" => \A k \in Leg : NotYet(k, "repair")'
          /\ round' # "unwind" => \A k \in Leg : NotYet(k, "unwind")'
      BY <1>1, <2>10, <3>1 DEF Truth, Course, NotYet
    <3>4. round' = "main" /\ errors' > 0 => \E k \in Leg : order'[k]["main"].mem = "Rejected"
      BY <1>1, <2>10, <3>1 DEF Truth, Course
    <3>5. (live' => PureBuy(opp)') /\ todo' = {}
      BY <1>1 DEF Truth, Course, PureBuy
    <3> HIDE DEF l
    <3> QED
      BY <3>2, <3>3, <3>4, <3>5 DEF Course
  <2>14. ASSUME NEW t \in Token
         PROVE  /\ hold'[t] = Recorded(t)' + Total(BookedOn(order, t)', Leg)
                /\ chain'[t] = Made(t)' + Total(DoneOn(order, t)', Leg)
    <3>1. /\ hold[t] = Recorded(t) + Total(BookedOn(order, t), Leg)
          /\ chain[t] = Made(t) + Total(DoneOn(order, t), Leg)
          /\ Recorded(t)' = Recorded(t) /\ Made(t)' = Made(t) /\ Made(t) \in Nat /\ Recorded(t) \in Nat
      <4>1. opp.split[MarketOf(t)] \in Nat
        BY <1>1, OppFacts, MarketFacts
      <4> QED
        BY <1>1, <1>9, <4>1 DEF Truth, Tapes, Accounted, Recorded, Made
    <3> HIDE DEF l
    <3>2. \A k \in Leg : DoneOn(order, t)'[k] = DoneOn(order, t)[k]
      BY <1>1, <2>10, LegStays
    <3>3. Total(DoneOn(order, t)', Leg) = Total(DoneOn(order, t), Leg)
      BY <3>2, LegFacts, TotalAgree
    <3>4. \A k \in Leg \ {l} : BookedOn(order, t)'[k] = BookedOn(order, t)[k]
      BY <1>1, <2>8, LegStays
    <3>5. BookedOn(order, t)'[l] = IF opp.token[l] = t THEN BookedOn(order, t)[l] + Signed(l, round, q)
                                                       ELSE BookedOn(order, t)[l]
      <4>1. \A r \in Round : order'[l][r].booked =
              IF r = round THEN order[l][r].booked + q ELSE order[l][r].booked
        BY <1>1, <2>6, <2>8 DEF o
      <4> QED
        BY <1>1, <1>4, <4>1, LegMoves DEF Truth
    <3>6. \A k \in Leg : BookedOn(order, t)[k] \in Int
      BY SumTypes DEF Truth
    <3>7. Total(BookedOn(order, t)', Leg) =
            IF opp.token[l] = t THEN Total(BookedOn(order, t), Leg) + Signed(l, round, q)
                                ELSE Total(BookedOn(order, t), Leg)
      BY <1>1, <1>6, <3>4, <3>5, <3>6, OneMoves
    <3>8. Total(BookedOn(order, t), Leg) \in Int
      BY <3>6, LegFacts, TotalType
    <3>9. hold'[t] = Recorded(t)' + Total(BookedOn(order, t)', Leg)
      BY <1>6, <2>2, <3>1, <3>7, <3>8
    <3> QED
      BY <1>1, <3>1, <3>3, <3>9
  <2>15. Tapes'
    <3>1. Accounted'
      BY <2>14 DEF Accounted
    <3>2. ~Merging'
      BY <1>1, <1>9 DEF Merging
    <3>3. ASSUME NEW t \in Token PROVE Explained(t)'
      <4>1. Explained(t) /\ hold[t] \in Nat /\ hold'[t] \in Nat
        BY <1>2, <2>2 DEF Truth, Tapes
      <4>2. hold'[t] > hold[t] => opp.buy[l] /\ opp.token[l] = t
        BY <2>2
      <4> QED
        BY <1>1, <4>1, <4>2 DEF Explained
    <3> QED
      BY <1>1, <2>3, <3>1, <3>2, <3>3 DEF Truth, Tapes, Agreed
  <2> QED
    BY <1>1, <1>9, <2>9, <2>12, <2>13, <2>15, OutcomesKept DEF Truth, Unresolved
<1>10. QED
  BY <1>3, <1>8, <1>9

-----------------------------------------------------------------------------
LEMMA StaysTruth == ASSUME Truth, UNCHANGED vars PROVE Truth'
<1>1. UNCHANGED <<live, opp, pc, round, legs, order, filled, chain, durable, hold, conv, todo,
                  errors, outcome>>
  BY DEF vars
<1>2. TypeOK'
  BY <1>1, TypeKept DEF Truth, TypeOK
<1>3. Orders'
  <2>1. outcome # "Err" \/ outcome' = "Err"
    BY <1>1
  <2> QED
    BY <1>1, <2>1, OrdersKept DEF Active
<1>4. Course'
  BY <1>1 DEF Truth, Course, NotYet, Early, Merging, Converting, Sets, PureBuy
<1>5. Tapes'
  <2>1. \A t \in Token : /\ BookedOn(order, t)' = BookedOn(order, t)
                         /\ DoneOn(order, t)' = DoneOn(order, t)
                         /\ Recorded(t)' = Recorded(t) /\ Made(t)' = Made(t)
    BY <1>1, SumsStay DEF Untraded, Recorded, Made
  <2> QED
    BY <1>1, <2>1 DEF Truth, Tapes, Accounted, Agreed, Explained, Merging
<1>6. QED
  BY <1>1, <1>2, <1>3, <1>4, <1>5 DEF Truth, Outcomes, Complete

LEMMA NextTruth == Whole /\ [Next]_vars => Whole'
<1> SUFFICES ASSUME Whole, [Next]_vars PROVE Truth'
  BY NextIInv DEF Whole
<1>1. IInv /\ Truth
  BY DEF Whole
<1>2. CASE Start
  BY <1>1, <1>2, StartTruth
<1>3. CASE SplitVenue
  BY <1>1, <1>3, SplitTruth
<1>4. CASE SplitsDone
  BY <1>1, <1>4, SplitsDoneTruth
<1>5. CASE ConversionRow
  BY <1>1, <1>5, RowTruth
<1>6. CASE OpenOrder
  BY <1>1, <1>6, OpenTruth
<1>7. CASE Opened
  BY <1>1, <1>7, OpenedTruth
<1>8. CASE PaperAnswer
  BY <1>1, <1>8, PaperTruth
<1>9. CASE LiveSend
  BY <1>1, <1>9, SendTruth
<1>10. CASE LiveAnswer
  BY <1>1, <1>10, AnswerTruth
<1>11. CASE WindowExpires
  BY <1>1, <1>11, WindowTruth
<1>12. CASE BookFill
  BY <1>1, <1>12, FillTruth
<1>13. CASE CloseOrder
  BY <1>1, <1>13, CloseTruth
<1>14. CASE ExpireOrder
  BY <1>1, <1>14, ExpireTruth
<1>15. CASE RoundEnds
  BY <1>1, <1>15, RoundEndsTruth
<1>16. CASE StartRepair
  BY <1>1, <1>16, RepairTruth
<1>17. CASE StartUnwind
  BY <1>1, <1>17, UnwindTruth
<1>18. CASE MergeVenue
  BY <1>1, <1>18, MergeTruth
<1>19. CASE Report
  BY <1>1, <1>19, ReportTruth
<1>20. CASE UNCHANGED vars
  BY <1>1, <1>20, StaysTruth
<1>21. QED
  BY <1>2, <1>3, <1>4, <1>5, <1>6, <1>7, <1>8, <1>9, <1>10, <1>11, <1>12, <1>13, <1>14, <1>15,
     <1>16, <1>17, <1>18, <1>19, <1>20 DEF Next, Step, Ended

LEMMA AlwaysWhole == Spec => []Whole
<1>1. Init => Whole
  BY InitIInv, InitTruth DEF Whole
<1>2. QED
  BY <1>1, NextTruth, PTL DEF Spec

(* Every variable of a basket keeps the type its field has in the code; in *)
(* particular the ledger in memory is never below zero.                    *)
THEOREM TypeCorrect == Spec => []TypeOK
<1>1. Whole => TypeOK
  BY DEF Whole, Truth
<1>2. QED
  BY <1>1, AlwaysWhole, PTL

(* execute_basket, crates/execution/src/basket.rs: in paper mode a report  *)
(* that is not an error is the truth: ledger, store and venue agree on     *)
(* every token, and every order is at rest in the store.                   *)
THEOREM ReportsAreTrue == Spec => []ReportIsTruth
<1>1. Whole => ReportIsTruth
  <2> SUFFICES ASSUME Whole, ~live, pc = "done", outcome # "Err"
               PROVE  /\ hold = durable /\ durable = chain
                      /\ \A l \in Leg, r \in Round : order[l][r].row \in Terminal \cup {"None"}
    BY DEF ReportIsTruth
  <2>1. Truth /\ Merging
    BY DEF Whole, Merging
  <2>2. chain = hold /\ durable = hold
    BY <2>1 DEF Truth, Tapes, Agreed
  <2>3. \A l \in Leg, r \in Round : order[l][r].mem = order[l][r].row /\ Resting(order[l][r])
    BY <2>1 DEF Truth, Orders, Active
  <2> QED
    BY <2>2, <2>3 DEF Resting
<1>2. QED
  BY <1>1, AlwaysWhole, PTL

(* submit_window, record_fills and repair_and_unwind: the venue never      *)
(* sells what the basket does not hold, the clamp of Ledger::sell never    *)
(* bites, no leg fills beyond what was intended and no unwind sells more   *)
(* than the surplus.                                                       *)
THEOREM StaysWithinMeans == Spec => []WithinMeans
<1>1. Whole => NeverNaked
  <2> SUFFICES ASSUME Truth PROVE NeverNaked
    BY DEF Whole
  <2>1. \A t \in Token : chain[t] >= 0
    BY DEF Truth, Tapes
  <2>2. ASSUME pc = "close", Unclosed # {}, Signed(First(Unclosed), round, 1) < 0
        PROVE  order[First(Unclosed)][round].got - order[First(Unclosed)][round].booked
                 <= hold[opp.token[First(Unclosed)]]
    <3> DEFINE l == First(Unclosed)
    <3>1. l \in legs
      BY <2>2, UnclosedFirst
    <3>2. ~(round # "unwind" /\ opp.buy[l])
      BY <2>2 DEF Signed
    <3> HIDE DEF l
    <3>3. order[l][round].got - order[l][round].booked <= hold[opp.token[l]]
      BY <2>2, <3>1, <3>2, SaleCovered DEF Truth, Tapes
    <3> QED
      BY <3>3 DEF l
  <2> QED
    BY <2>1, <2>2 DEF NeverNaked
<1>2. Whole => NeverOvershoots
  <2> SUFFICES ASSUME Truth, NEW l \in Leg
               PROVE  filled[l] <= opp.qty[l] /\ order[l]["unwind"].got <= Surplus(l)
    BY DEF Whole, NeverOvershoots
  <2>1. filled[l] <= opp.qty[l] /\ order[l]["unwind"].done <= Surplus(l) /\ Surplus(l) \in Nat
    BY Bounds DEF Truth
  <2>2. /\ order[l]["unwind"].got <= order[l]["unwind"].done
        /\ order[l]["unwind"].got \in Nat /\ order[l]["unwind"].done \in Nat
    BY Records DEF Truth, Orders, Fits
  <2> QED
    BY <2>1, <2>2
<1>3. QED
  BY <1>1, <1>2, AlwaysWhole, PTL DEF WithinMeans

(* BasketReport, as crates/app/src/coordinator.rs reads it: FilledClean    *)
(* had no order error, it and Repaired hold every leg in full, NoFill      *)
(* holds nothing, and a leftover is of a market that was split or bought.  *)
THEOREM ReportsAsAssumed == Spec => []ReportAsAssumed
<1>1. Whole => ReportAsAssumed
  BY DEF Whole, Truth, Outcomes, Tapes, Explained, ReportAsAssumed
<1>2. QED
  BY <1>1, AlwaysWhole, PTL
=============================================================================
