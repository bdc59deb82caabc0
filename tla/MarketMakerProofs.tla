-------------------------- MODULE MarketMakerProofs --------------------------
(***************************************************************************)
(* A stopped side of the book is empty, no order rests that nobody tracks, *)
(* the inventory is what was traded, and the cap holds: for any tokens,    *)
(* keys, sizes, caps and number of faults.                                 *)
(*                                                                         *)
(* StopsFlat speaks of the moments between two ticks.  That it holds there *)
(* rests on what every stage of a pass may still do: `Stages' says that no *)
(* pass runs while the maker is stopped as a whole, that a vetoed key is   *)
(* not among those a pass is about to place, and that what cancel_all has  *)
(* not visited yet is in todo.  `Consistent' ties the tracking map to the  *)
(* venue's book, so that a step on one key cannot disturb another.         *)
(*                                                                         *)
(* The other three rest on `Whole', which adds to these what an order and  *)
(* its quote may amount to (`Orders') and, for every token and side, what  *)
(* was traded unseen, may still trade and belongs to nobody (`Books').     *)
(***************************************************************************)
EXTENDS MarketMaker, FiniteSums, TLAPS

OrderFields == {"key", "px", "left", "unseen", "open", "known"}

ShapeOf(ord, trk) ==
  /\ DOMAIN ord = Id /\ \A i \in Id : DOMAIN ord[i] = OrderFields
  /\ DOMAIN trk = Key /\ \A k \in Key : DOMAIN trk[k] = {"id", "quote"}

\* a tracked id names an order of that key
Names(ord, trk) ==
  \A k \in Key : trk[k] # Untracked => trk[k].id \in Id /\ ord[trk[k].id].key = k

Consistent(ord, trk) == ShapeOf(ord, trk) /\ Names(ord, trk)

\* nothing tracked at k rests, or its cancel failed
QuietIn(ord, trk, missed, k) ==
  trk[k] = Untracked \/ ~ord[trk[k].id].open \/ k \in missed

Quiet(k) == QuietIn(order, tracked, missedCancel, k)

Stages ==
  /\ pc \in {"top", "select", "stale", "place", "replace", "poll", "mark", "flatten", "done"}
  /\ afterwards \in {"top", "done"}
  /\ todo \subseteq Key /\ (pc = "replace" => todo # {})
  /\ \A k \in vetoed : k \in Key => Quiet(k)
  /\ pc \in {"top", "select", "poll", "mark"} /\ (paused \/ halted) => \A k \in Key : Quiet(k)
  /\ pc \in {"stale", "place", "replace"} =>
       /\ ~paused /\ ~halted
       /\ \A k \in vetoed : k \in Key => desired[k] = NoQuote
  /\ pc \in {"place", "replace"} => \A k \in Key : k \in todo => desired[k] # NoQuote
  /\ pc = "flatten" => \A k \in Key : Quiet(k) \/ k \in todo
  /\ pc = "done" => \A k \in Key : Quiet(k)

IInv == Consistent(order, tracked) /\ Stages

-----------------------------------------------------------------------------
(* The id a placed order gets is one nothing refers to.                   *)
LEMMA FreeId ==
  ASSUME Free # {}
  PROVE  Lowest(Free) \in Id /\ order[Lowest(Free)] = Vacant
<1>1. Free \subseteq Nat
  BY QuoteAssumption DEF QuoteAssumption, Free, Id
<1>2. Lowest(Free) \in Free
  BY <1>1, LeastExists DEF Lowest
<1>3. QED
  BY <1>2 DEF Free

(* The key a pass visits next is one it has still to visit.               *)
LEMMA LowestKey ==
  ASSUME NEW S, S \subseteq Key, S # {}
  PROVE  Lowest(S) \in S
<1>1. S \subseteq Nat
  BY QuoteAssumption DEF QuoteAssumption
<1>2. QED
  BY <1>1, LeastExists DEF Lowest

LEMMA VacantShape == DOMAIN Vacant = OrderFields /\ Vacant.key \notin Key
BY QuoteAssumption DEF QuoteAssumption, Vacant, OrderFields

LEMMA UntrackedShape == DOMAIN Untracked = {"id", "quote"} /\ Untracked.id \notin Id
BY QuoteAssumption DEF QuoteAssumption, Untracked, NoId, Id

(* Naming an id again disturbs nothing that is tracked.                    *)
LEMMA SweptKeeps ==
  ASSUME NEW ord, NEW trk, Consistent(ord, trk), VenueBecomes(ord, trk)
  PROVE  /\ Consistent(order', tracked')
         /\ tracked' = trk
         /\ \A k \in Key : trk[k] # Untracked => order'[trk[k].id] = ord[trk[k].id]
<1>1. tracked' = trk /\ order' = Swept(ord, trk)
  BY DEF VenueBecomes
<1>2. \A k \in Key : trk[k] # Untracked => order'[trk[k].id] = ord[trk[k].id]
  BY <1>1 DEF Swept, Consistent, Names
<1>3. /\ DOMAIN order' = Id
      /\ \A i \in Id : order'[i] = Vacant \/ order'[i] = ord[i]
  BY <1>1 DEF Swept
<1>4. QED
  BY <1>1, <1>2, <1>3, VacantShape DEF Consistent, ShapeOf, Names

(* A cancel that may or may not have reached the order tracked at k.       *)
LEMMA GoneKeeps ==
  ASSUME Consistent(order, tracked), NEW k \in Key,
         NEW ord, ord \in {order, Gone(tracked[k].id)}
  PROVE  /\ ShapeOf(ord, tracked) /\ Names(ord, tracked)
         /\ \A j \in Key : /\ tracked[j] # Untracked
                           /\ ord[tracked[j].id].open
                           => order[tracked[j].id].open
         /\ ord = Gone(tracked[k].id) /\ tracked[k] # Untracked => ~ord[tracked[k].id].open
<1>1. CASE ord = order
  <2>1. ord = Gone(tracked[k].id) /\ tracked[k] # Untracked => ~ord[tracked[k].id].open
    BY DEF Consistent, ShapeOf, Names, Gone, OrderFields
  <2>2. QED
    BY <1>1, <2>1 DEF Consistent
<1>2. CASE ord = Gone(tracked[k].id)
  <2>1. /\ DOMAIN ord = Id
        /\ \A i \in Id : /\ DOMAIN ord[i] = OrderFields /\ ord[i].key = order[i].key
                         /\ ord[i].open => order[i].open
                         /\ i = tracked[k].id => ~ord[i].open
    BY <1>2 DEF Consistent, ShapeOf, Gone, OrderFields
  <2>2. QED
    BY <2>1 DEF Consistent, ShapeOf, Names
<1>3. QED
  BY <1>1, <1>2

(* One cancel, by any of the loops that cancel: it disturbs no other key,  *)
(* and its own is dropped or, if it failed, kept.                          *)
LEMMA CancelsKeep ==
  ASSUME Consistent(order, tracked), NEW k \in Key, NEW ok \in BOOLEAN, Cancels(k, ok)
  PROVE  /\ Consistent(order', tracked')
         /\ ok => tracked'[k] = Untracked
         /\ \A j \in Key :
              Quiet(j) /\ (j \in missedCancel => j \in missedCancel') => Quiet(j)'
<1> DEFINE trk == IF ok THEN Drop(k) ELSE tracked
<1>1. PICK ord \in {order, Gone(tracked[k].id)} : VenueBecomes(ord, trk)
  BY DEF Cancels, CancelLeaves
<1>2. /\ ShapeOf(ord, tracked) /\ Names(ord, tracked)
      /\ \A j \in Key : tracked[j] # Untracked /\ ord[tracked[j].id].open
                       => order[tracked[j].id].open
  BY <1>1, GoneKeeps
<1>3. /\ DOMAIN trk = Key /\ (ok => trk[k] = Untracked)
      /\ \A j \in Key : trk[j] = tracked[j] \/ trk[j] = Untracked
  BY <1>2 DEF ShapeOf, Drop
<1> HIDE DEF trk
<1>4. Consistent(ord, trk)
  BY <1>2, <1>3, UntrackedShape DEF Consistent, ShapeOf, Names
<1>5. /\ Consistent(order', tracked') /\ tracked' = trk
      /\ \A j \in Key : trk[j] # Untracked => order'[trk[j].id] = ord[trk[j].id]
  BY <1>1, <1>4, SweptKeeps
<1>6. ASSUME NEW j \in Key, Quiet(j), j \in missedCancel => j \in missedCancel'
      PROVE  Quiet(j)'
  BY <1>2, <1>3, <1>5, <1>6 DEF Quiet, QuietIn
<1>7. QED
  BY <1>3, <1>5, <1>6

(* An answered place, fresh or of a replace, disturbs no other key.        *)
LEMMA PlaceKeeps ==
  ASSUME Consistent(order, tracked), NEW k \in Key, PlaceAnswered(k)
  PROVE  /\ Consistent(order', tracked')
         /\ \A j \in Key \ {k} : Quiet(j) => Quiet(j)'
<1> DEFINE i == Lowest(Free)
           ord == Rests(i, k, desired[k])
<1>1. CASE Refused
  BY <1>1 DEF Refused, Quiet
<1>2. ASSUME NEW trk \in {tracked, Track(k, i, desired[k])}, Free # {}, VenueBecomes(ord, trk),
             missedCancel' \in {missedCancel, missedCancel \ {k}}
      PROVE  /\ Consistent(order', tracked')
             /\ \A j \in Key \ {k} : Quiet(j) => Quiet(j)'
  <2>1. i \in Id /\ order[i] = Vacant
    BY <1>2, FreeId
  <2>2. \A j \in Key : tracked[j] # Untracked => tracked[j].id # i
    BY <2>1, VacantShape DEF Consistent, Names
  <2> HIDE DEF i
  <2>3. /\ DOMAIN ord = Id
        /\ \A n \in Id : /\ DOMAIN ord[n] = OrderFields
                         /\ IF n = i THEN ord[n].key = k ELSE ord[n] = order[n]
    BY <2>1 DEF Rests, Consistent, ShapeOf, OrderFields
  <2>4. /\ DOMAIN trk = Key
        /\ \A j \in Key : /\ DOMAIN trk[j] = {"id", "quote"}
                          /\ trk[j] = tracked[j] \/ (j = k /\ trk[j].id = i)
    BY <1>2 DEF Track, Consistent, ShapeOf
  <2> HIDE DEF ord
  <2>5. Consistent(ord, trk)
    BY <2>1, <2>2, <2>3, <2>4 DEF Consistent, ShapeOf, Names
  <2>6. /\ Consistent(order', tracked') /\ tracked' = trk
        /\ \A j \in Key : trk[j] # Untracked => order'[trk[j].id] = ord[trk[j].id]
    BY <1>2, <2>5, SweptKeeps
  <2>7. ASSUME NEW j \in Key \ {k}, Quiet(j)
        PROVE  Quiet(j)'
    <3>1. trk[j] = tracked[j] /\ (j \in missedCancel => j \in missedCancel')
      BY <1>2, <2>4
    <3>2. tracked[j] # Untracked => tracked[j].id \in Id /\ tracked[j].id # i
      BY <2>2 DEF Consistent, Names
    <3>3. QED
      BY <2>3, <2>6, <2>7, <3>1, <3>2 DEF Quiet, QuietIn
  <2>8. QED
    BY <2>6, <2>7
<1>3. CASE Accepted(k)
  <2>1. missedCancel' = missedCancel \ {k}
    BY <1>3 DEF Accepted, Missed
  <2>2. QED
    BY <1>2, <1>3, <2>1 DEF Accepted
<1>4. CASE Unheard(k)
  BY <1>2, <1>4 DEF Unheard
<1>5. QED
  BY <1>1, <1>3, <1>4 DEF PlaceAnswered

-----------------------------------------------------------------------------
(* A session starts flat.                                                 *)
LEMMA InitIInv == Init => IInv
<1> SUFFICES ASSUME Init PROVE IInv
  OBVIOUS
<1>1. Consistent(order, tracked)
  BY VacantShape, UntrackedShape DEF Init, VenueInit, Consistent, ShapeOf, Names
<1>2. \A k \in Key : Quiet(k)
  BY DEF Init, VenueInit, Quiet, QuietIn
<1>3. QED
  BY <1>1, <1>2 DEF Init, IInv, Stages

(* What the venue, the socket and the operator's kill do to the map: they  *)
(* open no order.                                                          *)
LEMMA OutsideInv == IInv /\ Outside => IInv'
<1> SUFFICES ASSUME IInv, Outside PROVE IInv'
  OBVIOUS
<1>1. Consistent(order, tracked)
  BY DEF IInv
<1>2. ASSUME Consistent(order', tracked'), \A k \in Key : Quiet(k) => Quiet(k)',
             UNCHANGED <<flags, pc, desired, todo, afterwards>>
      PROVE  IInv'
  BY <1>2 DEF IInv, Stages, flags
<1>3. ASSUME NEW i \in Id, NEW q \in 1..MaxSize, Matching(i, q)
      PROVE  IInv'
  <2>1. order' = Trade(i, q) /\ tracked' = tracked /\ missedCancel' = missedCancel /\ order[i].open
    BY <1>3 DEF Matching
  <2>2. /\ DOMAIN order' = Id
        /\ \A n \in Id : /\ DOMAIN order'[n] = OrderFields /\ order'[n].key = order[n].key
                         /\ order'[n].open => order[n].open
    BY <1>1, <2>1 DEF Trade, Consistent, ShapeOf, OrderFields
  <2>3. Consistent(order', tracked')
    BY <1>1, <2>1, <2>2 DEF Consistent, ShapeOf, Names
  <2>4. \A k \in Key : Quiet(k) => Quiet(k)'
    BY <1>1, <2>1, <2>2 DEF Quiet, QuietIn, Consistent, Names
  <2>5. QED
    BY <1>2, <1>3, <2>3, <2>4 DEF Matching
<1>4. ASSUME NEW i \in Id, FrameLost(i)
      PROVE  IInv'
  <2> DEFINE ord == [order EXCEPT ![i].unseen = 0]
  <2>1. VenueBecomes(ord, tracked) /\ missedCancel' = missedCancel
    BY <1>4 DEF FrameLost
  <2>2. /\ DOMAIN ord = Id
        /\ \A n \in Id : /\ DOMAIN ord[n] = OrderFields /\ ord[n].key = order[n].key
                         /\ ord[n].open = order[n].open
    BY <1>1 DEF Consistent, ShapeOf, OrderFields
  <2> HIDE DEF ord
  <2>3. Consistent(ord, tracked)
    BY <1>1, <2>2 DEF Consistent, ShapeOf, Names
  <2>4. /\ Consistent(order', tracked') /\ tracked' = tracked
        /\ \A k \in Key : tracked[k] # Untracked => order'[tracked[k].id] = ord[tracked[k].id]
    BY <2>1, <2>3, SweptKeeps
  <2>5. \A k \in Key : Quiet(k) => Quiet(k)'
    BY <1>1, <2>1, <2>2, <2>4 DEF Quiet, QuietIn, Consistent, Names
  <2>6. QED
    BY <1>2, <1>4, <2>4, <2>5 DEF FrameLost
<1>5. CASE Kill
  BY <1>1, <1>2, <1>5 DEF Kill, maker, Quiet
<1>6. QED
  BY <1>3, <1>4, <1>5 DEF Outside

-----------------------------------------------------------------------------
(* Steps of the task that leave map and book alone.                        *)
LEMMA IdleInv ==
  ASSUME IInv, UNCHANGED <<order, tracked, missedCancel, vetoed>>, Stages'
  PROVE  IInv'
BY DEF IInv, Consistent, ShapeOf, Names

\* cancel_all starts with every tracked key still to be visited
LEMMA StartCancelAllInv ==
  ASSUME IInv, NEW back \in {"top", "done"}, StartCancelAll(back),
         UNCHANGED <<order, tracked, missedCancel, vetoed>>
  PROVE  IInv'
<1>1. TrackedKeys \subseteq Key /\ \A k \in Key : k \notin TrackedKeys => Quiet(k)
  BY DEF TrackedKeys, Quiet, QuietIn
<1>2. \A k \in Key : Quiet(k) => Quiet(k)'
  BY DEF Quiet
<1>3. Stages'
  BY <1>1, <1>2 DEF StartCancelAll, IInv, Stages
<1>4. QED
  BY <1>3, IdleInv

(* A tick asks for quotes only when nothing is stopped, and for none that *)
(* is vetoed.                                                             *)
LEMMA TicksInv == IInv /\ Ticks => IInv'
<1> SUFFICES ASSUME IInv, Ticks PROVE IInv'
  OBVIOUS
<1>1. \A k \in Key : Quiet(k)' = Quiet(k)
  BY DEF Ticks, Quiet
<1>2. CASE QuotesAllowed(dayHalted')
  <2>1. \A k \in vetoed : k \in Key => desired'[k] = NoQuote
    BY <1>2 DEF Ticks, StartQuoting, Wanted
  <2>2. pc' = "stale" /\ todo' \subseteq Key /\ ~paused /\ ~halted
    BY <1>2 DEF Ticks, StartQuoting, QuotesAllowed, TrackedKeys
  <2>3. Stages'
    BY <1>1, <2>1, <2>2 DEF Ticks, IInv, Stages
  <2>4. QED
    BY <2>3, IdleInv DEF Ticks
<1>3. CASE ~QuotesAllowed(dayHalted')
  <2>1. Stages'
    BY <1>1, <1>3 DEF Ticks, IInv, Stages
  <2>2. QED
    BY <2>1, IdleInv DEF Ticks
<1>4. QED
  BY <1>2, <1>3

(* Booking fills drops keys from the map, and opens nothing.               *)
LEMMA PollInv == IInv /\ Poll => IInv'
<1> SUFFICES ASSUME IInv, Poll PROVE IInv'
  OBVIOUS
<1>1. Consistent(order, tracked)
  BY DEF IInv
<1>2. PICK seen \in SUBSET Unseen : Booked(seen)
  BY DEF Poll
<1> DEFINE ord == [i \in Id |-> IF i \in seen THEN [order[i] EXCEPT !.unseen = 0] ELSE order[i]]
<1>3. PICK got : VenueBecomes(ord, NoteFills(got))
  BY <1>2 DEF Booked
<1> DEFINE trk == NoteFills(got)
<1>4. /\ DOMAIN ord = Id
      /\ \A i \in Id : /\ DOMAIN ord[i] = OrderFields /\ ord[i].key = order[i].key
                       /\ ord[i].open = order[i].open
  BY <1>1 DEF Consistent, ShapeOf, OrderFields
<1>5. /\ DOMAIN trk = Key
      /\ \A k \in Key : /\ DOMAIN trk[k] = {"id", "quote"}
                        /\ trk[k] = Untracked \/ (tracked[k] # Untracked /\ trk[k].id = tracked[k].id)
  <2>1. DOMAIN trk = Key
    BY DEF NoteFills
  <2>2. ASSUME NEW k \in Key
        PROVE  /\ DOMAIN trk[k] = {"id", "quote"}
               /\ trk[k] = Untracked \/ (tracked[k] # Untracked /\ trk[k].id = tracked[k].id)
    <3>1. DOMAIN tracked[k] = {"id", "quote"}
      BY <1>1 DEF Consistent, ShapeOf
    <3>2. \/ trk[k] = tracked[k] \/ trk[k] = Untracked
          \/ tracked[k] # Untracked
             /\ trk[k] = [tracked[k] EXCEPT !.quote.qty = tracked[k].quote.qty - got[tracked[k].id]]
      BY DEF NoteFills
    <3> HIDE DEF trk
    <3>3. QED
      BY <3>1, <3>2, UntrackedShape
  <2>3. QED
    BY <2>1, <2>2
<1> HIDE DEF ord, trk
<1>6. Consistent(ord, trk)
  BY <1>1, <1>4, <1>5, UntrackedShape DEF Consistent, ShapeOf, Names
<1>7. /\ Consistent(order', tracked') /\ tracked' = trk
      /\ \A k \in Key : trk[k] # Untracked => order'[trk[k].id] = ord[trk[k].id]
  BY <1>3, <1>6, SweptKeeps DEF ord, trk
<1>8. missedCancel' = missedCancel
  BY DEF Poll
<1>9. \A k \in Key : Quiet(k) => Quiet(k)'
  BY <1>1, <1>4, <1>5, <1>7, <1>8 DEF Quiet, QuietIn, Consistent, Names
<1>10. QED
  BY <1>7, <1>9 DEF Poll, IInv, Stages, flags

(* The two loops that cancel, and the two stages of a placement.           *)
LEMMA CancelStaleInv ==
  ASSUME IInv, NEW k \in Key, CancelStale(k)
  PROVE  IInv'
<1>1. PICK ok \in BOOLEAN : Cancels(k, ok) /\ Missed({k}, ok)
  BY DEF CancelStale
<1>2. Consistent(order, tracked)
  BY DEF IInv
<1>3. /\ Consistent(order', tracked') /\ (ok => tracked'[k] = Untracked)
      /\ \A j \in Key : Quiet(j) /\ (j \in missedCancel => j \in missedCancel') => Quiet(j)'
  BY <1>1, <1>2, CancelsKeep
<1>4. Quiet(k)' /\ \A j \in Key : Quiet(j) => Quiet(j)'
  BY <1>1, <1>3 DEF Missed, Quiet, QuietIn
<1>5. QED
  BY <1>3, <1>4 DEF CancelStale, IInv, Stages, flags

(* cancel_all aborts at its first error: the keys not visited have missed *)
(* their cancel.                                                          *)
LEMMA CancelAllStepInv ==
  ASSUME IInv, NEW k \in Key, CancelAllStep(k)
  PROVE  IInv'
<1>1. PICK ok \in BOOLEAN : /\ Cancels(k, ok)
                            /\ todo' = IF ok THEN todo \ {k} ELSE {}
                            /\ Missed(IF ok THEN {k} ELSE todo, ok)
  BY DEF CancelAllStep
<1>2. Consistent(order, tracked) /\ k \in todo
  BY DEF IInv, CancelAllStep
<1>3. /\ Consistent(order', tracked') /\ (ok => tracked'[k] = Untracked)
      /\ \A j \in Key : Quiet(j) /\ (j \in missedCancel => j \in missedCancel') => Quiet(j)'
  BY <1>1, <1>2, CancelsKeep
<1>4. \A j \in Key : Quiet(j) => Quiet(j)'
  BY <1>1, <1>2, <1>3 DEF Missed, Quiet, QuietIn
<1>5. \A j \in Key : j \in todo => Quiet(j)' \/ j \in todo'
  BY <1>1, <1>2, <1>3 DEF Missed, Quiet, QuietIn
<1>6. QED
  BY <1>3, <1>4, <1>5 DEF CancelAllStep, IInv, Stages, flags

LEMMA PlaceInv ==
  ASSUME IInv, NEW k \in Key, pc \in {"place", "replace"}, k \in todo, PlaceAnswered(k)
  PROVE  IInv'
<1>1. /\ Consistent(order', tracked')
      /\ \A j \in Key \ {k} : Quiet(j) => Quiet(j)'
  BY PlaceKeeps DEF IInv
<1>2. k \notin vetoed
  BY DEF IInv, Stages
<1>3. /\ pc' = "place" /\ todo' = todo \ {k}
      /\ UNCHANGED <<paused, halted, vetoed, desired, afterwards>>
  BY DEF PlaceAnswered, flags
<1>4. QED
  BY <1>1, <1>2, <1>3 DEF IInv, Stages

(* The first half of a replace leaves the map as it is.                   *)
LEMMA ReplaceCancelInv ==
  ASSUME IInv, NEW k \in Key, k \in todo, ReplaceCancel(k)
  PROVE  IInv'
<1>1. PICK ok \in BOOLEAN, ord \in {order, Gone(tracked[k].id)} :
        VenueBecomes(ord, tracked) /\ Missed({k}, ok)
  BY DEF ReplaceCancel, CancelLeaves
<1>2. Consistent(order, tracked)
  BY DEF IInv
<1>3. /\ ShapeOf(ord, tracked) /\ Names(ord, tracked)
      /\ \A j \in Key : tracked[j] # Untracked /\ ord[tracked[j].id].open
                       => order[tracked[j].id].open
  BY <1>1, <1>2, GoneKeeps
<1>4. /\ Consistent(order', tracked') /\ tracked' = tracked
      /\ \A j \in Key : tracked[j] # Untracked => order'[tracked[j].id] = ord[tracked[j].id]
  BY <1>1, <1>3, SweptKeeps DEF Consistent
<1>5. \A j \in Key \ {k} : Quiet(j) => Quiet(j)'
  BY <1>1, <1>3, <1>4 DEF Missed, Quiet, QuietIn
<1>6. k \notin vetoed
  BY DEF IInv, Stages, ReplaceCancel
<1>7. /\ pc' \in {"place", "replace"} /\ todo' \subseteq todo /\ (pc' = "replace" => k \in todo')
      /\ pc \in {"place", "replace"}
      /\ UNCHANGED <<paused, halted, vetoed, desired, afterwards>>
  BY DEF ReplaceCancel, flags
<1>8. QED
  BY <1>4, <1>5, <1>6, <1>7 DEF IInv, Stages

LEMMA RecordedInv == IInv /\ Recorded => IInv'
<1> SUFFICES ASSUME IInv, Recorded PROVE IInv'
  OBVIOUS
<1>1. Consistent(order, tracked)
  BY DEF IInv
<1>2. /\ tracked' = tracked /\ missedCancel' = missedCancel
      /\ order' = [i \in Id |-> IF Tracks(i) THEN [order[i] EXCEPT !.known = TRUE] ELSE order[i]]
  BY DEF Recorded
<1>3. /\ DOMAIN order' = Id
      /\ \A i \in Id : /\ DOMAIN order'[i] = OrderFields
                       /\ order'[i].key = order[i].key /\ order'[i].open = order[i].open
  BY <1>1, <1>2 DEF Consistent, ShapeOf, OrderFields
<1>4. Consistent(order', tracked')
  BY <1>1, <1>2, <1>3 DEF Consistent, ShapeOf, Names
<1>5. \A k \in Key : Quiet(k) => Quiet(k)'
  BY <1>1, <1>2, <1>3 DEF Quiet, QuietIn, Consistent, Names
<1>6. QED
  BY <1>4, <1>5 DEF Recorded, IInv, Stages, flags

(* A veto leaves its key quiet at once.                                   *)
LEMMA VetoInv ==
  ASSUME IInv, NEW k \in Key, Veto(k)
  PROVE  IInv'
<1>1. Consistent(order, tracked)
  BY DEF IInv
<1>2. /\ Consistent(order', tracked') /\ Quiet(k)'
      /\ \A j \in Key : Quiet(j) => Quiet(j)'
  <2>1. CASE tracked[k] = Untracked
    BY <1>1, <2>1 DEF Veto, Quiet, QuietIn
  <2>2. CASE tracked[k] # Untracked
    <3>1. PICK ok \in BOOLEAN : Cancels(k, ok) /\ Missed({k}, ok)
      BY <2>2 DEF Veto
    <3>2. /\ Consistent(order', tracked') /\ (ok => tracked'[k] = Untracked)
          /\ \A j \in Key : Quiet(j) /\ (j \in missedCancel => j \in missedCancel') => Quiet(j)'
      BY <1>1, <3>1, CancelsKeep
    <3>3. QED
      BY <3>1, <3>2 DEF Missed, Quiet, QuietIn
  <2>3. QED
    BY <2>1, <2>2
<1>3. /\ pc = "select" /\ pc' = "top" /\ vetoed' = vetoed \cup {k}
      /\ UNCHANGED <<paused, halted, desired, todo, afterwards>>
  BY DEF Veto
<1>4. QED
  BY <1>2, <1>3 DEF IInv, Stages

-----------------------------------------------------------------------------
LEMMA TaskInv == IInv /\ TaskStep => IInv'
<1> SUFFICES ASSUME IInv, TaskStep PROVE IInv'
  OBVIOUS
<1>1. CASE LoopTop
  <2>1. CASE killed
    BY <1>1, <2>1, StartCancelAllInv DEF LoopTop, flags
  <2>2. CASE ~killed
    <3>1. Stages'
      BY <1>1, <2>2 DEF LoopTop, IInv, Stages, Quiet, flags
    <3>2. QED
      BY <1>1, <3>1, IdleInv DEF LoopTop, flags
  <2>3. QED
    BY <2>1, <2>2
<1>2. CASE Ticks
  BY <1>2, TicksInv
<1>3. CASE StaleDone
  <2>1. Stages'
    BY <1>3 DEF StaleDone, IInv, Stages, Quiet, flags
  <2>2. QED
    BY <1>3, <2>1, IdleInv DEF StaleDone, flags
<1>4. CASE Recorded
  BY <1>4, RecordedInv
<1>5. CASE Poll
  BY <1>5, PollInv
<1>6. CASE Mark
  <2>1. CASE StartCancelAll("top")
    BY <1>6, <2>1, StartCancelAllInv DEF Mark
  <2>2. CASE pc' = "top" /\ UNCHANGED <<halted, todo, afterwards>>
    <3>1. Stages'
      BY <1>6, <2>2 DEF Mark, IInv, Stages, Quiet
    <3>2. QED
      BY <1>6, <3>1, IdleInv DEF Mark
  <2>3. QED
    BY <1>6, <2>1, <2>2 DEF Mark
<1>7. CASE CancelAllDone
  <2>1. Stages'
    BY <1>7 DEF CancelAllDone, IInv, Stages, Quiet, flags
  <2>2. QED
    BY <1>7, <2>1, IdleInv DEF CancelAllDone, flags
<1>8. ASSUME NEW k \in Key, CancelStale(k)
      PROVE  IInv'
  BY <1>8, CancelStaleInv
<1>9. ASSUME NEW k \in Key, Place(k) \/ ReplacePlace(k)
      PROVE  IInv'
  <2>1. pc \in {"place", "replace"} /\ todo # {} /\ k = Lowest(todo) /\ PlaceAnswered(k)
    BY <1>9 DEF Place, ReplacePlace, IInv, Stages
  <2>2. k \in todo
    BY <2>1, LowestKey DEF IInv, Stages
  <2>3. QED
    BY <2>1, <2>2, PlaceInv
<1>10. ASSUME NEW k \in Key, ReplaceCancel(k)
       PROVE  IInv'
  <2>1. k \in todo
    BY <1>10, LowestKey DEF ReplaceCancel, IInv, Stages
  <2>2. QED
    BY <1>10, <2>1, ReplaceCancelInv
<1>11. ASSUME NEW k \in Key, CancelAllStep(k)
       PROVE  IInv'
  BY <1>11, CancelAllStepInv
<1>12. QED
  BY <1>1, <1>2, <1>3, <1>4, <1>5, <1>6, <1>7, <1>8, <1>9, <1>10, <1>11 DEF TaskStep

LEMMA CommandsInv == IInv /\ Commands => IInv'
<1> SUFFICES ASSUME IInv, Commands PROVE IInv'
  OBVIOUS
<1>1. ASSUME NEW p \in BOOLEAN, SetPaused(p)
      PROVE  IInv'
  <2>1. CASE p
    BY <1>1, <2>1, StartCancelAllInv DEF SetPaused
  <2>2. CASE ~p
    <3>1. Stages'
      BY <1>1, <2>2 DEF SetPaused, IInv, Stages, Quiet
    <3>2. QED
      BY <1>1, <3>1, IdleInv DEF SetPaused
  <2>3. QED
    BY <2>1, <2>2
<1>2. ASSUME NEW k \in Key, Veto(k)
      PROVE  IInv'
  BY <1>2, VetoInv
<1>3. ASSUME NEW k \in Key, LiftVeto(k)
      PROVE  IInv'
  BY <1>3 DEF LiftVeto, IInv, Stages, Quiet, Consistent, ShapeOf, Names
<1>4. CASE CtlClosed
  BY <1>4, StartCancelAllInv DEF CtlClosed, flags
<1>5. QED
  BY <1>1, <1>2, <1>3, <1>4 DEF Commands

LEMMA NextIInv == IInv /\ [Next]_vars => IInv'
<1>1. ASSUME IInv, UNCHANGED vars
      PROVE  IInv'
  BY <1>1 DEF vars, maker, flags, IInv, Stages, Quiet, Consistent, ShapeOf, Names
<1>2. QED
  BY <1>1, TaskInv, CommandsInv, OutsideInv DEF Next

(* cancel_all, set_veto and reconcile, crates/app/src/strategy/mm.rs: a    *)
(* stopped side of the book is empty when the loop is back at its select;  *)
(* whatever still rests there is an order whose cancel failed.             *)
THEOREM StopsFlatHolds == Spec => []StopsFlat
<1>1. IInv => StopsFlat
  <2> SUFFICES ASSUME IInv, pc \in {"top", "select", "done"}, NEW k \in Key, Stopped(k),
                      NEW i \in OpenAt(k), Tracks(i)
               PROVE  k \in missedCancel
    BY DEF StopsFlat
  <2>1. Quiet(k)
    BY DEF IInv, Stages, Stopped
  <2>2. PICK j \in Key : tracked[j].id = i
    BY DEF Tracks
  <2>3. i \in Id /\ order[i].open /\ order[i].key = k
    BY DEF OpenAt
  <2>4. tracked[j] # Untracked
    BY <2>2, <2>3, UntrackedShape
  <2>5. j = k
    BY <2>2, <2>3, <2>4 DEF IInv, Consistent, Names
  <2>6. QED
    BY <2>1, <2>2, <2>3, <2>4, <2>5 DEF Quiet, QuietIn
<1>2. QED
  BY <1>1, InitIInv, NextIInv, PTL DEF Spec

-----------------------------------------------------------------------------
(***************************************************************************)
(* The inventory.  `Books' follows, for every token and side, what the     *)
(* venue traded and the maker has not booked (Gap), what its orders there  *)
(* may still add (Reach), and what the orders nobody attributes may still  *)
(* trade (Stray).  A fault costs at most one quote; a pass adds at most    *)
(* one to Reach, and only where the caps approved it.                      *)
(***************************************************************************)

Directions == {"bid", "ask"}
Toward(d, n) == IF d = "bid" THEN n ELSE -n

\* what order o may still bring into the books
Rest(o) == o.unseen + (IF o.open THEN o.left ELSE 0)

On(o, t) == o.key \in Key /\ TokenOf[o.key] = t
Facing(o, d) == SideOf[o.key] = d

Unbooked(ord, t, d) ==
  [i \in Id |-> IF ~On(ord[i], t) THEN 0
                ELSE IF Facing(ord[i], d) THEN ord[i].unseen ELSE -ord[i].unseen]
Ahead(ord, t, d) ==
  [i \in Id |-> IF On(ord[i], t) /\ Facing(ord[i], d) THEN Rest(ord[i]) ELSE 0]
Unclaimed(ord, trk) ==
  [i \in Id |-> IF ord[i].known \/ \E k \in Key : trk[k].id = i THEN 0 ELSE Rest(ord[i])]

Reach(t, d) == Total(Ahead(order, t, d), Id)
Stray == Total(Unclaimed(order, tracked), Id)
Held(t, d) == Toward(d, net[t])
Gap(t, d) == Toward(d, matched[t]) - Held(t, d) - Total(Unbooked(order, t, d), Id)

Quoted(t, d) ==
  pc \in {"place", "replace", "poll"}
  /\ ~ \E k \in todo : k \in Key /\ TokenOf[k] = t /\ SideOf[k] = d
Extra(t, d) == IF Quoted(t, d) THEN MaxSize ELSE 0
Loss == faults * MaxSize

\* held h, untold g and within reach r, s of it unclaimed; f lost, x more to be placed
Sound(h, g, r, s, f, x) ==
  /\ s <= f /\ g + s <= f
  /\ r <= f + MaxSize + x /\ g + r <= f + MaxSize + x
  /\ h + g + r <= Ceiling + MaxSize + f

Balance(t, d) == Sound(Held(t, d), Gap(t, d), Reach(t, d), Stray, Loss, Extra(t, d))

Books == \A t \in Token, d \in Directions : Balance(t, d)

\* an order with something left is open, one nobody tracks was never recorded
OrderFits(i) ==
  /\ order[i] # Vacant => order[i].left + order[i].unseen <= MaxSize
  /\ order[i].open => order[i].left > 0
  /\ order[i].open /\ order[i].known => Tracks(i)

\* a quote covers what is left of its order
QuoteFits(k) ==
  LET t == tracked[k] IN
  /\ desired[k].qty <= MaxSize
  /\ t.quote.qty <= MaxSize
  /\ t # Untracked /\ order[t.id].open => order[t.id].left + order[t.id].unseen <= t.quote.qty

\* record_placed has seen the order tracked at k
Listed(k) == tracked[k] # Untracked => order[tracked[k].id].known

\* a quote that a pass may place is within the caps
Fits(k) == Held(TokenOf[k], SideOf[k]) + desired[k].qty <= Ceiling
PassFits ==
  /\ pc = "stale" => \A k \in Key :
       /\ desired[k] = NoQuote \/ tracked[k].quote = desired[k] \/ Fits(k)
       /\ k \in todo => desired[k] = NoQuote
  /\ pc \in {"place", "replace"} => \A k \in Key : k \in todo => Fits(k) /\ Listed(k)
  /\ pc \notin {"place", "replace"} => \A k \in Key : Listed(k)
  /\ pc = "replace" => LET t == tracked[Lowest(todo)] IN t # Untracked /\ ~order[t.id].open

Strays == {i \in Id : order[i].open /\ ~Tracks(i)}
OrdersFit == (\A i \in Id : OrderFits(i)) /\ \A k \in Key : QuoteFits(k)
Orders == OrdersFit /\ PassFits /\ Cardinality(Strays) <= faults

Whole == TypeOK /\ IInv /\ Orders /\ Books

VenueBook == [Id -> OrderRecord \cup {Vacant}]
Tracking == [Key -> [id: Id, quote: Quotes] \cup {Untracked}]

(* No quote is larger than MaxSize.                                        *)
LEMMA Sized == MaxSize \in Nat \ {0} /\ \A q \in Size : q \in Nat \ {0} /\ q <= MaxSize
<1>1. Size \subseteq Nat /\ Size # {} /\ IsFiniteSet(Size) /\ \A q \in Size : q \in Nat \ {0}
  BY QuoteAssumption DEF QuoteAssumption
<1>2. \E m \in Size : \A k \in Size : k <= m
  BY <1>1, GreatestExists
<1>3. QED
  BY <1>1, <1>2 DEF MaxSize

LEMMA CeilingSized == Ceiling \in Nat
<1>1. Cap \in Nat /\ MaxSize \in Nat
  BY Sized, MakerAssumption DEF MakerAssumption
<1>2. QED
  BY ONLY <1>1 DEF Ceiling

LEMMA IdFinite == IsFiniteSet(Id) /\ Id \subseteq Nat /\ 0 \notin Id
<1>1. MaxOrders \in Nat
  BY QuoteAssumption DEF QuoteAssumption
<1>2. QED
  BY <1>1, FS_Interval DEF Id

(* One order more or fewer faults, in shares.                              *)
LEMMA Slack ==
  ASSUME NEW a \in Nat, NEW b \in Nat, NEW m \in Nat
  PROVE  /\ a * m \in Nat /\ (1 + a) * m = a * m + m /\ (a + 1) * m = a * m + m
         /\ m * (1 + a) = a * m + m
         /\ a <= b => a * m <= b * m
<1>1. a * m \in Nat /\ (1 + a) * m = a * m + m /\ (a + 1) * m = a * m + m /\ m * (1 + a) = a * m + m
  OBVIOUS
<1>2. ASSUME a <= b PROVE a * m <= b * m
  <2>1. b - a \in Nat /\ b = a + (b - a)
    BY <1>2
  <2>2. PICK c \in Nat : b = a + c
    BY <2>1
  <2>3. b * m = a * m + c * m /\ c * m \in Nat
    BY <2>2
  <2>4. QED
    BY <1>1, <2>3
<1>3. QED
  BY <1>1, <1>2

(* An order of the venue's type, or none, counts for a number.             *)
LEMMA Weights ==
  ASSUME NEW ord \in VenueBook, NEW trk, NEW t, NEW d
  PROVE  \A i \in Id :
           /\ Rest(ord[i]) \in Nat /\ ord[i].unseen \in Nat
           /\ Unbooked(ord, t, d)[i] \in Int
           /\ Ahead(ord, t, d)[i] \in Nat /\ Ahead(ord, t, d)[i] \in Int
           /\ Unclaimed(ord, trk)[i] \in Nat /\ Unclaimed(ord, trk)[i] \in Int
<1> SUFFICES ASSUME NEW i \in Id
             PROVE  /\ Rest(ord[i]) \in Nat /\ ord[i].unseen \in Nat
                    /\ Unbooked(ord, t, d)[i] \in Int
                    /\ Ahead(ord, t, d)[i] \in Nat /\ Ahead(ord, t, d)[i] \in Int
                    /\ Unclaimed(ord, trk)[i] \in Nat /\ Unclaimed(ord, trk)[i] \in Int
  OBVIOUS
<1>1. ord[i] \in OrderRecord \/ ord[i] = Vacant
  BY DEF VenueBook
<1>2. ord[i].unseen \in Nat /\ ord[i].left \in Nat
  BY <1>1 DEF OrderRecord, Vacant
<1>3. Rest(ord[i]) \in Nat
  BY <1>2 DEF Rest
<1>4. QED
  BY <1>2, <1>3 DEF Unbooked, Ahead, Unclaimed

(* So the totals are numbers too.                                          *)
LEMMA Totals ==
  ASSUME NEW ord \in VenueBook, NEW trk, NEW t, NEW d
  PROVE  /\ Total(Unbooked(ord, t, d), Id) \in Int
         /\ Total(Ahead(ord, t, d), Id) \in Nat
         /\ Total(Unclaimed(ord, trk), Id) \in Nat
<1>1. \A i \in Id : /\ Unbooked(ord, t, d)[i] \in Int /\ Ahead(ord, t, d)[i] \in Nat
                    /\ Unclaimed(ord, trk)[i] \in Nat
  BY Weights
<1>2. QED
  BY <1>1, IdFinite, TotalType

(* Naming an id again counts for nothing.                                  *)
LEMMA BecomesBooks ==
  ASSUME NEW ord \in VenueBook, NEW trk \in Tracking, VenueBecomes(ord, trk)
  PROVE  /\ VenueTypeOK'
         /\ tracked' = trk
         /\ \A i \in Id : order'[i] = ord[i] \/
              (order'[i] = Vacant /\ ~ord[i].open /\ \A k \in Key : trk[k].id # i)
         /\ \A t, d : /\ Unbooked(order', t, d) = Unbooked(ord, t, d)
                      /\ Ahead(order', t, d) = Ahead(ord, t, d)
         /\ Unclaimed(order', tracked') = Unclaimed(ord, trk)
<1>1. tracked' = trk /\ order' = Swept(ord, trk)
  BY DEF VenueBecomes
<1>2. \A i \in Id : order'[i] = ord[i] \/
        (/\ order'[i] = Vacant /\ ~ord[i].open /\ ord[i].unseen = 0
         /\ \A k \in Key : trk[k].id # i)
  BY <1>1 DEF Swept
<1>3. order' \in VenueBook
  BY <1>1 DEF Swept, VenueBook
<1>4. VenueTypeOK'
  BY <1>1, <1>3 DEF VenueTypeOK, VenueBook, Tracking
<1>5. Rest(Vacant) = 0 /\ Vacant.key \notin Key /\ ~Vacant.known
  BY VacantShape DEF Rest, Vacant
<1>6. \A i \in Id : order'[i] # ord[i] => Rest(ord[i]) = 0
  BY <1>2 DEF Rest
<1>7. ASSUME NEW t, NEW d, NEW i \in Id
      PROVE  /\ Unbooked(order', t, d)[i] = Unbooked(ord, t, d)[i]
             /\ Ahead(order', t, d)[i] = Ahead(ord, t, d)[i]
  BY <1>2, <1>5, <1>6 DEF Unbooked, Ahead, On
<1>8. ASSUME NEW i \in Id PROVE Unclaimed(order', tracked')[i] = Unclaimed(ord, trk)[i]
  BY <1>1, <1>2, <1>5, <1>6 DEF Unclaimed
<1>9. \A t, d : /\ Unbooked(order', t, d) = Unbooked(ord, t, d)
                /\ Ahead(order', t, d) = Ahead(ord, t, d)
  BY <1>7 DEF Unbooked, Ahead
<1>10. Unclaimed(order', tracked') = Unclaimed(ord, trk)
  BY <1>8 DEF Unclaimed
<1>11. QED
  BY <1>1, <1>2, <1>4, <1>9, <1>10

Measured(t, d) ==
  /\ Held(t, d) \in Int /\ Gap(t, d) \in Int /\ Reach(t, d) \in Int /\ Stray \in Int
  /\ Loss \in Int /\ Extra(t, d) \in Int

Typed ==
  /\ order \in VenueBook /\ tracked \in Tracking /\ faults \in Nat
  /\ \A t \in Token : net[t] \in Int /\ matched[t] \in Int
  /\ \A t \in Token, d \in Directions : Measured(t, d)

(* Everything the books compare is a number.                               *)
LEMMA Numbers == TypeOK => Typed
<1> SUFFICES ASSUME TypeOK PROVE Typed
  OBVIOUS
<1>1. order \in VenueBook /\ tracked \in Tracking
  BY DEF TypeOK, VenueTypeOK, VenueBook, Tracking
<1>2. /\ \A t \in Token : net[t] \in Int /\ matched[t] \in Int
      /\ faults \in Nat /\ MaxSize \in Nat
  BY MakerAssumption, Sized DEF TypeOK, MakerAssumption
<1>3. ASSUME NEW t \in Token, NEW d \in Directions PROVE Measured(t, d)
  <2>1. Toward(d, matched[t]) \in Int /\ Held(t, d) \in Int
    BY <1>2 DEF Toward, Held
  <2>2. /\ Total(Unbooked(order, t, d), Id) \in Int
        /\ Reach(t, d) \in Int /\ Stray \in Int
    BY <1>1, Totals DEF Reach, Stray
  <2>3. Loss \in Int /\ Extra(t, d) \in Int
    BY <1>2 DEF Loss, Extra
  <2>4. QED
    BY <2>1, <2>2, <2>3 DEF Gap, Measured
<1>4. QED
  BY <1>1, <1>2, <1>3 DEF Typed

LEMMA NumbersNext == TypeOK' => Typed'
BY Numbers, PTL

(* A change of the book after which no order counts for more.              *)
LEMMA Eases ==
  ASSUME order \in VenueBook, tracked \in Tracking, NEW ord \in VenueBook, NEW trk \in Tracking,
         \A i \in Id : /\ ord[i].key = order[i].key /\ ord[i].unseen = order[i].unseen
                       /\ Rest(ord[i]) <= Rest(order[i]),
         \A i \in Id : Unclaimed(ord, trk)[i] <= Unclaimed(order, tracked)[i]
  PROVE  /\ \A t, d : /\ Unbooked(ord, t, d) = Unbooked(order, t, d)
                      /\ Total(Ahead(ord, t, d), Id) <= Total(Ahead(order, t, d), Id)
         /\ Total(Unclaimed(ord, trk), Id) <= Total(Unclaimed(order, tracked), Id)
<1>1. ASSUME NEW t, NEW d
      PROVE  /\ Unbooked(ord, t, d) = Unbooked(order, t, d)
             /\ Total(Ahead(ord, t, d), Id) <= Total(Ahead(order, t, d), Id)
  <2>1. \A i \in Id : /\ Ahead(ord, t, d)[i] \in Int /\ Ahead(order, t, d)[i] \in Int
                      /\ Ahead(ord, t, d)[i] <= Ahead(order, t, d)[i]
    <3>1. \A i \in Id : Ahead(ord, t, d)[i] \in Int /\ Ahead(order, t, d)[i] \in Int
      BY Weights
    <3>2. \A i \in Id : Ahead(ord, t, d)[i] <= Ahead(order, t, d)[i]
      BY DEF Ahead, On, Facing
    <3>3. QED
      BY <3>1, <3>2
  <2>2. Unbooked(ord, t, d) = Unbooked(order, t, d)
    BY DEF Unbooked, On, Facing
  <2>3. QED
    BY <2>1, <2>2, IdFinite, TotalLess
<1>2. \A i \in Id : /\ Unclaimed(ord, trk)[i] \in Int /\ Unclaimed(order, tracked)[i] \in Int
                    /\ Unclaimed(ord, trk)[i] <= Unclaimed(order, tracked)[i]
  BY Weights
<1>3. Total(Unclaimed(ord, trk), Id) <= Total(Unclaimed(order, tracked), Id)
  BY <1>2, IdFinite, TotalLess
<1>4. QED
  BY <1>1, <1>3

(* What a step may change without a new approval.                          *)
LEMMA SoundKept ==
  ASSUME NEW h \in Int, NEW g \in Int, NEW r \in Int, NEW s \in Int, NEW f \in Int, NEW x \in Int,
         NEW h1 \in Int, NEW g1 \in Int, NEW r1 \in Int, NEW s1 \in Int, NEW f1 \in Int,
         NEW x1 \in Int, Sound(h, g, r, s, f, x),
         s1 <= s + (f1 - f), g1 + s1 <= g + s + (f1 - f),
         r1 <= r + (f1 - f) + (x1 - x), g1 + r1 <= g + r + (f1 - f) + (x1 - x),
         h1 + g1 + r1 <= h + g + r + (f1 - f)
  PROVE  Sound(h1, g1, r1, s1, f1, x1)
<1>1. MaxSize \in Int /\ Ceiling \in Int
  BY Sized, CeilingSized
<1>2. QED
  BY <1>1 DEF Sound

\* what the faults of this step have cost
Spent == Loss' - Loss

Drifts(t, d) ==
  /\ Stray' <= Stray + Spent /\ Gap(t, d)' + Stray' <= Gap(t, d) + Stray + Spent
  /\ Reach(t, d)' <= Reach(t, d) + Spent + (Extra(t, d)' - Extra(t, d))
  /\ Gap(t, d)' + Reach(t, d)' <=
       Gap(t, d) + Reach(t, d) + Spent + (Extra(t, d)' - Extra(t, d))
  /\ Held(t, d)' + Gap(t, d)' + Reach(t, d)' <= Held(t, d) + Gap(t, d) + Reach(t, d) + Spent

(* A step that drifts no further than its faults cost keeps the books.     *)
LEMMA BalanceKept ==
  ASSUME Typed, Typed', NEW t \in Token, NEW d \in Directions, Balance(t, d), Drifts(t, d)
  PROVE  Balance(t, d)'
<1> DEFINE h == Held(t, d)
           g == Gap(t, d)
           r == Reach(t, d)
           x == Extra(t, d)
           h1 == Held(t, d)'
           g1 == Gap(t, d)'
           r1 == Reach(t, d)'
           x1 == Extra(t, d)'
<1>1. /\ h \in Int /\ g \in Int /\ r \in Int /\ x \in Int
      /\ h1 \in Int /\ g1 \in Int /\ r1 \in Int /\ x1 \in Int
      /\ Stray \in Int /\ Stray' \in Int /\ Loss \in Int /\ Loss' \in Int
  BY DEF Typed, Measured
<1>2. Sound(h, g, r, Stray, Loss, x)
  BY DEF Balance
<1>3. /\ Stray' <= Stray + (Loss' - Loss) /\ g1 + Stray' <= g + Stray + (Loss' - Loss)
      /\ r1 <= r + (Loss' - Loss) + (x1 - x) /\ g1 + r1 <= g + r + (Loss' - Loss) + (x1 - x)
      /\ h1 + g1 + r1 <= h + g + r + (Loss' - Loss)
  BY DEF Drifts, Spent
<1> HIDE DEF h, g, r, x, h1, g1, r1, x1
<1>4. Sound(h1, g1, r1, Stray', Loss', x1)
  <2>1. MaxSize \in Int /\ Ceiling \in Int
    BY Sized, CeilingSized
  <2> DEFINE s == Stray
             s1 == Stray'
             f == Loss
             f1 == Loss'
  <2>2. /\ h \in Int /\ g \in Int /\ r \in Int /\ x \in Int
        /\ h1 \in Int /\ g1 \in Int /\ r1 \in Int /\ x1 \in Int
        /\ s \in Int /\ s1 \in Int /\ f \in Int /\ f1 \in Int
        /\ s1 <= s + (f1 - f) /\ g1 + s1 <= g + s + (f1 - f)
        /\ r1 <= r + (f1 - f) + (x1 - x) /\ g1 + r1 <= g + r + (f1 - f) + (x1 - x)
        /\ h1 + g1 + r1 <= h + g + r + (f1 - f)
        /\ Sound(h, g, r, s, f, x)
    BY <1>1, <1>2, <1>3
  <2> HIDE DEF s, s1, f, f1
  <2>3. Sound(h1, g1, r1, s1, f1, x1)
    BY ONLY <2>2, SoundKept
  <2>4. QED
    BY <2>3 DEF s1, f1
<1>5. QED
  BY <1>4 DEF Balance, h1, g1, r1, x1

(* A step that opens no order, loses nothing and books nothing.            *)
Calm ==
  /\ \A i \in Id : OrderFits(i)'
  /\ \A k \in Key : QuoteFits(k)' /\ (Listed(k) => Listed(k)')
  /\ Strays' \subseteq Strays
  /\ faults <= faults'
  /\ \A t \in Token, d \in Directions :
       /\ Held(t, d)' = Held(t, d) /\ Gap(t, d)' = Gap(t, d) /\ Reach(t, d)' <= Reach(t, d)
       /\ Quoted(t, d) => Quoted(t, d)'
  /\ Stray' <= Stray

(* A fault costs one quote.                                                *)
LEMMA LossGrows ==
  ASSUME Typed, Typed', faults <= faults'
  PROVE  Spent \in Nat /\ (faults' = faults + 1 => Spent = MaxSize)
<1>1. faults \in Nat /\ faults' \in Nat /\ MaxSize \in Nat
  BY Sized DEF Typed
<1>2. ASSUME NEW a \in Nat, NEW b \in Nat, NEW m \in Nat, a <= b
      PROVE  b * m - a * m \in Nat /\ (b = a + 1 => b * m - a * m = m)
  <2>1. a * m \in Nat /\ b * m \in Nat /\ a * m <= b * m /\ (a + 1) * m = a * m + m
    BY ONLY <1>2, Slack
  <2>2. b * m - a * m \in Nat
    BY ONLY <2>1
  <2>3. ASSUME b = a + 1 PROVE b * m - a * m = m
    <3>1. b * m = a * m + m
      BY ONLY <2>1, <2>3
    <3>2. QED
      BY ONLY <2>1, <3>1, m \in Nat
  <2>4. QED
    BY <2>2, <2>3
<1>3. QED
  BY <1>1, <1>2 DEF Spent, Loss

LEMMA CalmDrifts ==
  ASSUME Typed, Typed', Calm, NEW t \in Token, NEW d \in Directions
  PROVE  Drifts(t, d)
<1>1. Measured(t, d) /\ Measured(t, d)'
  BY DEF Typed
<1>2. Spent \in Nat /\ MaxSize \in Nat
  BY LossGrows, Sized DEF Calm
<1>3. /\ Held(t, d)' = Held(t, d) /\ Gap(t, d)' = Gap(t, d) /\ Reach(t, d)' <= Reach(t, d)
      /\ Stray' <= Stray /\ (Quoted(t, d) => Quoted(t, d)')
  BY DEF Calm
<1>4. Extra(t, d) <= Extra(t, d)'
  BY <1>2, <1>3 DEF Extra
<1>5. QED
  BY <1>1, <1>2, <1>3, <1>4 DEF Drifts, Measured

(* A calm step keeps the whole invariant.                                  *)
LEMMA CalmKeeps ==
  ASSUME Whole, TypeOK', IInv', Calm, PassFits'
  PROVE  Whole'
<1>1. Typed /\ Typed'
  BY Numbers, NumbersNext DEF Whole
<1>2. Books'
  <2> SUFFICES ASSUME NEW t \in Token, NEW d \in Directions PROVE Balance(t, d)'
    BY DEF Books
  <2>1. QED
    BY <1>1, CalmDrifts, BalanceKept DEF Whole, Books
<1>3. Cardinality(Strays') <= faults'
  <2>1. IsFiniteSet(Strays)
    BY IdFinite, FS_Subset DEF Strays
  <2>2. Cardinality(Strays') <= Cardinality(Strays) /\ Cardinality(Strays) \in Nat
        /\ Cardinality(Strays') \in Nat
    BY <2>1, FS_Subset, FS_CardinalityType DEF Calm
  <2>3. faults \in Nat /\ faults' \in Nat /\ faults <= faults' /\ Cardinality(Strays) <= faults
    BY <1>1 DEF Typed, Calm, Whole, Orders
  <2>4. QED
    BY ONLY <2>2, <2>3
<1>4. QED
  BY <1>2, <1>3 DEF Whole, Orders, OrdersFit, Calm

-----------------------------------------------------------------------------
(* Steps that leave the venue and the books alone.                         *)
LEMMA IdleKeeps ==
  ASSUME Whole, TypeOK', IInv', UNCHANGED <<order, tracked, net, matched, faults>>,
         \A k \in Key : desired'[k].qty <= MaxSize, PassFits',
         \A t \in Token, d \in Directions : Quoted(t, d) => Quoted(t, d)'
  PROVE  Whole'
<1>1. Typed /\ faults <= faults'
  BY Numbers DEF Whole, Typed
<1>2. /\ \A i \in Id : OrderFits(i)'
      /\ \A k \in Key : Listed(k)' = Listed(k)
      /\ Strays' = Strays
  BY DEF Whole, Orders, OrdersFit, OrderFits, Listed, Strays, Tracks
<1>3. ASSUME NEW k \in Key PROVE QuoteFits(k)'
  <2>1. QuoteFits(k)
    BY DEF Whole, Orders, OrdersFit
  <2>2. QED
    BY <2>1 DEF QuoteFits
<1>4. ASSUME NEW t \in Token, NEW d \in Directions
      PROVE  Held(t, d)' = Held(t, d) /\ Gap(t, d)' = Gap(t, d) /\ Reach(t, d)' = Reach(t, d)
  BY DEF Held, Gap, Reach
<1>5. Stray' = Stray
  BY DEF Stray
<1>6. /\ \A t \in Token, d \in Directions : Reach(t, d)' <= Reach(t, d)
      /\ Stray' <= Stray
  <2>1. \A t \in Token, d \in Directions : Measured(t, d)
    BY <1>1 DEF Typed
  <2>2. \A t \in Token, d \in Directions : Reach(t, d)' <= Reach(t, d)
    BY <1>4, <2>1 DEF Measured
  <2>3. Stray \in Nat
    BY <1>1, Totals DEF Typed, Stray
  <2>4. QED
    BY <1>5, <2>2, <2>3
<1>7. Calm
  BY <1>1, <1>2, <1>3, <1>4, <1>6 DEF Calm
<1>8. QED
  BY <1>7, CalmKeeps

(* Between passes nothing asks for a quote within the caps, only that      *)
(* every tracked order is listed.                                          *)
LEMMA RestKeeps ==
  ASSUME Whole, TypeOK', IInv', UNCHANGED <<order, tracked, net, matched, faults, desired>>,
         pc \notin {"place", "replace", "poll"}, pc' \notin {"stale", "place", "replace"}
  PROVE  Whole'
<1>1. \A t \in Token, d \in Directions : Quoted(t, d) => Quoted(t, d)'
  BY DEF Quoted
<1>2. \A k \in Key : desired'[k].qty <= MaxSize
  BY DEF Whole, Orders, OrdersFit, QuoteFits
<1>3. PassFits'
  BY DEF Whole, Orders, PassFits, Listed
<1>4. QED
  BY <1>1, <1>2, <1>3, IdleKeeps

(* The ways into cancel_all.                                               *)
LEMMA CancelAllStarts ==
  ASSUME Whole, IInv', NEW back \in {"top", "done"}, StartCancelAll(back),
         pc \notin {"place", "replace", "poll"},
         UNCHANGED <<live, order, tracked, maker, dayHalted, vetoed, desired, missedCancel>>,
         killed' \in BOOLEAN, paused' \in BOOLEAN, halted' \in BOOLEAN
  PROVE  Whole'
<1>1. pc' = "flatten" /\ todo' \subseteq Key /\ afterwards' = back
  BY DEF StartCancelAll, TrackedKeys
<1>2. TypeOK'
  BY <1>1 DEF Whole, TypeOK, VenueTypeOK, maker
<1>3. QED
  BY <1>1, <1>2, RestKeeps DEF maker

LEMMA LoopTopKeeps == ASSUME Whole, IInv', LoopTop PROVE Whole'
<1>1. CASE killed
  BY <1>1, CancelAllStarts DEF LoopTop, flags, Whole, TypeOK
<1>2. CASE ~killed
  <2>1. TypeOK'
    BY <1>2 DEF LoopTop, Whole, TypeOK, VenueTypeOK, maker, flags
  <2>2. QED
    BY <1>2, <2>1, RestKeeps DEF LoopTop, maker
<1>3. QED
  BY <1>1, <1>2

LEMMA MarkKeeps == ASSUME Whole, IInv', Mark PROVE Whole'
<1>1. CASE StartCancelAll("top")
  BY <1>1, CancelAllStarts DEF Mark, Whole, TypeOK
<1>2. CASE pc' = "top" /\ UNCHANGED <<halted, todo, afterwards>>
  <2>1. TypeOK'
    BY <1>2 DEF Mark, Whole, TypeOK, VenueTypeOK, maker
  <2>2. QED
    BY <1>2, <2>1, RestKeeps DEF Mark, maker
<1>3. QED
  BY <1>1, <1>2 DEF Mark

LEMMA CancelAllDoneKeeps == ASSUME Whole, IInv', CancelAllDone PROVE Whole'
<1>1. TypeOK' /\ afterwards \in {"top", "done"}
  BY DEF CancelAllDone, Whole, TypeOK, VenueTypeOK, maker, flags
<1>2. QED
  BY <1>1, RestKeeps DEF CancelAllDone, maker

LEMMA SetPausedKeeps == ASSUME Whole, IInv', NEW p \in BOOLEAN, SetPaused(p) PROVE Whole'
<1>1. CASE p
  BY <1>1, CancelAllStarts DEF SetPaused, Whole, TypeOK
<1>2. CASE ~p
  <2>1. TypeOK'
    BY <1>2 DEF SetPaused, Whole, TypeOK, VenueTypeOK, maker
  <2>2. QED
    BY <1>2, <2>1, RestKeeps DEF SetPaused, maker
<1>3. QED
  BY <1>1, <1>2

LEMMA LiftVetoKeeps == ASSUME Whole, IInv', NEW k \in Key, LiftVeto(k) PROVE Whole'
<1>1. TypeOK'
  BY DEF LiftVeto, Whole, TypeOK, VenueTypeOK, maker
<1>2. QED
  BY <1>1, RestKeeps DEF LiftVeto, maker

LEMMA CtlClosedKeeps == ASSUME Whole, IInv', CtlClosed PROVE Whole'
BY CancelAllStarts DEF CtlClosed, flags, Whole, TypeOK

LEMMA KillKeeps == ASSUME Whole, IInv', Kill PROVE Whole'
<1>1. TypeOK'
  BY DEF Kill, Whole, TypeOK, VenueTypeOK, maker, flags
<1>2. QED
  BY <1>1, RestKeeps DEF Kill, maker

(* A pass places only what check_quote approved, or what rests already.    *)
LEMMA StaleDoneKeeps == ASSUME Whole, IInv', StaleDone PROVE Whole'
<1>1. TypeOK'
  BY DEF StaleDone, Whole, TypeOK, VenueTypeOK, maker, flags
<1>2. PassFits'
  <2>1. \A k \in Key : k \in todo' => desired[k] # NoQuote /\ tracked[k].quote # desired[k]
    BY DEF StaleDone
  <2>2. \A k \in Key : Listed(k) /\ (k \in todo' => Fits(k))
    BY <2>1 DEF StaleDone, Whole, Orders, PassFits
  <2>3. \A k \in Key : Listed(k)' = Listed(k) /\ Fits(k)' = Fits(k)
    BY DEF StaleDone, Listed, Fits, Held, maker
  <2>4. QED
    BY <2>2, <2>3 DEF StaleDone, PassFits
<1>3. \A t \in Token, d \in Directions : ~Quoted(t, d)
  BY DEF StaleDone, Quoted
<1>4. \A k \in Key : desired'[k].qty <= MaxSize
  BY DEF StaleDone, Whole, Orders, OrdersFit, QuoteFits
<1>5. QED
  BY <1>1, <1>2, <1>3, <1>4, IdleKeeps DEF StaleDone, maker

-----------------------------------------------------------------------------
(* check_quote: a quote it approves, once filled, leaves the inventory of  *)
(* its token within the cap on its side; the rule that never blocks        *)
(* de-risking lets a quote through only as far as the mirror image of the  *)
(* inventory, half a quote away.                                           *)
LEMMA ApprovedFits ==
  ASSUME Typed, NEW k \in Key, NEW q \in Nat \ {0}, q <= MaxSize, Approved(k, q)
  PROVE  Held(TokenOf[k], SideOf[k]) + q <= Ceiling
<1>1. /\ TokenOf[k] \in Token /\ SideOf[k] \in {"bid", "ask"} /\ net[TokenOf[k]] \in Int
      /\ Cap \in Nat /\ MaxSize \in Nat
  BY QuoteAssumption, MakerAssumption, Sized DEF QuoteAssumption, MakerAssumption, Typed
<1> DEFINE n == net[TokenOf[k]]
           p == n + Signed(k, q)
<1>2. Abs(p) <= Abs(n) \/ Abs(p) <= Cap
  BY Zenon DEF Approved
<1>3. SideOf[k] = "bid" => p = n + q /\ Held(TokenOf[k], SideOf[k]) = n
  BY DEF Signed, Held, Toward
<1>4. SideOf[k] = "ask" => p = n - q /\ Held(TokenOf[k], SideOf[k]) = -n
  <2>1. "ask" # "bid"
    OBVIOUS
  <2>2. QED
    BY <1>1, <2>1 DEF Signed, Held, Toward
<1> HIDE DEF n, p
<1>5. n \in Int
  BY <1>1 DEF n
<1> DEFINE a == Held(TokenOf[k], SideOf[k]) + q
<1>6. a \in Int /\ (a <= Cap \/ 2 * a <= MaxSize)
  <2>1. CASE SideOf[k] = "bid"
    BY <1>1, <1>2, <1>3, <1>5, <2>1 DEF Abs
  <2>2. CASE SideOf[k] = "ask"
    BY <1>1, <1>2, <1>4, <1>5, <2>2 DEF Abs
  <2>3. QED
    BY <1>1, <2>1, <2>2
<1> HIDE DEF a
<1>7. a <= Ceiling
  BY ONLY <1>1, <1>6 DEF Ceiling
<1>8. QED
  BY <1>7 DEF a

(* A live ask is only ever cut down.                                       *)
LEMMA SellableFits ==
  ASSUME Typed, NEW k \in Key, NEW q \in Size, Sellable(k, q) # 0
  PROVE  Sellable(k, q) \in Nat \ {0} /\ Sellable(k, q) <= MaxSize
<1>1. TokenOf[k] \in Token /\ net[TokenOf[k]] \in Int
  BY QuoteAssumption DEF QuoteAssumption, Typed
<1>2. q \in Nat \ {0} /\ q <= MaxSize /\ MaxSize \in Nat /\ MinSell \in Nat
  BY Sized, MakerAssumption DEF MakerAssumption
<1>3. QED
  BY <1>1, <1>2 DEF Sellable

(* What a pass wants at k is within the caps, or rests there already.      *)
LEMMA WantedFits ==
  ASSUME Typed, NEW k \in Key, NEW c \in [px: Px, qty: Size] \cup {NoQuote}, QuoteFits(k)
  PROVE  /\ Wanted(k, c) \in Quotes \cup {NoQuote} /\ Wanted(k, c).qty <= MaxSize
         /\ \/ Wanted(k, c) = NoQuote \/ tracked[k].quote = Wanted(k, c)
            \/ Held(TokenOf[k], SideOf[k]) + Wanted(k, c).qty <= Ceiling
<1> DEFINE w == Wanted(k, c)
           q == Sellable(k, c.qty)
           made == [c EXCEPT !.qty = q]
<1>1. \/ w = NoQuote
      \/ /\ c # NoQuote /\ q # 0 /\ Approved(k, q)
         /\ w = made \/ (tracked[k] # Untracked /\ w = tracked[k].quote)
  BY Zenon DEF Wanted, Settled
<1>2. MaxSize \in Nat /\ NoQuote.qty = 0
  BY Sized DEF NoQuote
<1>3. CASE w = NoQuote
  BY <1>2, <1>3
<1>4. CASE c # NoQuote /\ q # 0 /\ Approved(k, q) /\ w = made
  <2>1. c \in [px: Px, qty: Size]
    BY <1>4
  <2>2. q \in Nat \ {0} /\ q <= MaxSize
    BY <1>4, <2>1, SellableFits
  <2>3. made \in Quotes /\ made.qty = q
    BY <2>1, <2>2 DEF Quotes
  <2>4. Held(TokenOf[k], SideOf[k]) + q <= Ceiling
    BY <1>4, <2>2, ApprovedFits
  <2> HIDE DEF w, q, made
  <2>5. w \in Quotes /\ w.qty = q
    BY <1>4, <2>3
  <2>6. QED
    BY <2>2, <2>4, <2>5 DEF w
<1>5. CASE tracked[k] # Untracked /\ w = tracked[k].quote
  <2>1. tracked[k].quote \in Quotes
    BY <1>5 DEF Typed, Tracking
  <2>2. tracked[k].quote.qty <= MaxSize
    BY DEF QuoteFits
  <2>3. QED
    BY <1>5, <2>1, <2>2
<1>6. QED
  BY <1>1, <1>3, <1>4, <1>5

(* A tick, up to its first venue call.                                     *)
LEMMA TicksKeeps == ASSUME Whole, IInv', Ticks PROVE Whole'
<1>1. Typed
  BY Numbers DEF Whole
<1>2. /\ UNCHANGED <<live, order, tracked, net, matched, faults, paused, halted, vetoed, killed,
                     afterwards, missedCancel>>
      /\ pc = "select" /\ dayHalted' \in BOOLEAN
  BY DEF Ticks, maker, DayLatch, Whole, TypeOK
<1>3. \A t \in Token, d \in Directions : ~Quoted(t, d)
  BY <1>2 DEF Quoted
<1>4. \A k \in Key : Listed(k)' /\ QuoteFits(k)
  BY <1>2 DEF Whole, Orders, OrdersFit, PassFits, Listed
<1>5. CASE StartQuoting
  <2>1. PICK c \in [Key -> [px: Px, qty: Size] \cup {NoQuote}] :
          /\ desired' = [k \in Key |-> Wanted(k, c[k])]
          /\ todo' = {k \in TrackedKeys : desired'[k] = NoQuote}
          /\ pc' = "stale"
    BY <1>5 DEF StartQuoting
  <2>2. ASSUME NEW k \in Key
        PROVE  /\ desired'[k] \in Quotes \cup {NoQuote} /\ desired'[k].qty <= MaxSize
               /\ desired'[k] = NoQuote \/ tracked'[k].quote = desired'[k] \/ Fits(k)'
    <3>1. c[k] \in [px: Px, qty: Size] \cup {NoQuote} /\ desired'[k] = Wanted(k, c[k])
      BY <2>1
    <3>2. Held(TokenOf[k], SideOf[k])' = Held(TokenOf[k], SideOf[k])
      BY <1>2 DEF Held
    <3>3. QED
      BY <1>1, <1>2, <1>4, <3>1, <3>2, WantedFits DEF Fits
  <2>3. TypeOK'
    BY <1>2, <2>1, <2>2 DEF Whole, TypeOK, VenueTypeOK, TrackedKeys
  <2>4. PassFits'
    BY <1>4, <2>1, <2>2 DEF PassFits
  <2>5. QED
    BY <1>2, <1>3, <2>2, <2>3, <2>4, IdleKeeps
<1>6. CASE pc' = "poll" /\ UNCHANGED <<desired, todo>>
  <2>1. TypeOK'
    BY <1>2, <1>6 DEF Whole, TypeOK, VenueTypeOK
  <2>2. QED
    BY <1>2, <1>6, <2>1, RestKeeps
<1>7. QED
  BY <1>5, <1>6 DEF Ticks

-----------------------------------------------------------------------------
(* Cancels.                                                                *)

\* ord and trk are what a cancel of the order tracked at k leaves behind
Leaves(k, ord, trk) ==
  \/ ord \in {order, Gone(tracked[k].id)} /\ trk = tracked
  \/ ord = Gone(tracked[k].id) /\ trk = Drop(k)

LEMMA LeavesTyped ==
  ASSUME Typed, NEW k \in Key, NEW ord, NEW trk, Leaves(k, ord, trk)
  PROVE  /\ ord \in VenueBook /\ trk \in Tracking
         /\ \A i \in Id : /\ ord[i].key = order[i].key /\ ord[i].unseen = order[i].unseen
                          /\ ord[i].left = order[i].left /\ ord[i].known = order[i].known
                          /\ ord[i].open => order[i].open
                          /\ ord[i] = Vacant <=> order[i] = Vacant
         /\ \A j \in Key : trk[j] = tracked[j] \/ trk[j] = Untracked
         /\ \A j \in Key : trk[j] # tracked[j] => j = k
         /\ trk # tracked => \A i \in Id : i = tracked[k].id => ~ord[i].open
<1>1. order \in VenueBook /\ tracked \in Tracking
  BY DEF Typed
<1> DEFINE gone == Gone(tracked[k].id)
<1>2. /\ gone \in VenueBook
      /\ \A i \in Id : /\ gone[i].key = order[i].key /\ gone[i].unseen = order[i].unseen
                       /\ gone[i].left = order[i].left /\ gone[i].known = order[i].known
                       /\ gone[i].open => order[i].open
                       /\ gone[i] = Vacant <=> order[i] = Vacant
                       /\ i = tracked[k].id => ~gone[i].open
  <2>1. ASSUME NEW i \in Id
        PROVE  /\ gone[i] \in OrderRecord \cup {Vacant}
               /\ gone[i].key = order[i].key /\ gone[i].unseen = order[i].unseen
               /\ gone[i].left = order[i].left /\ gone[i].known = order[i].known
               /\ gone[i].open => order[i].open
               /\ gone[i] = Vacant <=> order[i] = Vacant
               /\ i = tracked[k].id => ~gone[i].open
    <3>1. order[i] \in OrderRecord \/ order[i] = Vacant
      BY <1>1 DEF VenueBook
    <3>2. gone[i] = IF i = tracked[k].id THEN [order[i] EXCEPT !.open = FALSE] ELSE order[i]
      BY <1>1 DEF Gone, VenueBook
    <3>3. CASE order[i] = Vacant
      <4>1. [Vacant EXCEPT !.open = FALSE] = Vacant
        <5>1. ASSUME NEW v, v = Vacant PROVE [v EXCEPT !.open = FALSE] = v
          <6>1. DOMAIN v = OrderFields /\ v.open = FALSE
            BY <5>1, VacantShape DEF Vacant
          <6>2. v = [f \in OrderFields |-> v[f]]
            BY <5>1 DEF Vacant, OrderFields
          <6>3. QED
            BY <6>1, <6>2 DEF OrderFields
        <5>2. QED
          BY <5>1
      <4>2. gone[i] = Vacant
        BY <3>2, <3>3, <4>1
      <4>3. QED
        BY <3>3, <4>2 DEF Vacant
    <3>4. CASE order[i] \in OrderRecord
      <4>1. order[i] # Vacant
        BY <3>4, VacantShape DEF OrderRecord
      <4>2. [order[i] EXCEPT !.open = FALSE] \in OrderRecord
        BY <3>4 DEF OrderRecord
      <4>3. QED
        BY <3>2, <3>4, <4>1, <4>2, VacantShape DEF OrderRecord
    <3>5. QED
      BY <3>1, <3>3, <3>4
  <2>2. gone = [i \in Id |-> gone[i]]
    BY <1>1 DEF Gone, VenueBook
  <2> HIDE DEF gone
  <2>3. QED
    BY <2>1, <2>2 DEF VenueBook
<1>3. /\ Drop(k) \in Tracking
      /\ \A j \in Key : Drop(k)[j] = IF j = k THEN Untracked ELSE tracked[j]
  BY <1>1 DEF Drop, Tracking
<1> HIDE DEF gone
<1>4. QED
  BY <1>1, <1>2, <1>3 DEF Leaves, gone

LEMMA LeavesCalm ==
  ASSUME Whole, Typed', NEW k \in Key, NEW ord, NEW trk, Leaves(k, ord, trk),
         VenueBecomes(ord, trk), Listed(k), UNCHANGED <<net, matched, desired>>,
         faults <= faults',
         \A t \in Token, d \in Directions : Quoted(t, d) => Quoted(t, d)'
  PROVE  Calm
<1>1. Typed
  BY Numbers DEF Whole
<1>2. /\ ord \in VenueBook /\ trk \in Tracking
      /\ \A i \in Id : /\ ord[i].key = order[i].key /\ ord[i].unseen = order[i].unseen
                       /\ ord[i].left = order[i].left /\ ord[i].known = order[i].known
                       /\ ord[i].open => order[i].open
                       /\ ord[i] = Vacant <=> order[i] = Vacant
      /\ \A j \in Key : trk[j] = tracked[j] \/ trk[j] = Untracked
      /\ \A j \in Key : trk[j] # tracked[j] => j = k
      /\ trk # tracked => \A i \in Id : i = tracked[k].id => ~ord[i].open
  BY <1>1, LeavesTyped
<1>3. /\ tracked' = trk
      /\ \A i \in Id : order'[i] = ord[i] \/
           (order'[i] = Vacant /\ ~ord[i].open /\ \A j \in Key : trk[j].id # i)
      /\ \A t, d : /\ Unbooked(order', t, d) = Unbooked(ord, t, d)
                   /\ Ahead(order', t, d) = Ahead(ord, t, d)
      /\ Unclaimed(order', tracked') = Unclaimed(ord, trk)
  BY <1>2, BecomesBooks
<1>4. order \in VenueBook /\ tracked \in Tracking
  BY <1>1 DEF Typed
<1>5. \A i \in Id : Rest(ord[i]) <= Rest(order[i])
  <2>1. \A i \in Id : Rest(order[i]) \in Nat /\ order[i].left \in Nat /\ order[i].unseen \in Nat
    <3>1. \A i \in Id : order[i].left \in Nat
      BY <1>4 DEF VenueBook, OrderRecord, Vacant
    <3>2. QED
      BY <1>4, <3>1, Weights
  <2>2. QED
    BY <1>2, <2>1 DEF Rest
<1>6. \A i \in Id :
        Tracks(i) => (\E j \in Key : trk[j].id = i) \/ (i = tracked[k].id /\ trk # tracked)
  BY <1>2 DEF Tracks
<1>7. ASSUME NEW i \in Id PROVE Unclaimed(ord, trk)[i] <= Unclaimed(order, tracked)[i]
  <2>1. Unclaimed(ord, trk)[i] \in Nat /\ Unclaimed(order, tracked)[i] \in Nat
    BY <1>2, <1>4, Weights
  <2>2. CASE \E j \in Key : trk[j].id = i
    <3>1. Unclaimed(ord, trk)[i] = 0
      BY <2>2 DEF Unclaimed
    <3>2. QED
      BY <2>1, <3>1
  <2>3. CASE ~Tracks(i)
    BY <1>2, <1>5, <2>1, <2>3 DEF Unclaimed, Tracks
  <2>4. CASE i = tracked[k].id /\ trk # tracked
    <3>1. tracked[k] # Untracked
      BY <2>4, UntrackedShape
    <3>2. ord[i].known
      BY <1>2, <2>4, <3>1 DEF Listed
    <3>3. Unclaimed(ord, trk)[i] = 0
      BY <3>2 DEF Unclaimed
    <3>4. QED
      BY <2>1, <3>3
  <2>5. QED
    BY <1>6, <2>2, <2>3, <2>4
<1>8. /\ \A t, d : /\ Unbooked(ord, t, d) = Unbooked(order, t, d)
                   /\ Total(Ahead(ord, t, d), Id) <= Total(Ahead(order, t, d), Id)
      /\ Total(Unclaimed(ord, trk), Id) <= Total(Unclaimed(order, tracked), Id)
  BY <1>2, <1>4, <1>5, <1>7, Eases
<1>9. Stray' <= Stray
  BY <1>3, <1>8 DEF Stray
<1>10. ASSUME NEW t \in Token, NEW d \in Directions
       PROVE  /\ Held(t, d)' = Held(t, d) /\ Gap(t, d)' = Gap(t, d)
              /\ Reach(t, d)' <= Reach(t, d) /\ (Quoted(t, d) => Quoted(t, d)')
  <2>1. Held(t, d)' = Held(t, d)
    BY DEF Held
  <2>2. Unbooked(order', t, d) = Unbooked(order, t, d)
    BY <1>3, <1>8
  <2>3. Total(Ahead(order', t, d), Id) <= Total(Ahead(order, t, d), Id)
    BY <1>3, <1>8
  <2>4. Gap(t, d)' = Gap(t, d)
    BY <2>1, <2>2 DEF Gap
  <2>5. QED
    BY <2>1, <2>3, <2>4 DEF Reach
<1>11. \A i \in Id : order'[i].open => order'[i] = ord[i] /\ order[i].open
  BY <1>2, <1>3 DEF Vacant
<1>12. \A i \in Id : Tracks(i)' <=> \E j \in Key : trk[j].id = i
  BY <1>3 DEF Tracks
<1>13. Strays' \subseteq Strays
  BY <1>2, <1>6, <1>11, <1>12 DEF Strays
<1>14. ASSUME NEW i \in Id PROVE OrderFits(i)'
  <2>1. OrderFits(i)
    BY DEF Whole, Orders, OrdersFit
  <2>2. order'[i] # Vacant => order'[i] = ord[i] /\ order[i] # Vacant
    BY <1>2, <1>3
  <2>3. order'[i].open /\ order'[i].known => Tracks(i)'
    BY <1>2, <1>6, <1>11, <1>12, <2>1 DEF OrderFits
  <2>4. QED
    BY <1>2, <1>11, <2>1, <2>2, <2>3 DEF OrderFits
<1>15. ASSUME NEW j \in Key PROVE QuoteFits(j)' /\ (Listed(j) => Listed(j)')
  <2>1. QuoteFits(j) /\ (tracked[j] # Untracked => tracked[j].id \in Id)
    BY <1>4 DEF Whole, Orders, OrdersFit, Tracking
  <2>2. CASE tracked'[j] = Untracked
    <3>1. Untracked.quote.qty = 0
      BY DEF Untracked, NoQuote
    <3>2. MaxSize \in Nat /\ desired'[j].qty <= MaxSize
      BY <2>1, Sized DEF QuoteFits
    <3>3. QED
      BY <2>2, <3>1, <3>2 DEF QuoteFits, Listed
  <2>3. CASE tracked'[j] = tracked[j] /\ tracked[j] # Untracked
    <3>1. order'[tracked[j].id] = ord[tracked[j].id]
      BY <1>2, <1>3, <2>1, <2>3
    <3>2. QED
      BY <1>2, <2>1, <2>3, <3>1 DEF QuoteFits, Listed
  <2>4. QED
    BY <1>2, <1>3, <2>2, <2>3
<1>16. QED
  BY <1>9, <1>10, <1>13, <1>14, <1>15 DEF Calm

LEMMA AnswerCounts ==
  ASSUME TypeOK, NEW ok, Answer(ok)
  PROVE  faults' \in 0..MaxFaults /\ faults <= faults'
BY MakerAssumption DEF MakerAssumption, TypeOK, Answer, Fault

(* One cancel, by any of the loops that cancel, opens and books nothing.   *)
LEMMA CancelsCalm ==
  ASSUME Whole, NEW k \in Key, NEW ok \in BOOLEAN, Cancels(k, ok), Listed(k),
         UNCHANGED <<net, matched, desired>>, pc \notin {"place", "replace", "poll"}
  PROVE  /\ VenueTypeOK' /\ faults' \in 0..MaxFaults
         /\ TypeOK' => Calm
         /\ \A j \in Key \ {k} : tracked'[j] = tracked[j]
<1>1. Typed
  BY Numbers DEF Whole
<1> DEFINE trk == IF ok THEN Drop(k) ELSE tracked
<1>2. PICK ord \in CancelLeaves(tracked[k].id, ok) : VenueBecomes(ord, trk)
  BY DEF Cancels
<1>3. Leaves(k, ord, trk)
  BY <1>2 DEF CancelLeaves, Leaves
<1> HIDE DEF trk
<1>4. /\ ord \in VenueBook /\ trk \in Tracking
      /\ \A j \in Key : trk[j] # tracked[j] => j = k
  BY <1>1, <1>3, LeavesTyped
<1>5. VenueTypeOK' /\ tracked' = trk
  BY <1>2, <1>4, BecomesBooks
<1>6. faults' \in 0..MaxFaults /\ faults <= faults'
  BY AnswerCounts DEF Cancels, Whole
<1>7. ASSUME TypeOK' PROVE Calm
  <2>1. \A t \in Token, d \in Directions : Quoted(t, d) => Quoted(t, d)'
    BY DEF Quoted
  <2>2. Typed'
    BY <1>7, NumbersNext
  <2>3. QED
    BY <1>2, <1>3, <1>6, <2>1, <2>2, LeavesCalm
<1>8. QED
  BY <1>4, <1>5, <1>6, <1>7

LEMMA CancelStaleKeeps ==
  ASSUME Whole, IInv', NEW k \in Key, CancelStale(k)
  PROVE  Whole'
<1>1. PICK ok \in BOOLEAN : Cancels(k, ok) /\ Missed({k}, ok)
  BY DEF CancelStale
<1>2. /\ pc = "stale" /\ pc' = "stale" /\ k \in todo /\ todo' = todo \ {k}
      /\ UNCHANGED <<live, net, matched, flags, killed, desired, afterwards>>
  BY DEF CancelStale
<1>3. \A j \in Key :
        /\ desired[j] = NoQuote \/ tracked[j].quote = desired[j] \/ Fits(j)
        /\ j \in todo => desired[j] = NoQuote
        /\ Listed(j)
  BY <1>2 DEF Whole, Orders, PassFits
<1>4. /\ VenueTypeOK' /\ faults' \in 0..MaxFaults
      /\ TypeOK' => Calm
      /\ \A j \in Key \ {k} : tracked'[j] = tracked[j]
  BY <1>1, <1>2, <1>3, CancelsCalm
<1>5. TypeOK'
  BY <1>1, <1>2, <1>4 DEF Whole, TypeOK, flags, Missed
<1>6. PassFits'
  <2>1. \A j \in Key : Fits(j)' = Fits(j) /\ Listed(j)'
    BY <1>2, <1>3, <1>4, <1>5 DEF Fits, Held, Calm
  <2>2. QED
    BY <1>2, <1>3, <1>4, <2>1 DEF PassFits
<1>7. QED
  BY <1>4, <1>5, <1>6, CalmKeeps

LEMMA CancelAllStepKeeps ==
  ASSUME Whole, IInv', NEW k \in Key, CancelAllStep(k)
  PROVE  Whole'
<1>1. PICK ok \in BOOLEAN : /\ Cancels(k, ok) /\ todo' = IF ok THEN todo \ {k} ELSE {}
                            /\ Missed(IF ok THEN {k} ELSE todo, ok)
  BY DEF CancelAllStep
<1>2. /\ pc = "flatten" /\ pc' = "flatten"
      /\ UNCHANGED <<live, net, matched, flags, killed, desired, afterwards>>
  BY DEF CancelAllStep
<1>3. \A j \in Key : Listed(j)
  BY <1>2 DEF Whole, Orders, PassFits
<1>4. VenueTypeOK' /\ faults' \in 0..MaxFaults /\ (TypeOK' => Calm)
  BY <1>1, <1>2, <1>3, CancelsCalm
<1>5. TypeOK'
  BY <1>1, <1>2, <1>4 DEF Whole, TypeOK, flags, Missed
<1>6. PassFits'
  BY <1>2, <1>3, <1>4, <1>5 DEF PassFits, Calm
<1>7. QED
  BY <1>4, <1>5, <1>6, CalmKeeps

LEMMA VetoKeeps ==
  ASSUME Whole, IInv', NEW k \in Key, Veto(k)
  PROVE  Whole'
<1>1. /\ pc = "select" /\ pc' = "top" /\ vetoed' = vetoed \cup {k}
      /\ UNCHANGED <<live, net, matched, paused, halted, dayHalted, killed, desired, todo,
                     afterwards>>
  BY DEF Veto
<1>2. CASE UNCHANGED <<order, tracked, missedCancel, faults>>
  <2>1. TypeOK'
    BY <1>1, <1>2 DEF Whole, TypeOK, VenueTypeOK
  <2>2. QED
    BY <1>1, <1>2, <2>1, RestKeeps
<1>3. ASSUME NEW ok \in BOOLEAN, Cancels(k, ok), Missed({k}, ok) PROVE Whole'
  <2>1. \A j \in Key : Listed(j)
    BY <1>1 DEF Whole, Orders, PassFits
  <2>2. VenueTypeOK' /\ faults' \in 0..MaxFaults /\ (TypeOK' => Calm)
    BY <1>1, <1>3, <2>1, CancelsCalm
  <2>3. TypeOK'
    BY <1>1, <1>3, <2>2 DEF Whole, TypeOK, Missed
  <2>4. PassFits'
    BY <1>1, <2>1, <2>2, <2>3 DEF PassFits, Calm
  <2>5. QED
    BY <2>2, <2>3, <2>4, CalmKeeps
<1>4. QED
  BY <1>2, <1>3 DEF Veto

(* The first half of a replace leaves an order that is gone, and a map     *)
(* that still names it.                                                    *)
LEMMA ReplaceCancelKeeps ==
  ASSUME Whole, IInv', NEW k \in Key, ReplaceCancel(k)
  PROVE  Whole'
<1>1. PICK ok \in BOOLEAN :
        /\ Answer(ok)
        /\ \E ord \in CancelLeaves(tracked[k].id, ok) : VenueBecomes(ord, tracked)
        /\ Missed({k}, ok)
        /\ pc' = IF ok THEN "replace" ELSE "place"
        /\ todo' = IF ok THEN todo ELSE todo \ {k}
  BY DEF ReplaceCancel
<1>2. /\ pc = "place" /\ k = Lowest(todo) /\ tracked[k] # Untracked
      /\ todo # {} /\ todo \subseteq Key
      /\ UNCHANGED <<live, net, matched, flags, killed, desired, afterwards>>
  BY DEF ReplaceCancel, Whole, TypeOK
<1>3. k \in todo
  BY <1>2, LowestKey
<1>4. Typed /\ Listed(k)
  BY <1>2, <1>3, Numbers DEF Whole, Orders, PassFits
<1>5. PICK ord \in CancelLeaves(tracked[k].id, ok) : VenueBecomes(ord, tracked)
  BY <1>1
<1>6. Leaves(k, ord, tracked)
  BY <1>5 DEF CancelLeaves, Leaves
<1>7. ord \in VenueBook /\ tracked \in Tracking
  BY <1>4, <1>6, LeavesTyped DEF Typed
<1>8. /\ VenueTypeOK' /\ tracked' = tracked
      /\ \A i \in Id : order'[i] = ord[i] \/ (order'[i] = Vacant /\ ~ord[i].open)
  BY <1>5, <1>7, BecomesBooks
<1>9. faults' \in 0..MaxFaults /\ faults <= faults'
  BY <1>1, AnswerCounts DEF Whole
<1>10. TypeOK'
  BY <1>1, <1>2, <1>8, <1>9 DEF Whole, TypeOK, flags, Missed
<1>11. \A t \in Token, d \in Directions : Quoted(t, d) => Quoted(t, d)'
  BY <1>1, <1>2 DEF Quoted
<1>12. Calm
  <2>1. Typed'
    BY <1>10, NumbersNext
  <2>2. QED
    BY <1>2, <1>4, <1>5, <1>6, <1>9, <1>11, <2>1, LeavesCalm
<1>13. PassFits'
  <2>1. \A j \in Key : Fits(j)' = Fits(j) /\ (Listed(j) => Listed(j)')
    BY <1>2, <1>12 DEF Fits, Held, Calm
  <2>2. pc \in {"place", "replace"} /\ pc' \in {"place", "replace"} /\ todo' \subseteq todo
    BY <1>1, <1>2
  <2>3. ASSUME pc' = "replace" PROVE ~order'[tracked[k].id].open
    <3>1. ok /\ ord = Gone(tracked[k].id)
      BY <1>1, <1>5, <2>3 DEF CancelLeaves
    <3>2. tracked[k].id \in Id
      BY <1>2, <1>4 DEF Typed, Tracking
    <3>3. ~ord[tracked[k].id].open
      BY <1>4, <1>7, <3>1, <3>2 DEF Typed, VenueBook, OrderRecord, Vacant, Gone
    <3>4. QED
      BY <1>8, <3>2, <3>3 DEF Vacant
  <2>4. pc' = "replace" => todo' = todo
    BY <1>1
  <2>5. QED
    BY <1>2, <1>8, <2>1, <2>2, <2>3, <2>4 DEF PassFits, Whole, Orders
<1>14. QED
  BY <1>10, <1>12, <1>13, CalmKeeps

-----------------------------------------------------------------------------
(* Steps on the venue's orders that keep the map.                          *)

\* the book becomes ord, and every order counts in it for what it did
LEMMA SteadyCalm ==
  ASSUME Whole, Typed', UNCHANGED <<tracked, desired, faults, net>>,
         \A i \in Id : /\ order'[i].key = order[i].key /\ (order'[i].open => order[i].open)
                       /\ Rest(order'[i]) = Rest(order[i]) /\ OrderFits(i)'
                       /\ order[i].known => order'[i].known
                       /\ order'[i].known => order[i].known \/ Tracks(i),
         \A k \in Key : tracked[k] # Untracked /\ order'[tracked[k].id].open =>
           order'[tracked[k].id].left + order'[tracked[k].id].unseen <= tracked[k].quote.qty,
         \A t \in Token, d \in Directions : Gap(t, d)' = Gap(t, d),
         \A t \in Token, d \in Directions : Quoted(t, d) => Quoted(t, d)'
  PROVE  Calm
<1>1. Typed /\ faults <= faults'
  BY Numbers DEF Whole, Typed
<1>2. ASSUME NEW t \in Token, NEW d \in Directions
      PROVE  /\ Held(t, d)' = Held(t, d) /\ Gap(t, d)' = Gap(t, d)
             /\ Reach(t, d)' <= Reach(t, d) /\ (Quoted(t, d) => Quoted(t, d)')
  <2>1. Held(t, d)' = Held(t, d)
    BY DEF Held
  <2>2. Ahead(order', t, d) = Ahead(order, t, d)
    BY DEF Ahead, On, Facing
  <2>3. Reach(t, d)' = Reach(t, d) /\ Reach(t, d) \in Int
    BY <1>1, <2>2 DEF Reach, Typed, Measured
  <2>4. QED
    BY <2>1, <2>3
<1>3. Stray' <= Stray
  <2>1. \A i \in Id : Unclaimed(order', tracked)[i] = Unclaimed(order, tracked)[i]
    BY DEF Unclaimed, Tracks
  <2>2. Unclaimed(order', tracked) = Unclaimed(order, tracked)
    BY <2>1 DEF Unclaimed
  <2>3. Stray' = Stray /\ Stray \in Nat
    BY <1>1, <2>2, Totals DEF Typed, Stray
  <2>4. QED
    BY <2>3
<1>4. Strays' \subseteq Strays
  BY DEF Strays, Tracks
<1>5. ASSUME NEW k \in Key PROVE QuoteFits(k)' /\ (Listed(k) => Listed(k)')
  <2>1. QuoteFits(k) /\ (tracked[k] # Untracked => tracked[k].id \in Id)
    BY <1>1 DEF Whole, Orders, OrdersFit, Typed, Tracking
  <2>2. QED
    BY <2>1 DEF QuoteFits, Listed
<1>6. QED
  BY <1>1, <1>2, <1>3, <1>4, <1>5 DEF Calm

\* a tracked order is one of the venue's
LEMMA TrackedReal ==
  ASSUME Whole, NEW i \in Id, Tracks(i)
  PROVE  order[i] \in OrderRecord
<1>1. PICK k \in Key : tracked[k].id = i
  BY DEF Tracks
<1>2. tracked[k] # Untracked
  BY <1>1, UntrackedShape
<1>3. order[i].key = k
  BY <1>1, <1>2 DEF Whole, IInv, Consistent, Names
<1>4. order[i] # Vacant
  BY <1>3, VacantShape
<1>5. QED
  BY <1>4 DEF Whole, TypeOK, VenueTypeOK

(* record_placed lists what is tracked, and leaves the amounts alone.      *)
LEMMA RecordedKeeps == ASSUME Whole, IInv', Recorded PROVE Whole'
<1>1. /\ pc = "place" /\ pc' = "poll" /\ todo = {}
      /\ order' = [i \in Id |-> IF Tracks(i) THEN [order[i] EXCEPT !.known = TRUE] ELSE order[i]]
      /\ UNCHANGED <<live, tracked, net, matched, faults, flags, killed, desired, todo, afterwards,
                     missedCancel>>
  BY DEF Recorded, maker
<1>2. Typed
  BY Numbers DEF Whole
<1>3. ASSUME NEW i \in Id
      PROVE  /\ order'[i] \in OrderRecord \cup {Vacant}
             /\ order'[i].key = order[i].key /\ order'[i].open = order[i].open
             /\ order'[i].left = order[i].left /\ order'[i].unseen = order[i].unseen
             /\ order[i].known => order'[i].known
             /\ order'[i].known => order[i].known \/ Tracks(i)
             /\ Tracks(i) => order'[i].known /\ order[i] # Vacant
  <2>1. CASE Tracks(i)
    <3>1. order[i] \in OrderRecord /\ order'[i] = [order[i] EXCEPT !.known = TRUE]
      BY <1>1, <2>1, TrackedReal
    <3>2. QED
      BY <2>1, <3>1, VacantShape DEF OrderRecord
  <2>2. CASE ~Tracks(i)
    BY <1>1, <1>2, <2>2 DEF Typed, VenueBook
  <2>3. QED
    BY <2>1, <2>2
<1>4. TypeOK'
  BY <1>1, <1>3 DEF Whole, TypeOK, VenueTypeOK, flags
<1>5. Typed'
  BY <1>4, NumbersNext
<1>6. ASSUME NEW i \in Id
      PROVE  Rest(order'[i]) = Rest(order[i]) /\ OrderFits(i)'
  <2>1. OrderFits(i)
    BY DEF Whole, Orders, OrdersFit
  <2>2. Tracks(i)' <=> Tracks(i)
    BY <1>1 DEF Tracks
  <2>3. ~Tracks(i) => order'[i] = order[i]
    BY <1>1
  <2>4. QED
    BY <1>3, <2>1, <2>2, <2>3 DEF Rest, OrderFits
<1>7. ASSUME NEW k \in Key, tracked[k] # Untracked, order'[tracked[k].id].open
      PROVE  order'[tracked[k].id].left + order'[tracked[k].id].unseen <= tracked[k].quote.qty
  <2>1. QuoteFits(k) /\ tracked[k].id \in Id
    BY <1>2, <1>7 DEF Whole, Orders, OrdersFit, Typed, Tracking
  <2>2. QED
    BY <1>3, <1>7, <2>1 DEF QuoteFits
<1>8. ASSUME NEW t \in Token, NEW d \in Directions
      PROVE  Gap(t, d)' = Gap(t, d) /\ Quoted(t, d)'
  <2>1. Unbooked(order', t, d) = Unbooked(order, t, d)
    BY <1>3 DEF Unbooked, On, Facing
  <2>2. Gap(t, d)' = Gap(t, d)
    BY <1>1, <2>1 DEF Gap, Held
  <2>3. QED
    BY <1>1, <2>2 DEF Quoted
<1>9. Calm
  <2>1. \A i \in Id : /\ order'[i].key = order[i].key /\ (order'[i].open => order[i].open)
                      /\ Rest(order'[i]) = Rest(order[i]) /\ OrderFits(i)'
                      /\ order[i].known => order'[i].known
                      /\ order'[i].known => order[i].known \/ Tracks(i)
    BY <1>3, <1>6
  <2>2. /\ \A t \in Token, d \in Directions : Gap(t, d)' = Gap(t, d)
        /\ \A t \in Token, d \in Directions : Quoted(t, d) => Quoted(t, d)'
    BY <1>8
  <2>3. UNCHANGED <<tracked, desired, faults, net>>
    BY <1>1
  <2>4. \A k \in Key : tracked[k] # Untracked /\ order'[tracked[k].id].open =>
          order'[tracked[k].id].left + order'[tracked[k].id].unseen <= tracked[k].quote.qty
    BY <1>7
  <2>5. QED
    BY <1>5, <2>1, <2>2, <2>3, <2>4, SteadyCalm
<1>10. PassFits'
  <2>1. \A k \in Key : Listed(k)'
    <3>1. \A k \in Key : tracked[k] # Untracked => tracked[k].id \in Id /\ Tracks(tracked[k].id)
      BY <1>2 DEF Typed, Tracking, Tracks
    <3>2. QED
      BY <1>1, <1>3, <3>1 DEF Listed
  <2>2. QED
    BY <1>1, <2>1 DEF PassFits
<1>11. QED
  BY <1>4, <1>9, <1>10, CalmKeeps

(* A trade moves shares from what rests to what is unseen, and into what   *)
(* the venue traded.                                                       *)
LEMMA MatchingKeeps ==
  ASSUME Whole, IInv', NEW i \in Id, NEW q \in 1..MaxSize, Matching(i, q)
  PROVE  Whole'
<1>1. /\ order[i].open /\ q \in 1..order[i].left /\ order' = Trade(i, q)
      /\ matched' = [matched EXCEPT ![TokenOf[order[i].key]] = @ + Signed(order[i].key, q)]
      /\ UNCHANGED <<live, tracked, net, faults, flags, killed, pc, desired, todo, afterwards,
                     missedCancel>>
  BY DEF Matching
<1>2. Typed
  BY Numbers DEF Whole
<1>3. order[i] \in OrderRecord
  BY <1>1, <1>2 DEF Typed, VenueBook, Vacant
<1> DEFINE o == order[i]
           k == order[i].key
<1>4. /\ k \in Key /\ TokenOf[k] \in Token /\ SideOf[k] \in {"bid", "ask"}
      /\ o.left \in Nat /\ o.unseen \in Nat /\ q \in Nat \ {0} /\ q <= o.left
      /\ Signed(k, q) \in Int
  <2>1. k \in Key /\ o.left \in Nat /\ o.unseen \in Nat
    BY <1>3 DEF OrderRecord
  <2>2. TokenOf[k] \in Token /\ SideOf[k] \in {"bid", "ask"}
    BY <2>1, QuoteAssumption DEF QuoteAssumption
  <2>3. q \in Nat \ {0} /\ q <= o.left
    BY <1>1, <2>1
  <2>4. Signed(k, q) \in Int
    BY <2>3 DEF Signed
  <2>5. QED
    BY <2>1, <2>2, <2>3, <2>4
<1>5. /\ order'[i] = [o EXCEPT !.left = o.left - q, !.unseen = o.unseen + q, !.open = q < o.left]
      /\ \A n \in Id : n # i => order'[n] = order[n]
      /\ DOMAIN order' = Id /\ order' = [n \in Id |-> order'[n]]
  BY <1>1, <1>2 DEF Trade, Typed, VenueBook
<1>6. /\ order'[i] \in OrderRecord /\ order'[i].key = k /\ order'[i].known = o.known
      /\ order'[i].left = o.left - q /\ order'[i].unseen = o.unseen + q
      /\ order'[i].open <=> q < o.left
  <2>1. (q < o.left) \in BOOLEAN /\ o.left - q \in Nat /\ o.unseen + q \in Nat
    BY <1>4
  <2>2. QED
    BY <1>3, <1>5, <2>1 DEF OrderRecord
<1>7. TypeOK'
  <2>1. order' \in [Id -> OrderRecord \cup {Vacant}]
    <3>1. \A n \in Id : order'[n] \in OrderRecord \cup {Vacant}
      BY <1>2, <1>5, <1>6 DEF Typed, VenueBook
    <3>2. QED
      BY <1>5, <3>1
  <2>2. matched' \in [Token -> Int]
    BY <1>1, <1>4 DEF Whole, TypeOK
  <2>3. QED
    BY <1>1, <2>1, <2>2 DEF Whole, TypeOK, VenueTypeOK, flags
<1>8. Typed'
  BY <1>7, NumbersNext
<1>9. ASSUME NEW n \in Id
      PROVE  /\ order'[n].key = order[n].key /\ (order'[n].open => order[n].open)
             /\ order'[n].known = order[n].known /\ Rest(order'[n]) = Rest(order[n])
             /\ OrderFits(n)'
             /\ order'[n].open =>
                  order'[n].left + order'[n].unseen = order[n].left + order[n].unseen
  <2>1. OrderFits(n)
    BY DEF Whole, Orders, OrdersFit
  <2>2. Tracks(n)' <=> Tracks(n)
    BY <1>1 DEF Tracks
  <2>3. CASE n # i
    BY <1>5, <2>1, <2>2, <2>3 DEF OrderFits
  <2>4. CASE n = i
    <3>1. order[n] # Vacant
      BY <1>1, <2>4 DEF Vacant
    <3>2. MaxSize \in Nat
      BY Sized
    <3>3. Rest(order'[n]) = Rest(order[n])
      BY <1>1, <1>4, <1>6, <2>4 DEF Rest
    <3>4. QED
      BY <1>1, <1>4, <1>6, <2>1, <2>2, <2>4, <3>1, <3>2, <3>3 DEF OrderFits
  <2>5. QED
    BY <2>3, <2>4
<1>10. ASSUME NEW j \in Key, tracked[j] # Untracked, order'[tracked[j].id].open
       PROVE  order'[tracked[j].id].left + order'[tracked[j].id].unseen <= tracked[j].quote.qty
  <2>1. QuoteFits(j) /\ tracked[j].id \in Id
    BY <1>2, <1>10 DEF Whole, Orders, OrdersFit, Typed, Tracking
  <2>2. QED
    BY <1>9, <1>10, <2>1 DEF QuoteFits
<1>11. ASSUME NEW t \in Token, NEW d \in Directions PROVE Gap(t, d)' = Gap(t, d)
  <2> DEFINE f == Unbooked(order, t, d)
             g == Unbooked(order', t, d)
  <2>1. \A n \in Id : f[n] \in Int /\ g[n] \in Int
    BY <1>2, <1>8, Weights DEF Typed
  <2>2. \A n \in Id \ {i} : f[n] = g[n]
    BY <1>5 DEF Unbooked, On, Facing
  <2>3. Toward(d, matched'[t]) - Toward(d, matched[t]) = g[i] - f[i]
    <3>1. /\ f[i] = IF TokenOf[k] # t THEN 0 ELSE IF SideOf[k] = d THEN o.unseen ELSE -o.unseen
          /\ g[i] = IF TokenOf[k] # t THEN 0
                    ELSE IF SideOf[k] = d THEN o.unseen + q ELSE -(o.unseen + q)
      BY <1>4, <1>6 DEF Unbooked, On, Facing
    <3>2. /\ matched[t] \in Int
          /\ matched'[t] = IF TokenOf[k] = t THEN matched[t] + Signed(k, q) ELSE matched[t]
      BY <1>1, <1>4 DEF Whole, TypeOK
    <3>3. Signed(k, q) = IF SideOf[k] = "bid" THEN q ELSE -q
      BY DEF Signed
    <3>4. d \in {"bid", "ask"}
      BY DEF Directions
    <3> HIDE DEF f, g, o, k
    <3>5. CASE TokenOf[k] # t
      BY <3>1, <3>2, <3>5 DEF Toward
    <3>6. CASE TokenOf[k] = t
      BY <1>4, <3>1, <3>2, <3>3, <3>4, <3>6 DEF Toward
    <3>7. QED
      BY <3>5, <3>6
  <2> HIDE DEF f, g
  <2>4. Total(g, Id) = Total(f, Id) - f[i] + g[i]
    BY <2>1, <2>2, IdFinite, TotalChange, ZenonT(20)
  <2>5. Total(f, Id) \in Int /\ Total(g, Id) \in Int
    BY <1>2, <1>8, Totals DEF Typed, f, g
  <2>6. Toward(d, matched[t]) \in Int /\ Toward(d, matched'[t]) \in Int /\ Held(t, d) \in Int
    BY <1>2, <1>8 DEF Typed, Toward, Measured
  <2>7. Held(t, d)' = Held(t, d)
    BY <1>1 DEF Held
  <2>8. Gap(t, d) = Toward(d, matched[t]) - Held(t, d) - Total(f, Id)
    BY DEF Gap, f
  <2>9. Gap(t, d)' = Toward(d, matched'[t]) - Held(t, d) - Total(g, Id)
    BY <2>7 DEF Gap, g
  <2>10. QED
    BY <2>1, <2>3, <2>4, <2>5, <2>6, <2>8, <2>9
<1>12. \A t \in Token, d \in Directions : Quoted(t, d) => Quoted(t, d)'
  BY <1>1 DEF Quoted
<1>13. Calm
  BY <1>1, <1>8, <1>9, <1>10, <1>11, <1>12, SteadyCalm
<1>14. PassFits'
  <2>1. \A j \in Key : Fits(j)' = Fits(j) /\ (Listed(j) => Listed(j)')
    BY <1>1, <1>13 DEF Fits, Held, Calm
  <2>2. ASSUME pc = "replace"
        PROVE  LET t == tracked[Lowest(todo)] IN t # Untracked /\ ~order'[t.id].open
    <3>1. LET t == tracked[Lowest(todo)] IN t # Untracked /\ ~order[t.id].open
      BY <2>2 DEF Whole, Orders, PassFits
    <3>2. Lowest(todo) \in Key
      BY <2>2, LowestKey DEF Whole, IInv, Stages
    <3>3. tracked[Lowest(todo)].id \in Id
      BY <1>2, <3>1, <3>2 DEF Typed, Tracking
    <3>4. QED
      BY <1>9, <3>1, <3>3
  <2>3. QED
    BY <1>1, <2>1, <2>2 DEF PassFits, Whole, Orders
<1>15. QED
  BY <1>7, <1>13, <1>14, CalmKeeps

-----------------------------------------------------------------------------
(* What a poll, or a lost frame, takes out of the unseen.                  *)
Read(seen) ==
  [i \in Id |-> IF i \in seen THEN [order[i] EXCEPT !.unseen = 0] ELSE order[i]]
Only(f, S) == [i \in Id |-> IF i \in S THEN f[i] ELSE 0]

(* A read leaves everything of an order but its unseen trades.             *)
LEMMA ReadTyped ==
  ASSUME Typed, NEW seen, seen \subseteq Unseen
  PROVE  /\ Read(seen) \in VenueBook
         /\ \A i \in Id : /\ Read(seen)[i].key = order[i].key /\ Read(seen)[i].left = order[i].left
                          /\ Read(seen)[i].open <=> order[i].open
                          /\ Read(seen)[i].known <=> order[i].known
                          /\ Read(seen)[i].unseen = IF i \in seen THEN 0 ELSE order[i].unseen
                          /\ Read(seen)[i] # Vacant => order[i] # Vacant
<1> SUFFICES ASSUME NEW i \in Id
             PROVE  /\ Read(seen)[i] \in OrderRecord \cup {Vacant}
                    /\ Read(seen)[i].key = order[i].key /\ Read(seen)[i].left = order[i].left
                    /\ Read(seen)[i].open <=> order[i].open
                    /\ Read(seen)[i].known <=> order[i].known
                    /\ Read(seen)[i].unseen = IF i \in seen THEN 0 ELSE order[i].unseen
                    /\ Read(seen)[i] # Vacant => order[i] # Vacant
  BY DEF Read, VenueBook
<1>1. order[i] \in OrderRecord \cup {Vacant}
  BY DEF Typed, VenueBook
<1>2. CASE i \notin seen
  BY <1>1, <1>2 DEF Read
<1>3. CASE i \in seen
  <2>1. order[i] # Vacant
    BY <1>3 DEF Unseen, Vacant
  <2>2. order[i] \in OrderRecord /\ Read(seen)[i] = [order[i] EXCEPT !.unseen = 0]
    BY <1>1, <1>3, <2>1 DEF Read
  <2>3. QED
    BY <1>3, <2>1, <2>2 DEF OrderRecord
<1>4. QED
  BY <1>2, <1>3

LEMMA ReadRest ==
  ASSUME Typed, NEW seen, seen \subseteq Unseen
  PROVE  \A i \in Id : Rest(Read(seen)[i]) <= Rest(order[i])
<1> SUFFICES ASSUME NEW i \in Id PROVE Rest(Read(seen)[i]) <= Rest(order[i])
  OBVIOUS
<1> DEFINE o == order[i]
           r == Read(seen)[i]
<1>1. o.left \in Nat /\ o.unseen \in Nat
  BY DEF Typed, VenueBook, OrderRecord, Vacant
<1>2. r.left = o.left /\ (r.open <=> o.open) /\ r.unseen \in {0, o.unseen}
  BY ReadTyped
<1> HIDE DEF o, r
<1>3. r.unseen \in Nat /\ r.unseen <= o.unseen
  BY <1>1, <1>2
<1>4. Rest(r) <= Rest(o)
  BY <1>1, <1>2, <1>3 DEF Rest
<1>5. QED
  BY <1>4 DEF o, r

(* Over the orders.                                                        *)
LEMMA OrdersPlus ==
  ASSUME NEW f, NEW g, NEW h,
         \A i \in Id : f[i] \in Int /\ g[i] \in Int /\ h[i] \in Int /\ f[i] = g[i] + h[i]
  PROVE  Total(f, Id) = Total(g, Id) + Total(h, Id)
<1>1. IsFiniteSet(Id)
  BY IdFinite
<1>2. QED
  BY <1>1, TotalPlus

(* Two totals together no more than a third.                               *)
LEMMA TotalTwo ==
  ASSUME NEW f, NEW g, NEW h,
         \A i \in Id : f[i] \in Int /\ g[i] \in Int /\ h[i] \in Int /\ f[i] + g[i] <= h[i]
  PROVE  Total(f, Id) + Total(g, Id) <= Total(h, Id)
<1> DEFINE s == [i \in Id |-> f[i] + g[i]]
<1>1. \A i \in Id : s[i] \in Int /\ s[i] = f[i] + g[i] /\ s[i] <= h[i]
  OBVIOUS
<1> HIDE DEF s
<1>2. Total(s, Id) = Total(f, Id) + Total(g, Id)
  <2>1. \A x \in Id : s[x] \in Int /\ f[x] \in Int /\ g[x] \in Int /\ s[x] = f[x] + g[x]
    BY <1>1
  <2>2. QED
    BY <2>1, OrdersPlus
<1>3. Total(s, Id) <= Total(h, Id)
  BY <1>1, IdFinite, TotalLess
<1>4. QED
  BY <1>2, <1>3

(* What is read was ahead, and is so no longer.                            *)
LEMMA ReadSums ==
  ASSUME Typed, NEW seen, seen \subseteq Unseen, NEW mine, mine \subseteq seen,
         NEW t \in Token, NEW d \in Directions,
         NEW u, u = Unbooked(order, t, d), NEW b, b = Only(u, mine), NEW l, l = Only(u, seen \ mine)
  PROVE  /\ Total(b, Id) \in Int /\ Total(l, Id) \in Int
         /\ Total(u, Id) = Total(Unbooked(Read(seen), t, d), Id) + (Total(b, Id) + Total(l, Id))
         /\ Total(l, Id) + Total(Ahead(Read(seen), t, d), Id) <= Total(Ahead(order, t, d), Id)
         /\ Total(b, Id) + Total(l, Id) + Total(Ahead(Read(seen), t, d), Id)
              <= Total(Ahead(order, t, d), Id)
<1> DEFINE u1 == Unbooked(Read(seen), t, d)
           a == Ahead(order, t, d)
           a1 == Ahead(Read(seen), t, d)
           s == Only(u, seen)
<1>1. /\ Read(seen) \in VenueBook /\ order \in VenueBook
      /\ \A i \in Id : /\ Read(seen)[i].key = order[i].key /\ Read(seen)[i].left = order[i].left
                       /\ Read(seen)[i].open <=> order[i].open
                       /\ Read(seen)[i].unseen = IF i \in seen THEN 0 ELSE order[i].unseen
  BY ReadTyped DEF Typed
<1>2. \A i \in Id : /\ u[i] \in Int /\ u1[i] \in Int /\ a[i] \in Int /\ a1[i] \in Int
                    /\ order[i].unseen \in Nat
  BY <1>1, Weights
<1>3. \A i \in Id : u1[i] = IF i \in seen THEN 0 ELSE u[i]
  BY <1>1 DEF Unbooked, On, Facing
<1>4. ASSUME NEW i \in Id
      PROVE  a1[i] + (IF i \in seen THEN u[i] ELSE 0) <= a[i] /\ a1[i] <= a[i]
  <2>1. order[i].left \in Nat
    BY <1>1 DEF VenueBook, OrderRecord, Vacant
  <2>2. On(Read(seen)[i], t) = On(order[i], t) /\ Facing(Read(seen)[i], d) = Facing(order[i], d)
    BY <1>1 DEF On, Facing
  <2>3. CASE On(order[i], t) /\ Facing(order[i], d)
    <3>1. /\ a[i] = Rest(order[i]) /\ a1[i] = Rest(Read(seen)[i]) /\ u[i] = order[i].unseen
      BY <2>2, <2>3 DEF Ahead, Unbooked
    <3>2. QED
      BY <1>1, <1>2, <2>1, <3>1 DEF Rest
  <2>4. CASE ~(On(order[i], t) /\ Facing(order[i], d))
    <3>1. a[i] = 0 /\ a1[i] = 0 /\ (u[i] = 0 \/ u[i] = -order[i].unseen)
      BY <2>2, <2>4 DEF Ahead, Unbooked
    <3>2. QED
      BY <1>2, <3>1
  <2>5. QED
    BY <2>3, <2>4
<1>5. \A i \in Id : /\ b[i] = IF i \in mine THEN u[i] ELSE 0
                    /\ l[i] = IF i \in seen \ mine THEN u[i] ELSE 0
                    /\ s[i] = IF i \in seen THEN u[i] ELSE 0
  BY DEF Only
<1> HIDE DEF u1, a, a1, s
<1>6. \A i \in Id : /\ b[i] \in Int /\ l[i] \in Int /\ s[i] \in Int /\ s[i] = b[i] + l[i]
                    /\ u[i] = u1[i] + s[i]
                    /\ s[i] + a1[i] <= a[i] /\ l[i] + a1[i] <= a[i]
  <2> TAKE i \in Id
  <2>1. /\ u[i] \in Int /\ u1[i] \in Int /\ a[i] \in Int /\ a1[i] \in Int
        /\ u1[i] = IF i \in seen THEN 0 ELSE u[i]
        /\ a1[i] + (IF i \in seen THEN u[i] ELSE 0) <= a[i] /\ a1[i] <= a[i]
    BY <1>2, <1>3, <1>4
  <2>2. CASE i \in mine
    <3>1. b[i] = u[i] /\ l[i] = 0 /\ s[i] = u[i] /\ i \in seen
      BY <1>5, <2>2
    <3>2. QED
      BY ONLY <2>1, <3>1
  <2>3. CASE i \in seen \ mine
    <3>1. b[i] = 0 /\ l[i] = u[i] /\ s[i] = u[i] /\ i \in seen
      BY <1>5, <2>3
    <3>2. QED
      BY ONLY <2>1, <3>1
  <2>4. CASE i \notin seen
    <3>1. b[i] = 0 /\ l[i] = 0 /\ s[i] = 0
      BY <1>5, <2>4
    <3>2. QED
      BY ONLY <2>1, <2>4, <3>1
  <2>5. QED
    BY <2>2, <2>3, <2>4
<1>7. Total(u, Id) = Total(u1, Id) + Total(s, Id)
  <2>1. \A i \in Id : u[i] \in Int /\ u1[i] \in Int /\ s[i] \in Int /\ u[i] = u1[i] + s[i]
    BY <1>2, <1>6
  <2>2. QED
    BY <2>1, OrdersPlus
<1>8. Total(s, Id) = Total(b, Id) + Total(l, Id)
  <2>1. \A i \in Id : s[i] \in Int /\ b[i] \in Int /\ l[i] \in Int /\ s[i] = b[i] + l[i]
    BY <1>6
  <2>2. QED
    BY <2>1, OrdersPlus
<1>9. Total(s, Id) + Total(a1, Id) <= Total(a, Id) /\ Total(l, Id) + Total(a1, Id) <= Total(a, Id)
  <2>1. \A i \in Id : /\ s[i] \in Int /\ a1[i] \in Int /\ a[i] \in Int /\ s[i] + a1[i] <= a[i]
                      /\ l[i] \in Int /\ l[i] + a1[i] <= a[i]
    BY <1>2, <1>6
  <2>2. QED
    BY <2>1, TotalTwo
<1>10. Total(b, Id) \in Int /\ Total(l, Id) \in Int
  BY <1>6, IdFinite, TotalType
<1>11. QED
  BY <1>7, <1>8, <1>9, <1>10 DEF u1, a, a1

(* What is read and booked moves into the inventory, what is read and not  *)
(* booked into the gap.                                                    *)
LEMMA ReadMoves ==
  ASSUME Typed, Typed', NEW seen, seen \subseteq Unseen, NEW mine, mine \subseteq seen,
         NEW trk \in Tracking, VenueBecomes(Read(seen), trk), matched' = matched,
         NEW t \in Token, NEW d \in Directions,
         NEW u, u = Unbooked(order, t, d),
         NEW b, b = Only(u, mine), NEW l, l = Only(u, seen \ mine),
         Held(t, d)' = Held(t, d) + Total(b, Id)
  PROVE  /\ Total(l, Id) \in Int /\ Gap(t, d)' = Gap(t, d) + Total(l, Id)
         /\ Reach(t, d)' <= Reach(t, d)
         /\ Gap(t, d)' + Reach(t, d)' <= Gap(t, d) + Reach(t, d)
         /\ Held(t, d)' + Gap(t, d)' + Reach(t, d)' <= Held(t, d) + Gap(t, d) + Reach(t, d)
<1> DEFINE u1 == Unbooked(Read(seen), t, d)
           a1 == Ahead(Read(seen), t, d)
<1>1. Read(seen) \in VenueBook /\ order \in VenueBook
  BY ReadTyped DEF Typed
<1>2. Unbooked(order', t, d) = u1 /\ Ahead(order', t, d) = a1
  BY <1>1, BecomesBooks
<1>3. /\ Total(b, Id) \in Int /\ Total(l, Id) \in Int
      /\ Total(u, Id) = Total(u1, Id) + (Total(b, Id) + Total(l, Id))
      /\ Total(l, Id) + Total(a1, Id) <= Total(Ahead(order, t, d), Id)
      /\ Total(b, Id) + Total(l, Id) + Total(a1, Id) <= Total(Ahead(order, t, d), Id)
  BY ReadSums
<1>4. Total(a1, Id) <= Total(Ahead(order, t, d), Id)
  <2>1. \A i \in Id : Ahead(order, t, d)[i] \in Int /\ a1[i] \in Int
    BY <1>1, Weights
  <2>2. \A i \in Id : a1[i] <= Ahead(order, t, d)[i]
    <3>1. \A i \in Id : Rest(Read(seen)[i]) <= Rest(order[i])
      BY ReadRest
    <3>2. \A i \in Id : Read(seen)[i].key = order[i].key
      BY ReadTyped
    <3>3. QED
      BY <2>1, <3>1, <3>2 DEF Ahead, On, Facing
  <2>3. QED
    BY <2>1, <2>2, IdFinite, TotalLess
<1>5. Reach(t, d) = Total(Ahead(order, t, d), Id) /\ Reach(t, d)' = Total(a1, Id)
  BY <1>2 DEF Reach
<1>6. /\ Gap(t, d) = Toward(d, matched[t]) - Held(t, d) - Total(u, Id)
      /\ Gap(t, d)' = Toward(d, matched[t]) - Held(t, d)' - Total(u1, Id)
  BY <1>2 DEF Gap
<1>7. /\ Toward(d, matched[t]) \in Int /\ Held(t, d) \in Int /\ Held(t, d)' \in Int
      /\ Reach(t, d) \in Int /\ Reach(t, d)' \in Int /\ Total(u1, Id) \in Int
  BY <1>1, Totals DEF Typed, Toward, Measured
<1> HIDE DEF u1, a1
<1>8. QED
  BY <1>3, <1>4, <1>5, <1>6, <1>7

(* No new stray.                                                           *)
LEMMA StraysCounted ==
  ASSUME Typed, Typed', Cardinality(Strays) <= faults, Strays' \subseteq Strays, faults <= faults'
  PROVE  Cardinality(Strays') <= faults'
<1>1. IsFiniteSet(Strays)
  BY IdFinite, FS_Subset DEF Strays
<1>2. Cardinality(Strays') <= Cardinality(Strays) /\ Cardinality(Strays) \in Nat
      /\ Cardinality(Strays') \in Nat
  BY <1>1, FS_Subset, FS_CardinalityType
<1>3. faults \in Nat /\ faults' \in Nat
  BY DEF Typed
<1>4. QED
  BY <1>2, <1>3

\* a quote of the map after the read: as it was, filled, or less by what was read
ReadQuote(seen, trk, k) ==
  /\ trk[k] # Untracked =>
       /\ tracked[k] # Untracked /\ trk[k].id = tracked[k].id /\ trk[k].quote.qty <= MaxSize
       /\ order[trk[k].id].open =>
            order[trk[k].id].left + Read(seen)[trk[k].id].unseen <= trk[k].quote.qty
  /\ trk[k] = Untracked /\ tracked[k] # Untracked => ~order[tracked[k].id].open

(* A read keeps every quote as large as what is left of its order.         *)
LEMMA ReadFits ==
  ASSUME Whole, NEW seen, seen \subseteq Unseen, NEW trk \in Tracking,
         VenueBecomes(Read(seen), trk),
         \A k \in Key : desired'[k].qty <= MaxSize, \A k \in Key : ReadQuote(seen, trk, k)
  PROVE  OrdersFit' /\ Strays' \subseteq Strays /\ \A k \in Key : Listed(k) => Listed(k)'
<1>1. Typed
  BY Numbers DEF Whole
<1>2. /\ Read(seen) \in VenueBook
      /\ \A i \in Id : /\ Read(seen)[i].key = order[i].key /\ Read(seen)[i].left = order[i].left
                       /\ Read(seen)[i].open <=> order[i].open
                       /\ Read(seen)[i].known <=> order[i].known
                       /\ Read(seen)[i].unseen = IF i \in seen THEN 0 ELSE order[i].unseen
                       /\ Read(seen)[i] # Vacant => order[i] # Vacant
  BY <1>1, ReadTyped
<1>3. /\ tracked' = trk
      /\ \A i \in Id : order'[i] = Read(seen)[i] \/
           (order'[i] = Vacant /\ ~Read(seen)[i].open /\ \A j \in Key : trk[j].id # i)
  BY <1>2, BecomesBooks
<1>4. \A i \in Id : order[i].left \in Nat /\ order[i].unseen \in Nat
  BY <1>1 DEF Typed, VenueBook, OrderRecord, Vacant
<1>5. \A i \in Id : order'[i].open => order'[i] = Read(seen)[i] /\ order[i].open
  BY <1>2, <1>3 DEF Vacant
<1>6. ASSUME NEW i \in Id, order[i].open, Tracks(i) PROVE Tracks(i)'
  <2>1. PICK k \in Key : tracked[k].id = i
    BY <1>6 DEF Tracks
  <2>2. tracked[k] # Untracked
    BY <2>1, UntrackedShape
  <2>3. trk[k] # Untracked /\ trk[k].id = i
    BY <1>6, <2>1, <2>2 DEF ReadQuote
  <2>4. QED
    BY <1>3, <2>3 DEF Tracks
<1>7. Strays' \subseteq Strays
  BY <1>5, <1>6 DEF Strays
<1>8. ASSUME NEW i \in Id PROVE OrderFits(i)'
  <2>1. OrderFits(i) /\ MaxSize \in Nat
    BY Sized DEF Whole, Orders, OrdersFit
  <2>2. order'[i] # Vacant => order'[i] = Read(seen)[i] /\ order[i] # Vacant
    BY <1>2, <1>3
  <2>3. order'[i] # Vacant => order'[i].left + order'[i].unseen <= MaxSize
    BY <1>2, <1>4, <2>1, <2>2 DEF OrderFits
  <2>4. order'[i].open => order'[i].left > 0
    BY <1>2, <1>5, <2>1 DEF OrderFits
  <2>5. order'[i].open /\ order'[i].known => Tracks(i)'
    BY <1>2, <1>5, <1>6, <2>1 DEF OrderFits
  <2>6. QED
    BY <2>3, <2>4, <2>5 DEF OrderFits
<1>9. ASSUME NEW k \in Key PROVE QuoteFits(k)' /\ (Listed(k) => Listed(k)')
  <2>1. Untracked.quote.qty = 0 /\ MaxSize \in Nat
    BY Sized DEF Untracked, NoQuote
  <2>2. CASE trk[k] = Untracked
    BY <1>3, <2>1, <2>2 DEF QuoteFits, Listed
  <2>3. CASE trk[k] # Untracked
    <3>1. /\ tracked[k] # Untracked /\ trk[k].id = tracked[k].id /\ trk[k].quote.qty <= MaxSize
          /\ order[trk[k].id].open =>
               order[trk[k].id].left + Read(seen)[trk[k].id].unseen <= trk[k].quote.qty
      BY <2>3 DEF ReadQuote
    <3>2. trk[k].id \in Id
      BY <2>3 DEF Tracking
    <3>3. order'[trk[k].id] = Read(seen)[trk[k].id]
      BY <1>3, <3>2
    <3>4. QED
      BY <1>2, <1>3, <3>1, <3>2, <3>3 DEF QuoteFits, Listed
  <2>4. QED
    BY <2>2, <2>3
<1>10. QED
  BY <1>7, <1>8, <1>9 DEF OrdersFit

(* A frame that is lost takes at most one quote out of the books.          *)
LEMMA FrameLostKeeps ==
  ASSUME Whole, IInv', NEW i \in Id, FrameLost(i)
  PROVE  Whole'
<1>1. /\ order[i].unseen > 0 /\ faults' = faults + 1 /\ faults < MaxFaults
      /\ VenueBecomes([order EXCEPT ![i].unseen = 0], tracked)
      /\ UNCHANGED <<live, net, matched, flags, killed, pc, desired, todo, afterwards,
                     missedCancel>>
  BY DEF FrameLost, Fault
<1>2. Typed
  BY Numbers DEF Whole
<1>3. [order EXCEPT ![i].unseen = 0] = Read({i})
  BY <1>2 DEF Read, Typed, VenueBook
<1>4. VenueBecomes(Read({i}), tracked) /\ tracked \in Tracking /\ {i} \subseteq Unseen
  BY <1>1, <1>2, <1>3 DEF Typed, Unseen
<1>5. /\ Read({i}) \in VenueBook
      /\ \A n \in Id : /\ Read({i})[n].key = order[n].key /\ Read({i})[n].left = order[n].left
                       /\ Read({i})[n].open <=> order[n].open
                       /\ Read({i})[n].known <=> order[n].known
                       /\ Read({i})[n].unseen = IF n \in {i} THEN 0 ELSE order[n].unseen
  BY <1>2, <1>4, ReadTyped
<1>6. /\ VenueTypeOK' /\ tracked' = tracked
      /\ \A n \in Id : order'[n] = Read({i})[n] \/ (order'[n] = Vacant /\ ~Read({i})[n].open)
      /\ Unclaimed(order', tracked') = Unclaimed(Read({i}), tracked)
  BY <1>4, <1>5, BecomesBooks
<1>7. TypeOK'
  <2>1. faults' \in 0..MaxFaults
    BY <1>1, MakerAssumption DEF MakerAssumption, Whole, TypeOK
  <2>2. QED
    BY <1>1, <1>6, <2>1 DEF Whole, TypeOK, flags
<1>8. Typed'
  BY <1>7, NumbersNext
<1>9. faults <= faults'
  BY <1>1, <1>2 DEF Typed
<1>10. \A n \in Id : order[n].left \in Nat /\ order[n].unseen \in Nat
  BY <1>2 DEF Typed, VenueBook, OrderRecord, Vacant
<1>11. OrdersFit' /\ Strays' \subseteq Strays /\ \A k \in Key : Listed(k) => Listed(k)'
  <2>1. \A k \in Key : desired'[k].qty <= MaxSize
    BY <1>1 DEF Whole, Orders, OrdersFit, QuoteFits
  <2>2. ASSUME NEW k \in Key PROVE ReadQuote({i}, tracked, k)
    <3>1. QuoteFits(k) /\ (tracked[k] # Untracked => tracked[k].id \in Id)
      BY <1>2 DEF Whole, Orders, OrdersFit, Typed, Tracking
    <3>2. ASSUME tracked[k] # Untracked, order[tracked[k].id].open
          PROVE  order[tracked[k].id].left + Read({i})[tracked[k].id].unseen <= tracked[k].quote.qty
      <4>1. /\ tracked[k].id \in Id
            /\ order[tracked[k].id].left + order[tracked[k].id].unseen <= tracked[k].quote.qty
        BY <3>1, <3>2 DEF QuoteFits
      <4>2. Read({i})[tracked[k].id].unseen \in {0, order[tracked[k].id].unseen}
        BY <1>5, <4>1
      <4>3. tracked[k].quote.qty \in Nat
        BY <1>2, <3>2 DEF Typed, Tracking, Quotes
      <4>4. QED
        BY <1>10, <4>1, <4>2, <4>3
    <3>3. QED
      BY <3>1, <3>2 DEF ReadQuote, QuoteFits
  <2>3. QED
    BY <1>4, <2>1, <2>2, ReadFits
<1>12. Stray' <= Stray
  <2>1. \A n \in Id : /\ Unclaimed(Read({i}), tracked)[n] \in Int
                      /\ Unclaimed(order, tracked)[n] \in Int
    BY <1>2, <1>5, Weights DEF Typed
  <2>2. \A n \in Id : Rest(Read({i})[n]) <= Rest(order[n])
    BY <1>2, <1>4, ReadRest
  <2>3. \A n \in Id : Unclaimed(Read({i}), tracked)[n] <= Unclaimed(order, tracked)[n]
    <3> TAKE n \in Id
    <3>1. CASE order[n].known \/ \E k \in Key : tracked[k].id = n
      <4>1. Unclaimed(Read({i}), tracked)[n] = 0 /\ Unclaimed(order, tracked)[n] = 0
        BY <1>5, <3>1 DEF Unclaimed
      <4>2. QED
        BY <4>1
    <3>2. CASE ~(order[n].known \/ \E k \in Key : tracked[k].id = n)
      <4>1. /\ Unclaimed(Read({i}), tracked)[n] = Rest(Read({i})[n])
            /\ Unclaimed(order, tracked)[n] = Rest(order[n])
        BY <1>5, <3>2 DEF Unclaimed
      <4>2. QED
        BY <2>2, <4>1
    <3>3. QED
      BY <3>1, <3>2
  <2>4. Total(Unclaimed(Read({i}), tracked), Id) <= Total(Unclaimed(order, tracked), Id)
    BY <2>1, <2>3, IdFinite, TotalLess
  <2>5. QED
    BY <1>6, <2>4 DEF Stray
<1>13. Spent = MaxSize /\ MaxSize \in Nat
  BY <1>1, <1>2, <1>8, <1>9, LossGrows, Sized
<1>14. ASSUME NEW t \in Token, NEW d \in Directions PROVE Drifts(t, d)
  <2> DEFINE u == Unbooked(order, t, d)
             b == Only(u, {})
             l == Only(u, {i} \ {})
  <2>1. \A n \in Id : u[n] \in Int
    BY <1>2, Weights DEF Typed
  <2>2. Total(b, Id) = 0
    <3>1. \A n \in Id : b[n] = 0
      BY DEF Only
    <3>2. IsFiniteSet(Id)
      BY IdFinite
    <3> HIDE DEF b
    <3>3. QED
      BY <3>1, <3>2, TotalZero
  <2>3. Total(l, Id) = u[i]
    <3>1. \A n \in Id : l[n] \in Int
      BY <2>1 DEF Only
    <3>2. l[i] = u[i] /\ \A n \in Id \ {i} : l[n] = 0
      BY DEF Only
    <3>3. IsFiniteSet(Id)
      BY IdFinite
    <3> HIDE DEF l
    <3>4. QED
      BY <3>1, <3>2, <3>3, TotalOne
  <2>4. u[i] <= MaxSize
    <3>1. order[i] # Vacant /\ OrderFits(i)
      BY <1>1 DEF Vacant, Whole, Orders, OrdersFit
    <3>2. order[i].left + order[i].unseen <= MaxSize
      BY <3>1 DEF OrderFits
    <3>3. u[i] \in {0, order[i].unseen, -order[i].unseen}
      BY DEF Unbooked
    <3>4. QED
      BY <1>10, <1>13, <3>2, <3>3
  <2>5. Held(t, d)' = Held(t, d) /\ Held(t, d) \in Int
    BY <1>1, <1>2 DEF Held, Typed, Measured
  <2>6. Held(t, d)' = Held(t, d) + Total(b, Id)
    BY <2>2, <2>5
  <2> HIDE DEF u, b, l
  <2>7. /\ Total(l, Id) \in Int /\ Gap(t, d)' = Gap(t, d) + Total(l, Id)
        /\ Reach(t, d)' <= Reach(t, d)
        /\ Gap(t, d)' + Reach(t, d)' <= Gap(t, d) + Reach(t, d)
        /\ Held(t, d)' + Gap(t, d)' + Reach(t, d)' <= Held(t, d) + Gap(t, d) + Reach(t, d)
    <3>1. {} \subseteq {i} /\ matched' = matched
      BY <1>1
    <3>2. QED
      BY <1>2, <1>4, <1>8, <2>6, <3>1, ReadMoves DEF u, b, l
  <2>8. Extra(t, d)' = Extra(t, d)
    BY <1>1 DEF Extra, Quoted
  <2>9. Measured(t, d) /\ Measured(t, d)'
    BY <1>2, <1>8 DEF Typed
  <2>10. QED
    BY <1>12, <1>13, <2>3, <2>4, <2>7, <2>8, <2>9 DEF Drifts, Measured
<1>15. Books'
  BY <1>2, <1>8, <1>14, BalanceKept DEF Whole, Books
<1>16. PassFits'
  <2>1. \A k \in Key : Fits(k)' = Fits(k)
    BY <1>1 DEF Fits, Held
  <2>2. ASSUME pc = "replace"
        PROVE  LET t == tracked[Lowest(todo)] IN t # Untracked /\ ~order'[t.id].open
    <3>1. LET t == tracked[Lowest(todo)] IN t # Untracked /\ ~order[t.id].open
      BY <2>2 DEF Whole, Orders, PassFits
    <3>2. Lowest(todo) \in Key
      BY <2>2, LowestKey DEF Whole, IInv, Stages
    <3>3. tracked[Lowest(todo)].id \in Id
      BY <1>2, <3>1, <3>2 DEF Typed, Tracking
    <3>4. \A n \in Id : order'[n].open => order[n].open
      <4> TAKE n \in Id
      <4>1. (Read({i})[n].open <=> order[n].open) /\ ~Vacant.open
        BY <1>5 DEF Vacant
      <4>2. order'[n] = Read({i})[n] \/ order'[n] = Vacant
        BY <1>6
      <4>3. QED
        BY <4>1, <4>2
    <3> DEFINE n == tracked[Lowest(todo)].id
    <3>5. n \in Id /\ ~order[n].open
      BY <3>1, <3>3
    <3>6. ~order'[n].open
      <4> HIDE DEF n
      <4>1. QED
        BY ONLY <3>4, <3>5
    <3>7. QED
      BY <3>1, <3>6
  <2>3. QED
    BY <1>1, <1>6, <1>11, <2>1, <2>2 DEF PassFits, Whole, Orders
<1>17. Cardinality(Strays') <= faults'
  BY <1>2, <1>8, <1>9, <1>11, StraysCounted DEF Whole, Orders
<1>18. QED
  BY <1>7, <1>11, <1>15, <1>16, <1>17 DEF Whole, Orders

-----------------------------------------------------------------------------
(* A poll.                                                                 *)
Mine(seen) == {i \in seen : Attributed(i)}
Got(seen) == [i \in {NoId} \cup Id |-> IF i \in Mine(seen) THEN order[i].unseen ELSE 0]

LEMMA BookedIs ==
  ASSUME NEW seen, Booked(seen)
  PROVE  /\ VenueBecomes(Read(seen), NoteFills(Got(seen)))
         /\ net' = [t \in Token |-> net[t] +
              Total(Trades, {i \in Mine(seen) : TokenOf[order[i].key] = t})]
<1>1. VenueBecomes(Read(seen), NoteFills(Got(seen)))
  BY DEF Booked, Read, Got, Mine
<1>2. net' = [t \in Token |-> net[t] +
              Total(Trades, {i \in Mine(seen) : TokenOf[order[i].key] = t})]
  BY Zenon DEF Booked, Mine, Total
<1>3. QED
  BY <1>1, <1>2

\* at a poll every tracked order is listed, so its fills are booked
LEMMA TrackedListed ==
  ASSUME Whole, pc = "poll", NEW k \in Key, tracked[k] # Untracked
  PROVE  tracked[k].id \in Id /\ order[tracked[k].id].known
<1>1. tracked[k].id \in Id
  BY Numbers DEF Whole, Typed, Tracking
<1>2. Listed(k)
  BY DEF Whole, Orders, PassFits
<1>3. QED
  BY <1>1, <1>2 DEF Listed

(* note_fill takes from a quote what was read of its order, and drops a    *)
(* quote only when nothing of its order is left.                           *)
LEMMA NoteFillsFits ==
  ASSUME Whole, pc = "poll", NEW seen, seen \subseteq Unseen, NEW k \in Key,
         NEW new, new = NoteFills(Got(seen))[k]
  PROVE  /\ new \in [id: Id, quote: Quotes] \cup {Untracked}
         /\ ReadQuote(seen, NoteFills(Got(seen)), k)
<1> DEFINE t == tracked[k]
           got == Got(seen)[t.id]
           rest == t.quote.qty - got
<1>0. Typed
  BY Numbers DEF Whole
<1>1. \/ new = t /\ (t = Untracked \/ got = 0)
      \/ new = Untracked /\ t # Untracked /\ got # 0 /\ rest <= 0
      \/ new = [t EXCEPT !.quote.qty = rest] /\ t # Untracked /\ got # 0 /\ ~(rest <= 0)
  BY DEF NoteFills
<1>2. CASE t = Untracked
  <2>1. new = Untracked
    BY <1>1, <1>2
  <2>2. QED
    BY <1>2, <2>1 DEF ReadQuote
<1>3. CASE t # Untracked
  <2> DEFINE o == order[t.id]
  <2>1. t.id \in Id /\ o.known /\ t.quote \in Quotes /\ t \in [id: Id, quote: Quotes]
    BY <1>0, <1>3, TrackedListed DEF Typed, Tracking
  <2>2. o.left \in Nat /\ o.unseen \in Nat /\ t.quote.qty \in Nat /\ MaxSize \in Nat
    BY <1>0, <2>1, Sized DEF Typed, VenueBook, OrderRecord, Vacant, Quotes
  <2>3. /\ t.quote.qty <= MaxSize
        /\ o.open => o.left + o.unseen <= t.quote.qty /\ o.left > 0
    BY <1>3, <2>1 DEF Whole, Orders, OrdersFit, QuoteFits, OrderFits
  <2>4. got = IF t.id \in seen THEN o.unseen ELSE 0
    BY <2>1 DEF Got, Mine, Attributed
  <2>5. t.id \in seen => o.unseen > 0
    BY DEF Unseen
  <2>6. Read(seen)[t.id].unseen = IF t.id \in seen THEN 0 ELSE o.unseen
    BY <1>0, <2>1, ReadTyped
  <2> HIDE DEF t, got
  <2>7. CASE new = t /\ got = 0
    <3>1. t.id \notin seen
      BY <2>2, <2>4, <2>5, <2>7
    <3>2. QED
      BY <2>1, <2>3, <2>6, <2>7, <3>1, <1>3 DEF ReadQuote, t
  <2>8. CASE new = Untracked /\ got # 0 /\ rest <= 0
    <3>1. t.id \in seen /\ got = o.unseen
      BY <2>4, <2>8
    <3>2. ~o.open
      BY <2>2, <2>3, <2>8, <3>1
    <3>3. QED
      BY <2>8, <3>2 DEF ReadQuote, t
  <2>9. CASE new = [t EXCEPT !.quote.qty = rest] /\ got # 0 /\ ~(rest <= 0)
    <3>1. t.id \in seen /\ got = o.unseen
      BY <2>4, <2>9
    <3>2. rest \in Nat \ {0} /\ rest <= t.quote.qty /\ (o.open => o.left <= rest)
      BY <2>2, <2>3, <2>9, <3>1
    <3> HIDE DEF rest
    <3>3. new \in [id: Id, quote: Quotes] /\ new.id = t.id /\ new.quote.qty = rest
      BY <2>1, <2>9, <3>2 DEF Quotes
    <3>4. new # Untracked
      BY <3>3, <2>1, UntrackedShape
    <3>5. rest <= MaxSize /\ (o.open => o.left + 0 <= rest)
      BY <2>2, <2>3, <3>2
    <3>6. QED
      BY <1>3, <2>6, <3>1, <3>3, <3>4, <3>5 DEF ReadQuote, t
  <2>10. QED
    BY <1>1, <1>3, <2>7, <2>8, <2>9
<1>4. QED
  BY <1>2, <1>3

\* an unseen trade, on the side of its order
LEMMA TradeOf ==
  ASSUME Typed, NEW i \in Unseen
  PROVE  /\ i \in Id /\ order[i] \in OrderRecord /\ order[i].key \in Key
         /\ order[i].unseen \in Nat \ {0}
         /\ SideOf[order[i].key] \in {"bid", "ask"} /\ TokenOf[order[i].key] \in Token
         /\ Trades[i] = IF SideOf[order[i].key] = "bid" THEN order[i].unseen ELSE -order[i].unseen
         /\ Trades[i] \in Int
<1>1. i \in Id /\ order[i].unseen > 0
  BY DEF Unseen
<1>2. order[i] # Vacant
  BY <1>1 DEF Vacant
<1>3. order[i] \in OrderRecord
  BY <1>1, <1>2 DEF Typed, VenueBook
<1>4. order[i].key \in Key /\ order[i].unseen \in Nat \ {0}
  BY <1>1, <1>3 DEF OrderRecord
<1>5. SideOf[order[i].key] \in {"bid", "ask"} /\ TokenOf[order[i].key] \in Token
  BY <1>4, QuoteAssumption DEF QuoteAssumption
<1>6. Trades[i] = IF SideOf[order[i].key] = "bid" THEN order[i].unseen ELSE -order[i].unseen
  BY DEF Trades, Signed
<1>7. Trades[i] \in Int
  BY <1>4, <1>6
<1>8. QED
  BY <1>1, <1>3, <1>4, <1>5, <1>6, <1>7

\* what a set of unseen trades adds up to, from either side
LEMMA TradesAdd ==
  ASSUME Typed, NEW S, S \subseteq Unseen, NEW t \in Token, NEW d \in Directions,
         NEW u, u = Unbooked(order, t, d), NEW T, T = {i \in S : TokenOf[order[i].key] = t}
  PROVE  /\ Total(Trades, T) \in Int
         /\ Total(Only(u, S), Id) = Toward(d, Total(Trades, T))
<1> DEFINE b == Only(u, S)
<1>1. /\ IsFiniteSet(Id) /\ T \in SUBSET Id /\ IsFiniteSet(T)
      /\ \A i \in T : i \in Unseen /\ i \in S
  BY IdFinite, FS_Subset DEF Unseen
<1>2. \A i \in Id : b[i] \in Int
  BY Weights DEF Typed, Only
<1>3. \A i \in Id \ T : b[i] = 0
  BY DEF Only, Unbooked, On
<1>4. \A i \in T : Trades[i] \in Int
  BY <1>1, TradeOf
<1>5. ASSUME NEW i \in T PROVE b[i] = Toward(d, Trades[i])
  <2>1. /\ i \in Id /\ order[i].key \in Key /\ order[i].unseen \in Nat \ {0}
        /\ SideOf[order[i].key] \in {"bid", "ask"}
        /\ Trades[i] = IF SideOf[order[i].key] = "bid" THEN order[i].unseen ELSE -order[i].unseen
    BY <1>1, TradeOf
  <2>2. b[i] = IF SideOf[order[i].key] = d THEN order[i].unseen ELSE -order[i].unseen
    BY <1>1, <2>1 DEF Only, Unbooked, On, Facing
  <2>3. d \in {"bid", "ask"}
    BY DEF Directions
  <2> HIDE DEF b
  <2>4. QED
    BY <2>1, <2>2, <2>3 DEF Toward
<1> HIDE DEF b
<1>6. Total(Trades, T) \in Int
  BY <1>1, <1>4, TotalType
<1>7. Total(b, Id) = Total(b, T)
  BY <1>1, <1>2, <1>3, TotalSupport
<1>8. CASE d = "bid"
  <2>1. \A i \in T : b[i] = Trades[i]
    BY <1>5, <1>8 DEF Toward
  <2>2. Total(b, T) = Total(Trades, T)
    BY <1>1, <2>1, TotalAgree
  <2>3. QED
    BY <1>6, <1>7, <1>8, <2>2 DEF Toward, b
<1>9. CASE d # "bid"
  <2>1. \A i \in T : b[i] \in Int /\ Trades[i] \in Int /\ b[i] = -Trades[i]
    BY <1>1, <1>2, <1>4, <1>5, <1>9 DEF Toward
  <2>2. Total(b, T) = -Total(Trades, T)
    BY <1>1, <2>1, TotalMinus
  <2>3. QED
    BY <1>6, <1>7, <1>9, <2>2 DEF Toward, b
<1>10. QED
  BY <1>8, <1>9

(* What a poll reads and cannot attribute it takes out of the unclaimed.   *)
LEMMA PollStray ==
  ASSUME Whole, pc = "poll", NEW seen, seen \subseteq Unseen, NEW trk \in Tracking,
         VenueBecomes(Read(seen), trk), NEW t \in Token, NEW d \in Directions,
         NEW l, l = Only(Unbooked(order, t, d), seen \ Mine(seen))
  PROVE  Total(l, Id) + Stray' <= Stray /\ Stray' <= Stray
<1>1. Typed
  BY Numbers DEF Whole
<1>2. /\ Read(seen) \in VenueBook /\ order \in VenueBook
      /\ \A i \in Id : /\ Read(seen)[i].left = order[i].left
                       /\ Read(seen)[i].open <=> order[i].open
                       /\ Read(seen)[i].known <=> order[i].known
                       /\ Read(seen)[i].unseen = IF i \in seen THEN 0 ELSE order[i].unseen
  BY <1>1, ReadTyped DEF Typed
<1> DEFINE c == Unclaimed(order, tracked)
           c1 == Unclaimed(Read(seen), trk)
<1>3. \A i \in Id : /\ c[i] \in Int /\ c1[i] \in Int /\ c1[i] \in Nat /\ c[i] \in Nat
                    /\ Unbooked(order, t, d)[i] \in Int
  BY <1>1, <1>2, Weights DEF Typed
<1>4. ASSUME NEW i \in Id
      PROVE  l[i] \in Int /\ l[i] + c1[i] <= c[i] /\ c1[i] <= c[i]
  <2>1. order[i].left \in Nat /\ order[i].unseen \in Nat
    BY <1>2 DEF VenueBook, OrderRecord, Vacant
  <2>2. CASE order[i].known
    <3>1. c1[i] = 0
      BY <1>2, <2>2 DEF Unclaimed
    <3>2. l[i] = 0
      BY <2>2 DEF Only, Mine, Attributed
    <3>3. QED
      BY <1>3, <3>1, <3>2
  <2>3. CASE ~order[i].known
    <3>1. ~ \E k \in Key : tracked[k].id = i
      <4>1. ASSUME NEW k \in Key, tracked[k].id = i PROVE FALSE
        <5>1. tracked[k] # Untracked
          BY <4>1, UntrackedShape
        <5>2. QED
          BY <2>3, <4>1, <5>1, TrackedListed
      <4>2. QED
        BY <4>1
    <3>2. c[i] = Rest(order[i])
      BY <2>3, <3>1 DEF Unclaimed
    <3>3. c1[i] = 0 \/ c1[i] = Rest(Read(seen)[i])
      BY DEF Unclaimed
    <3>4. /\ Rest(order[i]) = order[i].unseen + (IF order[i].open THEN order[i].left ELSE 0)
          /\ Rest(Read(seen)[i]) =
               (IF i \in seen THEN 0 ELSE order[i].unseen)
               + (IF order[i].open THEN order[i].left ELSE 0)
      BY <1>2 DEF Rest
    <3>5. l[i] \in {0, order[i].unseen, -order[i].unseen} /\ (i \notin seen => l[i] = 0)
      BY DEF Only, Unbooked
    <3> HIDE DEF c, c1
    <3>6. QED
      BY <2>1, <3>2, <3>3, <3>4, <3>5
  <2>4. QED
    BY <2>2, <2>3
<1>5. Stray = Total(c, Id) /\ Stray' = Total(c1, Id)
  BY <1>2, BecomesBooks DEF Stray
<1> HIDE DEF c, c1
<1>6. Total(l, Id) + Total(c1, Id) <= Total(c, Id)
  <2>1. \A i \in Id : l[i] \in Int /\ c1[i] \in Int /\ c[i] \in Int /\ l[i] + c1[i] <= c[i]
    BY <1>3, <1>4
  <2>2. QED
    BY <2>1, TotalTwo
<1>7. Total(c1, Id) <= Total(c, Id)
  <2>1. \A i \in Id : c1[i] \in Int /\ c[i] \in Int /\ c1[i] <= c[i]
    BY <1>3, <1>4
  <2>2. IsFiniteSet(Id)
    BY IdFinite
  <2>3. QED
    BY <2>1, <2>2, TotalLess
<1>8. QED
  BY <1>5, <1>6, <1>7

(* When everything is read, what may still trade on a side of a token is   *)
(* the one quote tracked there, and orders nobody attributes.              *)
LEMMA OneQuoteRests ==
  ASSUME Typed, IInv, OrdersFit, \A i \in Id : order[i].unseen = 0,
         NEW t \in Token, NEW d \in Directions
  PROVE  Reach(t, d) <= Stray + MaxSize
<1> DEFINE a == Ahead(order, t, d)
           c == Unclaimed(order, tracked)
<1>1. /\ \A i \in Id : a[i] \in Int /\ a[i] \in Nat /\ c[i] \in Int /\ c[i] \in Nat
      /\ IsFiniteSet(Id) /\ MaxSize \in Nat
  BY Weights, IdFinite, Sized DEF Typed
<1>2. \A i \in Id : order[i].left \in Nat /\ order[i].unseen \in Nat
  BY DEF Typed, VenueBook, OrderRecord, Vacant
<1>3. ASSUME NEW i \in Id, ~Tracks(i) PROVE a[i] <= c[i]
  <2>1. CASE a[i] = 0
    BY <1>1, <2>1
  <2>2. CASE a[i] # 0
    <3>1. a[i] = Rest(order[i])
      BY <2>2 DEF Ahead
    <3>2. order[i].open
      BY <1>2, <2>2, <3>1 DEF Rest
    <3>3. ~order[i].known
      BY <1>3, <3>2 DEF OrdersFit, OrderFits
    <3>4. c[i] = Rest(order[i])
      BY <1>3, <3>3 DEF Unclaimed, Tracks
    <3>5. QED
      BY <1>1, <3>1, <3>4
  <2>3. QED
    BY <2>1, <2>2
<1>4. ASSUME NEW i \in Id, Tracks(i), a[i] # 0
      PROVE  /\ a[i] <= MaxSize
             /\ \E k \in Key : tracked[k].id = i /\ TokenOf[k] = t /\ SideOf[k] = d
  <2>1. PICK k \in Key : tracked[k].id = i
    BY <1>4 DEF Tracks
  <2>2. order[i].key = k
    BY <2>1, UntrackedShape DEF IInv, Consistent, Names
  <2>3. On(order[i], t) /\ Facing(order[i], d) /\ a[i] = Rest(order[i])
    BY <1>4 DEF Ahead
  <2>4. order[i] # Vacant
    BY <2>2, VacantShape
  <2>5. order[i].left + order[i].unseen <= MaxSize
    BY <2>4 DEF OrdersFit, OrderFits
  <2>6. Rest(order[i]) <= order[i].left + order[i].unseen
    BY <1>2 DEF Rest
  <2>7. a[i] <= MaxSize
    BY <1>1, <1>2, <2>3, <2>5, <2>6
  <2>8. QED
    BY <2>1, <2>2, <2>3, <2>7 DEF On, Facing
<1>5. ASSUME NEW y \in Id, Tracks(y), a[y] # 0
      PROVE  Total(a, Id) <= Total(c, Id) + MaxSize
  <2> DEFINE one == [i \in Id |-> IF i = y THEN a[i] ELSE 0]
             rest == [i \in Id |-> IF i = y THEN 0 ELSE a[i]]
  <2>1. \A i \in Id : a[i] \in Int /\ one[i] \in Int /\ rest[i] \in Int /\ a[i] = one[i] + rest[i]
    BY <1>1
  <2>2. ASSUME NEW i \in Id PROVE rest[i] <= c[i]
    <3>1. CASE i = y \/ a[i] = 0
      BY <1>1, <3>1
    <3>2. CASE i # y /\ a[i] # 0
      <4>1. ~Tracks(i)
        <5>1. SUFFICES ASSUME Tracks(i) PROVE FALSE
          OBVIOUS
        <5>2. PICK j \in Key : tracked[j].id = i /\ TokenOf[j] = t /\ SideOf[j] = d
          BY <1>4, <3>2, <5>1
        <5>3. PICK k \in Key : tracked[k].id = y /\ TokenOf[k] = t /\ SideOf[k] = d
          BY <1>4, <1>5
        <5>4. j = k
          BY <5>2, <5>3, QuoteAssumption DEF QuoteAssumption
        <5>5. QED
          BY <3>2, <5>2, <5>3, <5>4
      <4>2. QED
        BY <1>3, <3>2, <4>1
    <3>3. QED
      BY <3>1, <3>2
  <2>3. one[y] = a[y] /\ \A i \in Id \ {y} : one[i] = 0
    OBVIOUS
  <2> HIDE DEF a, c, one, rest
  <2>4. Total(a, Id) = Total(one, Id) + Total(rest, Id)
    BY <2>1, OrdersPlus
  <2>5. Total(one, Id) = one[y]
    BY <1>1, <2>1, <2>3, TotalOne
  <2>6. Total(rest, Id) <= Total(c, Id)
    <3>1. \A i \in Id : rest[i] \in Int /\ c[i] \in Int /\ rest[i] <= c[i]
      BY <1>1, <2>1, <2>2
    <3>2. QED
      BY <1>1, <3>1, TotalLess
  <2>7. Total(rest, Id) \in Int /\ Total(c, Id) \in Int /\ one[y] \in Int /\ one[y] <= MaxSize
    BY <1>1, <1>4, <1>5, <2>1, <2>3, TotalType
  <2>8. QED
    BY <1>1, <2>4, <2>5, <2>6, <2>7
<1>6. CASE ~ \E y \in Id : Tracks(y) /\ a[y] # 0
  <2>1. \A i \in Id : a[i] \in Int /\ c[i] \in Int /\ a[i] <= c[i]
    BY <1>1, <1>3, <1>6
  <2> HIDE DEF a, c
  <2>2. Total(a, Id) <= Total(c, Id) /\ Total(a, Id) \in Int /\ Total(c, Id) \in Int
    BY <1>1, <2>1, TotalLess, TotalType
  <2>3. QED
    BY <1>1, <2>2 DEF Reach, Stray, a, c
<1>7. QED
  BY <1>5, <1>6 DEF Reach, Stray

\* the same, one step later
AllRead == \A i \in Id : order[i].unseen = 0
OneQuoteEach == \A t \in Token, d \in Directions : Reach(t, d) <= Stray + MaxSize

LEMMA OneQuoteRestsNext == Typed' /\ IInv' /\ OrdersFit' /\ AllRead' => OneQuoteEach'
<1>1. Typed /\ IInv /\ OrdersFit /\ AllRead => OneQuoteEach
  BY OneQuoteRests DEF AllRead, OneQuoteEach
<1>2. QED
  BY <1>1, PTL

(* A poll books what it read and can attribute.  One that reads all leaves *)
(* at most one quote to trade on each side; one that fails is a fault.     *)
LEMMA PollKeeps == ASSUME Whole, IInv', Poll PROVE Whole'
<1>1. /\ Typed /\ pc = "poll" /\ pc' = "mark"
      /\ desired' = [k \in Key |-> NoQuote]
      /\ UNCHANGED <<live, matched, flags, killed, todo, afterwards, missedCancel>>
  BY Numbers DEF Whole, Poll, PassForgotten
<1>2. PICK seen \in SUBSET Unseen :
        /\ IF seen = Unseen THEN UNCHANGED faults ELSE live /\ Fault
        /\ Booked(seen)
  BY DEF Poll
<1> DEFINE trk == NoteFills(Got(seen))
           mine == Mine(seen)
           sold(t) == Total(Trades, {i \in mine : TokenOf[order[i].key] = t})
<1>3. /\ seen \subseteq Unseen /\ mine \subseteq seen /\ mine \subseteq Unseen
      /\ VenueBecomes(Read(seen), trk)
      /\ net' = [t \in Token |-> net[t] + sold(t)]
  BY <1>2, BookedIs DEF Mine
<1>4. trk \in Tracking /\ \A k \in Key : ReadQuote(seen, trk, k)
  <2>1. ASSUME NEW k \in Key
        PROVE  /\ trk[k] \in [id: Id, quote: Quotes] \cup {Untracked}
               /\ ReadQuote(seen, trk, k)
    BY <1>1, <1>3, NoteFillsFits
  <2>2. trk = [k \in Key |-> trk[k]]
    BY DEF NoteFills
  <2> HIDE DEF trk
  <2>3. QED
    BY <2>1, <2>2 DEF Tracking
<1>5. \A t \in Token : sold(t) \in Int
  BY <1>1, <1>3, TradesAdd DEF Directions
<1> HIDE DEF trk, mine
<1>6. VenueTypeOK' /\ tracked' = trk
      /\ \A i \in Id : order'[i] = Read(seen)[i] \/ order'[i] = Vacant
  <2>1. Read(seen) \in VenueBook
    BY <1>1, <1>3, ReadTyped
  <2>2. QED
    BY <1>3, <1>4, <2>1, BecomesBooks
<1>7. faults' \in 0..MaxFaults /\ faults <= faults' /\ (faults' = faults \/ faults' = faults + 1)
  BY <1>2, MakerAssumption DEF Whole, TypeOK, Fault, MakerAssumption
<1>8. TypeOK'
  <2>1. net' \in [Token -> Int]
    <3> HIDE DEF sold
    <3>1. \A t \in Token : net[t] + sold(t) \in Int
      BY <1>1, <1>5 DEF Typed
    <3>2. QED
      BY <1>3, <3>1
  <2>2. QED
    BY <1>1, <1>6, <1>7, <2>1 DEF Whole, TypeOK, flags
<1>9. Typed'
  BY <1>8, NumbersNext
<1>10. OrdersFit' /\ Strays' \subseteq Strays /\ \A k \in Key : Listed(k) => Listed(k)'
  <2>1. \A k \in Key : desired'[k].qty <= MaxSize
    BY <1>1, Sized DEF NoQuote
  <2>2. QED
    BY <1>3, <1>4, <2>1, ReadFits
<1>11. Cardinality(Strays') <= faults'
  BY <1>1, <1>7, <1>9, <1>10, StraysCounted DEF Whole, Orders
<1>12. PassFits'
  BY <1>1, <1>10 DEF PassFits, Whole, Orders
<1>13. ASSUME NEW t \in Token, NEW d \in Directions
       PROVE  /\ Gap(t, d)' + Stray' <= Gap(t, d) + Stray /\ Stray' <= Stray
              /\ Reach(t, d)' <= Reach(t, d)
              /\ Gap(t, d)' + Reach(t, d)' <= Gap(t, d) + Reach(t, d)
              /\ Held(t, d)' + Gap(t, d)' + Reach(t, d)' <= Held(t, d) + Gap(t, d) + Reach(t, d)
  <2> DEFINE u == Unbooked(order, t, d)
             b == Only(u, mine)
             l == Only(u, seen \ mine)
  <2>1. Total(b, Id) = Toward(d, sold(t)) /\ sold(t) \in Int
    BY <1>1, <1>3, TradesAdd
  <2>2. Held(t, d)' = Held(t, d) + Total(b, Id)
    <3>1. net'[t] = net[t] + sold(t) /\ net[t] \in Int
      BY <1>1, <1>3 DEF Typed
    <3> HIDE DEF sold, b
    <3>2. QED
      BY <2>1, <3>1 DEF Held, Toward
  <2> HIDE DEF u, b, l
  <2>3. /\ Total(l, Id) \in Int /\ Gap(t, d)' = Gap(t, d) + Total(l, Id)
        /\ Reach(t, d)' <= Reach(t, d)
        /\ Gap(t, d)' + Reach(t, d)' <= Gap(t, d) + Reach(t, d)
        /\ Held(t, d)' + Gap(t, d)' + Reach(t, d)' <= Held(t, d) + Gap(t, d) + Reach(t, d)
    BY <1>1, <1>3, <1>4, <1>9, <2>2, ReadMoves DEF u, b, l
  <2>4. Total(l, Id) + Stray' <= Stray /\ Stray' <= Stray
    BY <1>1, <1>3, <1>4, PollStray DEF u, l, mine
  <2>5. Gap(t, d) \in Int /\ Gap(t, d)' \in Int /\ Stray \in Int /\ Stray' \in Int
    BY <1>1, <1>9 DEF Typed, Measured
  <2>6. Gap(t, d)' + Stray' <= Gap(t, d) + Stray
    BY ONLY <2>3, <2>4, <2>5
  <2>7. QED
    BY <2>3, <2>4, <2>6
<1>14. \A t \in Token, d \in Directions : Extra(t, d)' = 0 /\ Extra(t, d) \in {0, MaxSize}
  BY <1>1 DEF Extra, Quoted
<1>15. MaxSize \in Nat /\ Ceiling \in Nat
  BY Sized, CeilingSized
<1>16. CASE seen # Unseen
  <2>1. Spent = MaxSize
    BY <1>1, <1>2, <1>7, <1>9, <1>16, LossGrows DEF Fault
  <2>2. ASSUME NEW t \in Token, NEW d \in Directions PROVE Drifts(t, d)
    <3>1. Measured(t, d) /\ Measured(t, d)'
      BY <1>1, <1>9 DEF Typed
    <3>2. QED
      BY <1>13, <1>14, <1>15, <2>1, <3>1 DEF Drifts, Measured
  <2>3. Books'
    BY <1>1, <1>9, <2>2, BalanceKept DEF Whole, Books
  <2>4. QED
    BY <1>8, <1>10, <1>11, <1>12, <2>3 DEF Whole, Orders
<1>17. CASE seen = Unseen
  <2>1. AllRead'
    <3>1. ASSUME NEW i \in Id PROVE Read(seen)[i].unseen = 0
      <4>1. order[i].unseen \in Nat
        BY <1>1 DEF Typed, VenueBook, OrderRecord, Vacant
      <4>2. Read(seen)[i].unseen = IF i \in seen THEN 0 ELSE order[i].unseen
        BY <1>1, <1>3, ReadTyped
      <4>3. QED
        BY <1>17, <4>1, <4>2 DEF Unseen
    <3>2. QED
      BY <1>6, <3>1 DEF AllRead, Vacant
  <2>2. OneQuoteEach'
    BY <1>9, <1>10, <2>1, OneQuoteRestsNext
  <2>3. Loss' = Loss
    BY <1>2, <1>17 DEF Loss
  <2>4. ASSUME NEW t \in Token, NEW d \in Directions PROVE Balance(t, d)'
    <3>1. Sound(Held(t, d), Gap(t, d), Reach(t, d), Stray, Loss, Extra(t, d))
      BY DEF Whole, Books, Balance
    <3>2. Reach(t, d)' <= Stray' + MaxSize
      BY <2>2 DEF OneQuoteEach
    <3> DEFINE h1 == Held(t, d)'
               g1 == Gap(t, d)'
               r1 == Reach(t, d)'
               s1 == Stray'
               h == Held(t, d)
               g == Gap(t, d)
               r == Reach(t, d)
    <3>3. /\ h1 \in Int /\ g1 \in Int /\ r1 \in Int /\ s1 \in Int
          /\ h \in Int /\ g \in Int /\ r \in Int /\ Stray \in Int /\ Loss \in Int
      BY <1>1, <1>9 DEF Typed, Measured
    <3>4. /\ g1 + s1 <= g + Stray /\ s1 <= Stray /\ r1 <= s1 + MaxSize /\ h1 + g1 + r1 <= h + g + r
      BY <1>13, <3>2
    <3>5. Extra(t, d)' = 0
      BY <1>14
    <3> HIDE DEF h, g, r, h1, g1, r1, s1
    <3>6. Sound(h1, g1, r1, s1, Loss, 0)
      <4>1. /\ Stray <= Loss /\ g + Stray <= Loss
            /\ h + g + r <= Ceiling + MaxSize + Loss
        BY <3>1 DEF Sound, h, g, r
      <4>2. QED
        BY ONLY <1>15, <3>3, <3>4, <4>1 DEF Sound
    <3>7. QED
      BY <2>3, <3>5, <3>6 DEF Balance, h1, g1, r1, s1
  <2>5. QED
    BY <1>8, <1>10, <1>11, <1>12, <2>4 DEF Whole, Orders, Books
<1>18. QED
  BY <1>16, <1>17

-----------------------------------------------------------------------------
(* An answered place.                                                      *)

\* the side of a token that k quotes
OnSide(k, t, d) == TokenOf[k] = t /\ SideOf[k] = d

\* once k is visited its side may be quoted twice, no other may
LEMMA VisitQuotes ==
  ASSUME pc \in {"place", "replace"}, NEW k \in Key, k \in todo, todo \subseteq Key,
         pc' = "place", todo' = todo \ {k}, NEW t \in Token, NEW d \in Directions
  PROVE  IF OnSide(k, t, d) THEN Extra(t, d) = 0 /\ Extra(t, d)' = MaxSize
                            ELSE Extra(t, d)' = Extra(t, d)
<1>1. \A j \in Key : OnSide(k, t, d) /\ OnSide(j, t, d) => j = k
  BY QuoteAssumption DEF QuoteAssumption, OnSide
<1>2. CASE OnSide(k, t, d)
  <2>1. ~Quoted(t, d) /\ Quoted(t, d)'
    BY <1>1, <1>2 DEF Quoted, OnSide
  <2>2. QED
    BY <1>2, <2>1 DEF Extra
<1>3. CASE ~OnSide(k, t, d)
  <2>1. Quoted(t, d)' <=> Quoted(t, d)
    BY <1>3 DEF Quoted, OnSide
  <2>2. QED
    BY <1>3, <2>1 DEF Extra
<1>4. QED
  BY <1>2, <1>3

\* what the venue holds once quote q of key k rests there as i
LEMMA RestsAdds ==
  ASSUME Typed, NEW i \in Id, order[i] = Vacant, NEW k \in Key, NEW q \in Quotes,
         NEW trk \in Tracking, NEW ord, ord = Rests(i, k, q),
         \A n \in Id \ {i} : Unclaimed(ord, trk)[n] = Unclaimed(order, tracked)[n]
  PROVE  /\ ord \in VenueBook /\ \A n \in Id \ {i} : ord[n] = order[n]
         /\ ord[i].key = k /\ ord[i].left = q.qty /\ ord[i].unseen = 0
         /\ ord[i].open /\ ~ord[i].known
         /\ \A t \in Token, d \in Directions :
              /\ Total(Unbooked(ord, t, d), Id) = Total(Unbooked(order, t, d), Id)
              /\ Total(Ahead(ord, t, d), Id) =
                   Total(Ahead(order, t, d), Id) + (IF OnSide(k, t, d) THEN q.qty ELSE 0)
         /\ Total(Unclaimed(ord, trk), Id) =
              Total(Unclaimed(order, tracked), Id)
              + (IF \E j \in Key : trk[j].id = i THEN 0 ELSE q.qty)
<1>1. /\ order \in VenueBook /\ q.qty \in Nat \ {0} /\ q.px \in Px /\ Px \subseteq Nat
      /\ IsFiniteSet(Id)
  BY IdFinite, QuoteAssumption DEF Typed, Quotes, QuoteAssumption
<1>2. Vacant.key \notin Key /\ Vacant.unseen = 0 /\ Rest(Vacant) = 0
  BY VacantShape DEF Vacant, Rest
<1>3. /\ ord[i].key = k /\ ord[i].px = q.px /\ ord[i].left = q.qty /\ ord[i].unseen = 0
      /\ ord[i].open /\ ~ord[i].known /\ ord[i] \in OrderRecord
      /\ \A n \in Id \ {i} : ord[n] = order[n]
  <2> DEFINE o == [key |-> k, px |-> q.px, left |-> q.qty, unseen |-> 0, open |-> TRUE,
                   known |-> FALSE]
  <2>1. ord[i] = o /\ \A n \in Id \ {i} : ord[n] = order[n]
    BY <1>1 DEF Rests, VenueBook
  <2>2. o \in OrderRecord
    BY <1>1 DEF OrderRecord
  <2>3. QED
    BY <2>1, <2>2
<1>4. ord \in VenueBook
  <2>1. \A n \in Id : ord[n] \in OrderRecord \cup {Vacant}
    BY <1>1, <1>3 DEF VenueBook
  <2>2. ord = [n \in Id |-> ord[n]]
    BY <1>1 DEF Rests, VenueBook
  <2>3. QED
    BY <2>1, <2>2 DEF VenueBook
<1>5. Rest(ord[i]) = q.qty
  BY <1>1, <1>3 DEF Rest
<1>6. ASSUME NEW t \in Token, NEW d \in Directions
      PROVE  /\ Total(Unbooked(ord, t, d), Id) = Total(Unbooked(order, t, d), Id)
             /\ Total(Ahead(ord, t, d), Id) =
                  Total(Ahead(order, t, d), Id) + (IF OnSide(k, t, d) THEN q.qty ELSE 0)
  <2> DEFINE f == Ahead(order, t, d)
             h == Ahead(ord, t, d)
  <2>1. \A n \in Id : f[n] \in Int /\ h[n] \in Int
    BY <1>1, <1>4, Weights
  <2>2. \A n \in Id \ {i} : f[n] = h[n]
    BY <1>3 DEF Ahead
  <2>3. f[i] = 0 /\ h[i] = IF OnSide(k, t, d) THEN q.qty ELSE 0
    BY <1>2, <1>3, <1>5 DEF Ahead, On, Facing, OnSide
  <2>4. \A n \in Id : Unbooked(ord, t, d)[n] = Unbooked(order, t, d)[n]
    <3>1. Unbooked(ord, t, d)[i] = 0 /\ Unbooked(order, t, d)[i] = 0
      BY <1>2, <1>3 DEF Unbooked, On
    <3>2. QED
      BY <1>3, <3>1 DEF Unbooked
  <2>5. Unbooked(ord, t, d) = Unbooked(order, t, d)
    BY <2>4 DEF Unbooked
  <2> HIDE DEF f, h
  <2>6. Total(h, Id) = Total(f, Id) - f[i] + h[i] /\ Total(f, Id) \in Int
    BY <1>1, <2>1, <2>2, TotalChange, TotalType
  <2>7. Total(h, Id) = Total(f, Id) + h[i]
    BY <2>1, <2>3, <2>6
  <2>8. QED
    BY <2>3, <2>5, <2>7 DEF f, h
<1>7. Total(Unclaimed(ord, trk), Id) =
        Total(Unclaimed(order, tracked), Id) + (IF \E j \in Key : trk[j].id = i THEN 0 ELSE q.qty)
  <2> DEFINE f == Unclaimed(order, tracked)
             h == Unclaimed(ord, trk)
  <2>1. \A n \in Id : f[n] \in Int /\ h[n] \in Int
    BY <1>1, <1>4, Weights
  <2>2. f[i] = 0 /\ h[i] = IF \E j \in Key : trk[j].id = i THEN 0 ELSE q.qty
    BY <1>2, <1>3, <1>5 DEF Unclaimed
  <2>3. \A n \in Id \ {i} : f[n] = h[n]
    OBVIOUS
  <2> HIDE DEF f, h
  <2>4. Total(h, Id) = Total(f, Id) - f[i] + h[i] /\ Total(f, Id) \in Int
    BY <1>1, <2>1, <2>3, TotalChange, TotalType
  <2>5. Total(h, Id) = Total(f, Id) + h[i]
    BY <2>1, <2>2, <2>4
  <2>6. QED
    BY <2>2, <2>5 DEF f, h
<1>8. QED
  BY <1>3, <1>4, <1>6, <1>7

(* What an order that comes to rest does to the venue and to the map: it   *)
(* is tracked when its answer is heard, and a stray when it is not.        *)
Placing(k, i, heard) ==
  /\ pc \in {"place", "replace"} /\ k \in todo
  /\ tracked[k] = Untracked \/ ~order[tracked[k].id].open
  /\ i \in Id /\ order[i] = Vacant
  /\ VenueBecomes(Rests(i, k, desired[k]), IF heard THEN Track(k, i, desired[k]) ELSE tracked)
  /\ pc' = "place" /\ todo' = todo \ {k}
  /\ IF heard THEN UNCHANGED faults ELSE Fault
  /\ missedCancel' \subseteq missedCancel
  /\ UNCHANGED <<live, net, matched, flags, killed, desired, afterwards>>

(* Who is tracked after a placement.                                       *)
LEMMA PlacingMap ==
  ASSUME Whole, NEW k \in Key, NEW i, NEW heard \in BOOLEAN, Placing(k, i, heard),
         NEW q, q = desired[k], NEW trk, trk = IF heard THEN Track(k, i, q) ELSE tracked
  PROVE  /\ q \in Quotes /\ q.qty \in Nat \ {0} /\ q.qty <= MaxSize
         /\ Fits(k) /\ Listed(k)
         /\ trk \in Tracking /\ \A j \in Key \ {k} : trk[j] = tracked[j]
         /\ IF heard THEN trk[k].id = i /\ trk[k].quote = q /\ trk[k] # Untracked
                     ELSE trk = tracked
         /\ \A j \in Key : tracked[j] # Untracked => tracked[j].id \in Id \ {i}
         /\ \A j \in Key : tracked[j].id # i
<1>1. Typed /\ i \in Id /\ order[i] = Vacant
  BY Numbers DEF Whole, Placing
<1>2. q # NoQuote /\ q \in Quotes \cup {NoQuote} /\ q.qty <= MaxSize
  BY DEF Placing, Whole, IInv, Stages, TypeOK, Orders, OrdersFit, QuoteFits
<1>3. q \in Quotes /\ q.qty \in Nat \ {0}
  BY <1>2 DEF Quotes
<1>4. Fits(k) /\ Listed(k)
  BY DEF Placing, Whole, Orders, PassFits
<1>5. ASSUME NEW j \in Key, tracked[j] # Untracked PROVE tracked[j].id \in Id \ {i}
  <2>1. tracked[j].id \in Id /\ order[tracked[j].id].key = j
    BY <1>5 DEF Whole, IInv, Consistent, Names
  <2>2. QED
    BY <1>1, <2>1, VacantShape
<1>6. \A j \in Key : tracked[j].id # i
  BY <1>1, <1>5, UntrackedShape
<1>7. [id |-> i, quote |-> q] # Untracked
  BY <1>1, UntrackedShape
<1>8. CASE heard
  <2>1. trk = [tracked EXCEPT ![k] = [id |-> i, quote |-> q]] /\ tracked \in Tracking
    BY <1>1, <1>8 DEF Track, Typed
  <2>2. /\ trk \in Tracking /\ trk[k] = [id |-> i, quote |-> q]
        /\ \A j \in Key \ {k} : trk[j] = tracked[j]
    BY <1>1, <1>3, <2>1 DEF Tracking
  <2>3. trk[k].id = i /\ trk[k].quote = q
    BY <2>2
  <2>4. QED
    BY <1>2, <1>3, <1>4, <1>5, <1>6, <1>7, <1>8, <2>2, <2>3
<1>9. CASE ~heard
  BY <1>1, <1>2, <1>3, <1>4, <1>5, <1>6, <1>9 DEF Typed
<1>10. QED
  BY <1>8, <1>9

(* What a placement adds, and where.                                       *)
LEMMA PlacingBooks ==
  ASSUME Whole, NEW k \in Key, NEW i, NEW heard \in BOOLEAN, Placing(k, i, heard)
  PROVE  /\ VenueTypeOK'
         /\ \A t \in Token, d \in Directions :
              /\ Held(t, d)' = Held(t, d) /\ Gap(t, d)' = Gap(t, d)
              /\ Reach(t, d)' = Reach(t, d) + (IF OnSide(k, t, d) THEN desired[k].qty ELSE 0)
         /\ Stray' = Stray + (IF heard THEN 0 ELSE desired[k].qty)
<1> DEFINE q == desired[k]
           trk == IF heard THEN Track(k, i, q) ELSE tracked
           ord == Rests(i, k, q)
<1>1. /\ Typed /\ i \in Id /\ order[i] = Vacant /\ VenueBecomes(ord, trk)
      /\ net' = net /\ matched' = matched
  BY Numbers DEF Whole, Placing
<1>2. /\ q \in Quotes /\ q.qty \in Nat \ {0} /\ Listed(k)
      /\ trk \in Tracking /\ \A j \in Key \ {k} : trk[j] = tracked[j]
      /\ IF heard THEN trk[k].id = i ELSE trk = tracked
      /\ \A j \in Key : tracked[j].id # i
  BY PlacingMap
<1> HIDE DEF q, trk, ord
<1>3. (\E j \in Key : trk[j].id = i) <=> heard
  BY <1>2
<1>4. ASSUME NEW n \in Id \ {i} PROVE Unclaimed(ord, trk)[n] = Unclaimed(order, tracked)[n]
  <2>1. ord[n] = order[n]
    BY <1>1 DEF ord, Rests, Typed, VenueBook
  <2>2. CASE order[n].known
    BY <2>1, <2>2 DEF Unclaimed
  <2>3. CASE ~order[n].known
    <3>1. tracked[k].id # n
      BY <1>2, <2>3, UntrackedShape DEF Listed
    <3>2. (\E j \in Key : trk[j].id = n) <=> (\E j \in Key : tracked[j].id = n)
      BY <1>2, <3>1
    <3>3. QED
      BY <2>1, <3>2 DEF Unclaimed
  <2>4. QED
    BY <2>2, <2>3
<1>5. /\ ord \in VenueBook
      /\ \A t \in Token, d \in Directions :
           /\ Total(Unbooked(ord, t, d), Id) = Total(Unbooked(order, t, d), Id)
           /\ Total(Ahead(ord, t, d), Id) =
                Total(Ahead(order, t, d), Id) + (IF OnSide(k, t, d) THEN q.qty ELSE 0)
      /\ Total(Unclaimed(ord, trk), Id) =
           Total(Unclaimed(order, tracked), Id)
           + (IF \E j \in Key : trk[j].id = i THEN 0 ELSE q.qty)
  BY <1>1, <1>2, <1>4, RestsAdds DEF ord
<1>6. /\ VenueTypeOK'
      /\ \A t, d : /\ Unbooked(order', t, d) = Unbooked(ord, t, d)
                   /\ Ahead(order', t, d) = Ahead(ord, t, d)
      /\ Unclaimed(order', tracked') = Unclaimed(ord, trk)
  BY <1>1, <1>2, <1>5, BecomesBooks
<1>7. ASSUME NEW t \in Token, NEW d \in Directions
      PROVE  /\ Held(t, d)' = Held(t, d) /\ Gap(t, d)' = Gap(t, d)
             /\ Reach(t, d)' = Reach(t, d) + (IF OnSide(k, t, d) THEN q.qty ELSE 0)
  <2>1. Held(t, d)' = Held(t, d)
    BY <1>1 DEF Held
  <2>2. Total(Unbooked(order', t, d), Id) = Total(Unbooked(order, t, d), Id)
    BY <1>5, <1>6
  <2>3. Gap(t, d)' = Gap(t, d)
    BY <1>1, <2>1, <2>2 DEF Gap
  <2>4. QED
    BY <1>5, <1>6, <2>1, <2>3 DEF Reach
<1>8. Stray' = Stray + (IF heard THEN 0 ELSE q.qty)
  BY <1>3, <1>5, <1>6 DEF Stray
<1>9. QED
  BY <1>6, <1>7, <1>8 DEF q

(* A placed order has its full size left and a quote that covers it.       *)
LEMMA PlacingFits ==
  ASSUME Whole, NEW k \in Key, NEW i, NEW heard \in BOOLEAN, Placing(k, i, heard)
  PROVE  /\ OrdersFit'
         /\ Strays' \subseteq (IF heard THEN Strays ELSE Strays \cup {i})
         /\ \A j \in Key \ {k} : Listed(j) => Listed(j)'
<1> DEFINE q == desired[k]
           trk == IF heard THEN Track(k, i, q) ELSE tracked
           ord == Rests(i, k, q)
<1>1. /\ Typed /\ i \in Id /\ order[i] = Vacant /\ VenueBecomes(ord, trk)
      /\ desired' = desired /\ (tracked[k] = Untracked \/ ~order[tracked[k].id].open)
  BY Numbers DEF Whole, Placing
<1>2. /\ q \in Quotes /\ q.qty \in Nat \ {0} /\ q.qty <= MaxSize /\ Listed(k)
      /\ trk \in Tracking /\ \A j \in Key \ {k} : trk[j] = tracked[j]
      /\ IF heard THEN trk[k].id = i /\ trk[k].quote = q /\ trk[k] # Untracked ELSE trk = tracked
      /\ \A j \in Key : tracked[j] # Untracked => tracked[j].id \in Id \ {i}
      /\ \A j \in Key : tracked[j].id # i
  BY PlacingMap
<1> HIDE DEF q, trk, ord
<1>3. /\ ord \in VenueBook /\ \A n \in Id \ {i} : ord[n] = order[n]
      /\ ord[i].key = k /\ ord[i].left = q.qty /\ ord[i].unseen = 0
      /\ ord[i].open /\ ~ord[i].known
  <2> DEFINE o == [key |-> k, px |-> q.px, left |-> q.qty, unseen |-> 0, open |-> TRUE,
                   known |-> FALSE]
  <2>1. ord = [order EXCEPT ![i] = o]
    BY DEF ord, Rests
  <2>2. o \in OrderRecord
    BY <1>2, QuoteAssumption DEF OrderRecord, Quotes, QuoteAssumption
  <2>3. order \in [Id -> OrderRecord \cup {Vacant}]
    BY <1>1 DEF Typed, VenueBook
  <2>4. o.key = k /\ o.left = q.qty /\ o.unseen = 0 /\ o.open /\ ~o.known
    OBVIOUS
  <2> HIDE DEF o
  <2>5. ord \in VenueBook /\ ord[i] = o /\ \A n \in Id \ {i} : ord[n] = order[n]
    BY <1>1, <2>1, <2>2, <2>3 DEF VenueBook
  <2>6. QED
    BY <2>4, <2>5
<1>4. /\ tracked' = trk
      /\ \A n \in Id : order'[n] = ord[n] \/
           (order'[n] = Vacant /\ ~ord[n].open /\ \A j \in Key : trk[j].id # n)
  BY <1>1, <1>2, <1>3, BecomesBooks
<1>5. order'[i] = ord[i] /\ \A n \in Id \ {i} : order'[n] = order[n] \/
        (order'[n] = Vacant /\ ~order[n].open /\ \A j \in Key : trk[j].id # n)
  BY <1>1, <1>3, <1>4
<1>6. ASSUME NEW n \in Id \ {i}, order[n].open, Tracks(n) PROVE Tracks(n)'
  <2>1. PICK j \in Key : tracked[j].id = n
    BY <1>6 DEF Tracks
  <2>2. tracked[j] # Untracked
    BY <2>1, UntrackedShape
  <2>3. j # k
    BY <1>1, <1>6, <2>1, <2>2
  <2>4. QED
    BY <1>2, <1>4, <2>1, <2>3 DEF Tracks
<1>7. heard => Tracks(i)'
  BY <1>2, <1>4 DEF Tracks
<1>8. Strays' \subseteq (IF heard THEN Strays ELSE Strays \cup {i})
  <2>1. ASSUME NEW n \in Id \ {i}, n \in Strays' PROVE n \in Strays
    <3>1. order'[n].open /\ ~Tracks(n)'
      BY <2>1 DEF Strays
    <3>2. order[n].open
      BY <1>5, <3>1 DEF Vacant
    <3>3. QED
      BY <1>6, <3>1, <3>2 DEF Strays
  <2>2. Strays' \subseteq Id
    BY DEF Strays
  <2>3. heard => i \notin Strays'
    BY <1>7 DEF Strays
  <2>4. QED
    BY <2>1, <2>2, <2>3
<1>9. ASSUME NEW n \in Id PROVE OrderFits(n)'
  <2>1. CASE n = i
    <3>1. ord[i].left + ord[i].unseen <= MaxSize /\ ord[i].left > 0
      BY <1>2, <1>3
    <3>2. QED
      BY <1>3, <1>5, <2>1, <3>1 DEF OrderFits
  <2>2. CASE n # i
    <3>1. OrderFits(n)
      BY DEF Whole, Orders, OrdersFit
    <3>2. CASE order'[n] = Vacant
      BY <3>2 DEF OrderFits, Vacant
    <3>3. CASE order'[n] = order[n]
      <4>1. order[n].open /\ order[n].known => Tracks(n)'
        BY <1>6, <2>2, <3>1 DEF OrderFits
      <4>2. QED
        BY <3>1, <3>3, <4>1 DEF OrderFits
    <3>4. QED
      BY <1>5, <2>2, <3>2, <3>3
  <2>3. QED
    BY <2>1, <2>2
<1>10. ASSUME NEW j \in Key, trk[j] = tracked[j]
       PROVE  QuoteFits(j)' /\ (Listed(j) => Listed(j)')
  <2>1. QuoteFits(j)
    BY DEF Whole, Orders, OrdersFit
  <2>2. CASE tracked[j] = Untracked
    BY <1>1, <1>4, <1>10, <2>1, <2>2 DEF QuoteFits, Listed
  <2>3. CASE tracked[j] # Untracked
    <3>1. order'[tracked[j].id] = order[tracked[j].id]
      BY <1>2, <1>5, <1>10, <2>3
    <3>2. QED
      BY <1>1, <1>4, <1>10, <2>1, <3>1 DEF QuoteFits, Listed
  <2>4. QED
    BY <2>2, <2>3
<1>11. heard => QuoteFits(k)'
  <2>1. SUFFICES ASSUME heard PROVE QuoteFits(k)'
    OBVIOUS
  <2>2. trk[k].id = i /\ trk[k].quote = q /\ desired'[k] = q /\ tracked'[k] = trk[k]
    BY <1>1, <1>2, <1>4, <2>1 DEF q
  <2>3. order'[i].left = q.qty /\ order'[i].unseen = 0 /\ q.qty + 0 <= q.qty
    BY <1>2, <1>3, <1>5
  <2>4. QED
    BY <1>2, <2>2, <2>3 DEF QuoteFits
<1>12. \A j \in Key : QuoteFits(j)'
  BY <1>2, <1>10, <1>11
<1>13. QED
  BY <1>2, <1>8, <1>9, <1>10, <1>12 DEF OrdersFit

(* An order that comes to rest: if its answer is heard, the caps approved  *)
(* it; if it is not, it is a fault.                                        *)
LEMMA PlacingWhole ==
  ASSUME Whole, IInv', NEW k \in Key, NEW i, NEW heard \in BOOLEAN, Placing(k, i, heard)
  PROVE  Whole'
<1> DEFINE q == desired[k].qty
<1>1. /\ Typed /\ pc \in {"place", "replace"} /\ k \in todo /\ pc' = "place" /\ todo' = todo \ {k}
      /\ todo \subseteq Key /\ i \in Id
      /\ UNCHANGED <<live, net, matched, flags, killed, desired, afterwards>>
      /\ missedCancel' \subseteq missedCancel
  BY Numbers DEF Whole, Placing, TypeOK
<1>2. q \in Nat \ {0} /\ q <= MaxSize /\ Fits(k)
  BY PlacingMap
<1>3. /\ VenueTypeOK'
      /\ \A t \in Token, d \in Directions :
           /\ Held(t, d)' = Held(t, d) /\ Gap(t, d)' = Gap(t, d)
           /\ Reach(t, d)' = Reach(t, d) + (IF OnSide(k, t, d) THEN q ELSE 0)
      /\ Stray' = Stray + (IF heard THEN 0 ELSE q)
  BY PlacingBooks
<1>4. /\ OrdersFit' /\ Strays' \subseteq (IF heard THEN Strays ELSE Strays \cup {i})
      /\ \A j \in Key \ {k} : Listed(j) => Listed(j)'
  BY PlacingFits
<1>5. /\ faults' \in 0..MaxFaults /\ faults <= faults'
      /\ faults' = IF heard THEN faults ELSE faults + 1
  BY MakerAssumption DEF Placing, Fault, Whole, TypeOK, MakerAssumption
<1>6. TypeOK'
  BY <1>1, <1>3, <1>5 DEF Whole, TypeOK, flags
<1>7. Typed'
  BY <1>6, NumbersNext
<1>8. PassFits'
  <2>1. ASSUME NEW j \in Key \ {k}, j \in todo PROVE Fits(j)' /\ Listed(j)'
    <3>1. Fits(j) /\ Listed(j)
      BY <1>1, <2>1 DEF Whole, Orders, PassFits
    <3>2. Held(TokenOf[j], SideOf[j])' = Held(TokenOf[j], SideOf[j])
      BY <1>1 DEF Held
    <3>3. QED
      BY <1>1, <1>4, <3>1, <3>2 DEF Fits
  <2>2. QED
    BY <1>1, <2>1 DEF PassFits
<1>9. Cardinality(Strays') <= faults'
  <2>1. CASE heard
    BY <1>1, <1>4, <1>5, <1>7, <2>1, StraysCounted DEF Whole, Orders
  <2>2. CASE ~heard
    <3>1. IsFiniteSet(Strays) /\ IsFiniteSet(Strays \cup {i})
      BY IdFinite, FS_Subset, FS_AddElement DEF Strays
    <3>2. Cardinality(Strays') <= Cardinality(Strays \cup {i})
      BY <1>4, <2>2, <3>1, FS_Subset
    <3>3. Cardinality(Strays \cup {i}) \in {Cardinality(Strays), Cardinality(Strays) + 1}
      BY <3>1, FS_AddElement
    <3>4. /\ Cardinality(Strays) \in Nat /\ Cardinality(Strays') \in Nat
          /\ Cardinality(Strays) <= faults
      BY <1>4, <2>2, <3>1, FS_Subset, FS_CardinalityType DEF Whole, Orders
    <3>5. faults \in Nat /\ faults' = faults + 1
      BY <1>1, <1>5, <2>2 DEF Typed
    <3>6. QED
      BY ONLY <3>2, <3>3, <3>4, <3>5
  <2>3. QED
    BY <2>1, <2>2
<1>10. MaxSize \in Nat /\ Ceiling \in Nat
  BY Sized, CeilingSized
<1> HIDE DEF q
<1>11. ASSUME NEW t \in Token, NEW d \in Directions PROVE Balance(t, d)'
  <2> DEFINE x == Extra(t, d)
             x1 == Extra(t, d)'
  <2>1. IF OnSide(k, t, d) THEN x = 0 /\ x1 = MaxSize ELSE x1 = x
    BY <1>1, VisitQuotes
  <2>2. Measured(t, d) /\ Measured(t, d)' /\ Spent \in Int
    BY <1>1, <1>7 DEF Typed, Measured, Spent
  <2>3. /\ Held(t, d)' = Held(t, d) /\ Gap(t, d)' = Gap(t, d)
        /\ Reach(t, d)' = Reach(t, d) + (IF OnSide(k, t, d) THEN q ELSE 0)
        /\ Stray' = Stray + (IF heard THEN 0 ELSE q)
    BY <1>3
  <2>4. CASE ~heard
    <3>1. Spent = MaxSize
      BY <1>1, <1>5, <1>7, <2>4, LossGrows
    <3>2. Drifts(t, d)
      <4>1. /\ Held(t, d) \in Int /\ Gap(t, d) \in Int /\ Reach(t, d) \in Int /\ Stray \in Int
            /\ x \in Int /\ x1 \in Int /\ x <= x1
        BY <1>10, <2>1, <2>2 DEF Measured
      <4>2. Reach(t, d)' \in {Reach(t, d), Reach(t, d) + q} /\ Stray' = Stray + q
        BY <2>3, <2>4, <4>1
      <4> HIDE DEF x, x1
      <4>3. QED
        BY <1>2, <1>10, <2>3, <3>1, <4>1, <4>2 DEF Drifts, x, x1
    <3>3. QED
      BY <1>1, <1>7, <3>2, BalanceKept DEF Whole, Books
  <2>5. CASE heard /\ ~OnSide(k, t, d)
    <3>1. Spent = 0
      <4>1. Loss' = Loss /\ Loss \in Int
        BY <1>5, <2>2, <2>5 DEF Loss, Measured
      <4>2. QED
        BY <4>1 DEF Spent
    <3>2. Stray' = Stray /\ Reach(t, d)' = Reach(t, d) /\ x1 = x
      BY <2>1, <2>2, <2>3, <2>5 DEF Measured
    <3>3. Drifts(t, d)
      BY <2>2, <2>3, <3>1, <3>2 DEF Drifts, Measured
    <3>4. QED
      BY <1>1, <1>7, <3>3, BalanceKept DEF Whole, Books
  <2>6. CASE heard /\ OnSide(k, t, d)
    <3> DEFINE h == Held(t, d)
               g == Gap(t, d)
               r == Reach(t, d)
    <3>1. Loss' = Loss
      BY <1>5, <2>6 DEF Loss
    <3>2. Stray' = Stray /\ Reach(t, d)' = r + q /\ x = 0 /\ x1 = MaxSize
      BY <2>1, <2>2, <2>3, <2>6 DEF Measured
    <3>3. h + q <= Ceiling
      BY <1>2, <2>6 DEF Fits, OnSide, q
    <3>4. Sound(h, g, r, Stray, Loss, 0)
      BY <3>2 DEF Whole, Books, Balance
    <3>5. h \in Int /\ g \in Int /\ r \in Int /\ Stray \in Int /\ Loss \in Int
      BY <2>2 DEF Measured
    <3> HIDE DEF h, g, r
    <3>6. Sound(h, g, r + q, Stray, Loss, MaxSize)
      BY ONLY <1>2, <1>10, <3>3, <3>4, <3>5 DEF Sound
    <3>7. QED
      BY <2>3, <3>1, <3>2, <3>6 DEF Balance, h, g
  <2>7. QED
    BY <2>4, <2>5, <2>6
<1>12. QED
  BY <1>4, <1>6, <1>8, <1>9, <1>11 DEF Whole, Orders, Books

(* A place that is answered: the order rests and is tracked, or it was     *)
(* refused, or it rests unheard.                                           *)
LEMMA PlaceAnsweredKeeps ==
  ASSUME Whole, IInv', NEW k \in Key, pc \in {"place", "replace"}, k \in todo,
         tracked[k] = Untracked \/ ~order[tracked[k].id].open, PlaceAnswered(k)
  PROVE  Whole'
<1>1. /\ pc' = "place" /\ todo' = todo \ {k}
      /\ UNCHANGED <<live, net, matched, flags, killed, desired, afterwards>>
  BY DEF PlaceAnswered
<1>2. CASE Accepted(k)
  <2>1. Placing(k, Lowest(Free), TRUE)
    BY <1>1, <1>2, FreeId DEF Placing, Accepted, Missed
  <2>2. QED
    BY <2>1, PlacingWhole
<1>3. CASE Unheard(k)
  <2>1. Placing(k, Lowest(Free), FALSE)
    BY <1>1, <1>3, FreeId DEF Placing, Unheard
  <2>2. QED
    BY <2>1, PlacingWhole
<1>4. CASE Refused
  <2>1. UNCHANGED <<order, tracked, missedCancel, faults>> /\ todo \subseteq Key
    BY <1>4 DEF Refused, Whole, TypeOK
  <2>2. TypeOK'
    BY <1>1, <2>1 DEF Whole, TypeOK, VenueTypeOK, flags
  <2>3. \A j \in Key : desired'[j].qty <= MaxSize
    BY <1>1 DEF Whole, Orders, OrdersFit, QuoteFits
  <2>4. PassFits'
    BY <1>1, <2>1 DEF Whole, Orders, PassFits, Fits, Listed, Held
  <2>5. \A t \in Token, d \in Directions : Quoted(t, d) => Quoted(t, d)'
    BY <1>1 DEF Quoted
  <2>6. QED
    BY <1>1, <2>1, <2>2, <2>3, <2>4, <2>5, IdleKeeps
<1>5. QED
  BY <1>2, <1>3, <1>4 DEF PlaceAnswered

LEMMA PlaceKeepsWhole ==
  ASSUME Whole, IInv', NEW k \in Key, Place(k) \/ ReplacePlace(k)
  PROVE  Whole'
<1>1. todo \subseteq Key /\ (pc = "replace" => todo # {})
  BY DEF Whole, IInv, Stages
<1>2. CASE Place(k)
  <2>1. pc = "place" /\ k \in todo /\ tracked[k] = Untracked /\ PlaceAnswered(k)
    BY <1>1, <1>2, LowestKey DEF Place
  <2>2. QED
    BY <2>1, PlaceAnsweredKeeps
<1>3. CASE ReplacePlace(k)
  <2>1. pc = "replace" /\ k \in todo /\ k = Lowest(todo) /\ PlaceAnswered(k)
    BY <1>1, <1>3, LowestKey DEF ReplacePlace
  <2>2. ~order[tracked[k].id].open
    BY <2>1 DEF Whole, Orders, PassFits
  <2>3. QED
    BY <2>1, <2>2, PlaceAnsweredKeeps
<1>4. QED
  BY <1>2, <1>3

-----------------------------------------------------------------------------
(* A session starts flat, and its books are even.                          *)
LEMMA InitWhole == Init => Whole
<1> SUFFICES ASSUME Init PROVE Whole
  OBVIOUS
<1>1. /\ order = [i \in Id |-> Vacant] /\ tracked = [k \in Key |-> Untracked]
      /\ net = [t \in Token |-> 0] /\ matched = [t \in Token |-> 0] /\ faults = 0
      /\ pc = "top" /\ desired = [k \in Key |-> NoQuote]
  BY DEF Init, VenueInit
<1>2. TypeOK
  <2>1. live \in BOOLEAN /\ MaxFaults \in Nat /\ live \in LiveModes
    BY MakerAssumption DEF Init, MakerAssumption
  <2>2. paused \in BOOLEAN /\ halted \in BOOLEAN /\ dayHalted \in BOOLEAN /\ killed \in BOOLEAN
    BY <2>1 DEF Init
  <2>3. VenueTypeOK
    BY <1>1 DEF VenueTypeOK
  <2>4. /\ net \in [Token -> Int] /\ matched \in [Token -> Int] /\ faults \in 0..MaxFaults
        /\ desired \in [Key -> Quotes \cup {NoQuote}]
    BY <1>1, <2>1
  <2>5. QED
    BY <2>1, <2>2, <2>3, <2>4 DEF Init, TypeOK
<1>3. /\ Vacant.key \notin Key /\ Vacant.unseen = 0 /\ Rest(Vacant) = 0 /\ ~Vacant.open
      /\ Untracked.quote.qty = 0 /\ NoQuote.qty = 0 /\ MaxSize \in Nat /\ Ceiling \in Nat
  BY VacantShape, Sized, CeilingSized DEF Vacant, Rest, Untracked, NoQuote
<1>4. OrdersFit
  BY <1>1, <1>3 DEF OrdersFit, OrderFits, QuoteFits
<1>5. PassFits
  BY <1>1 DEF PassFits, Listed
<1>6. Cardinality(Strays) <= faults
  <2>1. Strays = {}
    BY <1>1, <1>3 DEF Strays
  <2>2. QED
    BY <1>1, <2>1, FS_EmptySet
<1>7. ASSUME NEW t \in Token, NEW d \in Directions PROVE Balance(t, d)
  <2> DEFINE u == Unbooked(order, t, d)
             a == Ahead(order, t, d)
             c == Unclaimed(order, tracked)
  <2>1. \A i \in Id : u[i] = 0 /\ a[i] = 0 /\ c[i] = 0
    BY <1>1, <1>3 DEF Unbooked, Ahead, Unclaimed, On
  <2>2. IsFiniteSet(Id)
    BY IdFinite
  <2> HIDE DEF u, a, c
  <2>3. Total(u, Id) = 0 /\ Total(a, Id) = 0 /\ Total(c, Id) = 0
    BY <2>1, <2>2, TotalZero
  <2>4. Held(t, d) = 0 /\ Gap(t, d) = 0
    <3>1. ASSUME NEW n \in Int, n + n = n PROVE Toward(d, n) = n
      BY <3>1 DEF Toward
    <3>2. net[t] = 0 /\ matched[t] = 0
      BY <1>1
    <3>3. net[t] \in Int /\ net[t] + net[t] = net[t] /\ matched[t] \in Int
          /\ matched[t] + matched[t] = matched[t]
      BY <3>2
    <3>4. Toward(d, net[t]) = net[t] /\ Toward(d, matched[t]) = matched[t]
      BY <3>1, <3>3
    <3>5. Gap(t, d) = matched[t] - net[t] - Total(u, Id) /\ Held(t, d) = net[t]
      BY <3>4 DEF Gap, Held, u
    <3>6. QED
      BY <2>3, <3>2, <3>5
  <2>5. Reach(t, d) = 0 /\ Stray = 0
    BY <2>3 DEF Reach, Stray, a, c
  <2>6. Loss = 0 /\ Extra(t, d) = 0
    BY <1>1, <1>3 DEF Loss, Extra, Quoted
  <2>7. Sound(0, 0, 0, 0, 0, 0)
    BY <1>3 DEF Sound
  <2>8. QED
    BY <2>4, <2>5, <2>6, <2>7 DEF Balance
<1>8. QED
  BY <1>2, <1>4, <1>5, <1>6, <1>7, InitIInv DEF Whole, Orders, Books

(* The invariant is inductive.                                             *)
LEMMA NextWhole == Whole /\ [Next]_vars => Whole'
<1> SUFFICES ASSUME Whole, [Next]_vars PROVE Whole'
  OBVIOUS
<1>1. IInv'
  BY NextIInv DEF Whole
<1>2. CASE UNCHANGED vars
  <2>1. UNCHANGED <<live, order, tracked, net, matched, faults, paused, halted, dayHalted, vetoed,
                    killed, pc, desired, todo, afterwards, missedCancel>>
    BY <1>2 DEF vars, maker, flags
  <2>2. TypeOK'
    BY <2>1 DEF Whole, TypeOK, VenueTypeOK
  <2>3. \A k \in Key : desired'[k].qty <= MaxSize
    BY <2>1 DEF Whole, Orders, OrdersFit, QuoteFits
  <2>4. PassFits'
    BY <2>1 DEF Whole, Orders, PassFits, Fits, Listed, Held
  <2>5. \A t \in Token, d \in Directions : Quoted(t, d) => Quoted(t, d)'
    BY <2>1 DEF Quoted
  <2>6. QED
    BY <1>1, <2>1, <2>2, <2>3, <2>4, <2>5, IdleKeeps
<1>3. CASE TaskStep
  <2>1. ASSUME NEW k \in Key,
               CancelStale(k) \/ Place(k) \/ ReplaceCancel(k) \/ ReplacePlace(k) \/ CancelAllStep(k)
        PROVE  Whole'
    BY <1>1, <2>1, CancelStaleKeeps, PlaceKeepsWhole, ReplaceCancelKeeps, CancelAllStepKeeps
  <2>2. CASE LoopTop \/ Ticks \/ StaleDone \/ Recorded \/ Poll \/ Mark \/ CancelAllDone
    BY <1>1, <2>2, LoopTopKeeps, TicksKeeps, StaleDoneKeeps, RecordedKeeps, PollKeeps, MarkKeeps,
       CancelAllDoneKeeps
  <2>3. QED
    BY <1>3, <2>1, <2>2 DEF TaskStep
<1>4. CASE Commands
  BY <1>1, <1>4, SetPausedKeeps, VetoKeeps, LiftVetoKeeps, CtlClosedKeeps DEF Commands
<1>5. CASE Outside
  BY <1>1, <1>5, MatchingKeeps, FrameLostKeeps, KillKeeps DEF Outside
<1>6. QED
  BY <1>2, <1>3, <1>4, <1>5 DEF Next

LEMMA AlwaysWhole == Spec => []Whole
BY InitWhole, NextWhole, PTL DEF Spec

(* The types, and with them the bound MaxFaults on the faults.             *)
THEOREM TypeCorrect == Spec => []TypeOK
<1>1. Whole => TypeOK
  BY DEF Whole
<1>2. QED
  BY <1>1, AlwaysWhole, PTL

(* reconcile and cancel_all, crates/execution/src/quote_manager.rs and     *)
(* crates/app/src/strategy/mm.rs: whatever cancels and replaces failed, an *)
(* order rests untracked only where an answer was lost, one per answer.    *)
THEOREM NoOrphans == Spec => []NoOrphan
<1>1. Whole => NoOrphan
  BY DEF Whole, Orders, Strays, NoOrphan
<1>2. QED
  BY <1>1, AlwaysWhole, PTL

\* what is unseen of a token adds up to its unbooked orders, on either side
LEMMA UnseenAdds ==
  ASSUME Typed, NEW t \in Token, NEW d \in Directions,
         NEW T, T = {i \in Unseen : TokenOf[order[i].key] = t}
  PROVE  Total(Trades, T) \in Int
         /\ Total(Unbooked(order, t, d), Id) = Toward(d, Total(Trades, T))
<1> DEFINE u == Unbooked(order, t, d)
<1>1. \A i \in Id : Only(u, Unseen)[i] = u[i]
  <2> SUFFICES ASSUME NEW i \in Id, i \notin Unseen PROVE u[i] = 0
    BY DEF Only
  <2>1. order[i].unseen = 0
    BY DEF Typed, VenueBook, OrderRecord, Vacant, Unseen
  <2>2. QED
    BY <2>1 DEF Unbooked
<1>2. Only(u, Unseen) = u
  BY <1>1 DEF Only, Unbooked
<1>3. Total(Trades, T) \in Int /\ Total(Only(u, Unseen), Id) = Toward(d, Total(Trades, T))
  BY TradesAdd
<1>4. QED
  BY <1>2, <1>3

(* consume_fills, crates/app/src/strategy/mm.rs: the inventory that caps   *)
(* and stops look at is what the venue traded, less what is still to be    *)
(* polled, and off by no more than a quote for each fault.                 *)
THEOREM InventoryIsTrue == Spec => []InventoryTrue
<1>1. Whole => InventoryTrue
  <2> SUFFICES ASSUME Whole, NEW t \in Token
               PROVE  Abs(matched[t] - net[t]
                          - MapThenSumSet(LAMBDA i : Trades[i],
                                          {i \in Unseen : TokenOf[order[i].key] = t}))
                        <= faults * MaxSize
    BY DEF InventoryTrue
  <2> DEFINE T == {i \in Unseen : TokenOf[order[i].key] = t}
             sum == Total(Trades, T)
             off == matched[t] - net[t] - sum
  <2>1. MapThenSumSet(LAMBDA i : Trades[i], T) = sum
    BY Zenon DEF Total
  <2>2. Typed /\ "bid" \in Directions /\ "ask" \in Directions
    BY Numbers DEF Whole, Directions
  <2>3. ASSUME NEW d \in Directions PROVE Gap(t, d) <= Loss
    <3>1. Sound(Held(t, d), Gap(t, d), Reach(t, d), Stray, Loss, Extra(t, d))
      BY DEF Whole, Books, Balance
    <3>2. Gap(t, d) + Stray <= Loss
      BY <3>1 DEF Sound
    <3>3. Stray \in Nat /\ Gap(t, d) \in Int /\ Loss \in Int
      BY <2>2, Totals DEF Typed, Stray, Measured
    <3>4. QED
      BY ONLY <3>2, <3>3
  <2>4. /\ sum \in Int /\ matched[t] \in Int /\ net[t] \in Int
        /\ Total(Unbooked(order, t, "bid"), Id) = sum /\ Total(Unbooked(order, t, "ask"), Id) = -sum
    <3>1. sum \in Int /\ \A d \in Directions : Total(Unbooked(order, t, d), Id) = Toward(d, sum)
      BY <2>2, UnseenAdds
    <3>2. Toward("bid", sum) = sum /\ Toward("ask", sum) = -sum
      BY DEF Toward
    <3> HIDE DEF sum
    <3>3. QED
      BY <2>2, <3>1, <3>2 DEF Typed
  <2> HIDE DEF sum, T
  <2>5. Gap(t, "bid") = off /\ Gap(t, "ask") = -off
    <3>1. /\ Gap(t, "bid") = matched[t] - net[t] - sum
          /\ Gap(t, "ask") = -matched[t] - (-net[t]) - (-sum)
      BY <2>4 DEF Gap, Held, Toward
    <3>2. QED
      BY <2>4, <3>1
  <2>6. off \in Int /\ Loss \in Int /\ off <= Loss /\ -off <= Loss
    <3>1. off <= Loss /\ -off <= Loss
      BY <2>2, <2>3, <2>5
    <3>2. QED
      BY <2>2, <2>4, <3>1 DEF Typed, Measured
  <2>7. Abs(off) <= Loss
    <3> HIDE DEF off
    <3>1. QED
      BY <2>6 DEF Abs
  <2>8. QED
    BY <2>1, <2>7 DEF Loss, T
<1>2. QED
  BY <1>1, AlwaysWhole, PTL

(* check_quote, crates/risk/src/inventory.rs: what was really traded       *)
(* exceeds the ceiling by at most one quote and one more for every fault.  *)
THEOREM InventoryIsBounded == Spec => []InventoryBounded
<1>1. Whole => InventoryBounded
  <2> SUFFICES ASSUME Whole, NEW t \in Token
               PROVE  Abs(matched[t]) <= Ceiling + MaxSize * (1 + faults)
    BY DEF InventoryBounded
  <2>1. /\ Typed /\ faults \in Nat /\ MaxSize \in Nat /\ Ceiling \in Nat /\ IsFiniteSet(Id)
        /\ matched[t] \in Int
    BY Numbers, Sized, CeilingSized, IdFinite DEF Whole, Typed
  <2>2. MaxSize * (1 + faults) = Loss + MaxSize /\ Loss \in Nat
    BY <2>1, Slack DEF Loss
  <2>3. ASSUME NEW d \in Directions PROVE Toward(d, matched[t]) <= Ceiling + MaxSize + Loss
    <3> DEFINE u == Unbooked(order, t, d)
               a == Ahead(order, t, d)
    <3>1. \A i \in Id : u[i] \in Int /\ a[i] \in Int /\ a[i] \in Nat
      BY <2>1, Weights DEF Typed
    <3>2. ASSUME NEW i \in Id PROVE u[i] <= a[i]
      <4>1. order[i].left \in Nat /\ order[i].unseen \in Nat
        BY <2>1 DEF Typed, VenueBook, OrderRecord, Vacant
      <4>2. CASE On(order[i], t) /\ Facing(order[i], d)
        <5>1. u[i] = order[i].unseen /\ a[i] = Rest(order[i])
          BY <4>2 DEF Unbooked, Ahead
        <5>2. QED
          BY <4>1, <5>1 DEF Rest
      <4>3. CASE ~(On(order[i], t) /\ Facing(order[i], d))
        <5>1. u[i] \in {0, -order[i].unseen}
          BY <4>3 DEF Unbooked
        <5>2. QED
          BY <3>1, <4>1, <5>1
      <4>4. QED
        BY <4>2, <4>3
    <3> HIDE DEF u, a
    <3>3. Total(u, Id) <= Total(a, Id) /\ Total(u, Id) \in Int
      BY <2>1, <3>1, <3>2, TotalLess, TotalType
    <3>4. Sound(Held(t, d), Gap(t, d), Reach(t, d), Stray, Loss, Extra(t, d))
      BY DEF Whole, Books, Balance
    <3>5. Held(t, d) + Gap(t, d) + Reach(t, d) <= Ceiling + MaxSize + Loss
      BY <3>4 DEF Sound
    <3>6. /\ Reach(t, d) = Total(a, Id)
          /\ Gap(t, d) = Toward(d, matched[t]) - Held(t, d) - Total(u, Id)
      BY DEF Reach, Gap, u, a
    <3>7. /\ Held(t, d) \in Int /\ Gap(t, d) \in Int /\ Reach(t, d) \in Int
          /\ Toward(d, matched[t]) \in Int
      BY <2>1 DEF Typed, Measured, Toward
    <3>8. QED
      BY ONLY <2>1, <2>2, <3>3, <3>5, <3>6, <3>7
  <2>4. Toward("bid", matched[t]) = matched[t] /\ Toward("ask", matched[t]) = -matched[t]
    BY DEF Toward
  <2>5. matched[t] <= Ceiling + MaxSize + Loss /\ -matched[t] <= Ceiling + MaxSize + Loss
    BY <2>3, <2>4 DEF Directions
  <2>6. QED
    BY <2>1, <2>2, <2>5 DEF Abs
<1>2. QED
  BY <1>1, AlwaysWhole, PTL
=============================================================================
