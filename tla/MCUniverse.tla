----------------------------- MODULE MCUniverse -----------------------------
(***************************************************************************)
(* Twelve micro-dollars to the dollar.  The books are deep and thin, cheap *)
(* and dear, so that sets, partitions and pairs are mispriced both ways.   *)
(* The scenarios list sets of every kind: named, with a placeholder, with  *)
(* a closed or an unsupported member, over two pages, listed twice; and    *)
(* every kind of relation; under filters that cut and filters that do not. *)
(***************************************************************************)
EXTENDS Universe

L(px, qty) == [px |-> px, qty |-> qty]
Book(asks, bids) == [asks |-> asks, bids |-> bids, valid |-> TRUE]
Cheap == Book(<<L(3, 48), L(4, 16)>>, <<L(2, 16)>>)
Fair  == Book(<<L(5, 16), L(6, 48)>>, <<L(4, 16), L(3, 48)>>)
Dear  == Book(<<L(10, 48)>>, <<L(9, 16), L(8, 48)>>)

MCShapes == [n \in 1..3 |-> IF n < 3 THEN {NoBook, Cheap, Fair, Dear} ELSE {Cheap, Fair, Dear}]

MCConditions == {"a", "b", "c", "closed", "odd"}
MCPriority == [c \in MCConditions |-> CASE c = "a" -> 2 [] c = "b" -> 5 [] c = "c" -> 4
                                      [] c = "closed" -> 3 [] c = "odd" -> 1]

M(c, negRisk, question) == [condition |-> c, negRisk |-> negRisk, question |-> question]
Event(id, members) == [id |-> id, members |-> members]
Named(cs) == [i \in DOMAIN cs |-> M(cs[i], TRUE, "named")]
Single(c) == Event(NoEvent, <<M(c, FALSE, "named")>>)

Set == Event("E", Named(<<"a", "b">>))
Triple == Event("E", Named(<<"a", "b", "c">>))
Placeholder == Event("E", <<M("a", TRUE, "named"), M("b", TRUE, "other")>>)
Plain == Event("E", <<M("a", FALSE, "named"), M("b", FALSE, "none")>>)
WithClosed == Event("E", Named(<<"a", "b", "closed">>))
WithOdd == Event("E", Named(<<"odd", "a">>) \o <<M(NoCondition, TRUE, "named")>>)

Filter(max, active, prioritize, pool, favoured) ==
  [max |-> max, active |-> active, prioritize |-> prioritize, pool |-> pool, favoured |-> favoured]
All == Filter(9, TRUE, FALSE, 0, {})
Some == Filter(2, TRUE, FALSE, 0, {})
Best == Filter(2, TRUE, TRUE, 3, {})
Unfiltered == Filter(9, FALSE, FALSE, 0, {})

R(kind, status) == [kind |-> kind, a |-> "a", b |-> "b", status |-> status]
Scenario(events, file, filter) == [listing |-> events, file |-> file, filter |-> filter]
Apart == <<<<Single("a")>>, <<Single("b")>>>>

MCScenarios ==
  {Scenario(Apart, <<R(k, "approved"), R("Equivalent", "pending")>>, All) :
     k \in {"Implies", "MutuallyExclusive", "Equivalent"}}
  \cup {Scenario(Apart, <<R("Equivalent", "approved"), R("Equivalent", "approved")>>, All)}
  \cup {Scenario(<<<<e>>>>, <<>>, All) : e \in {Set, Placeholder, Plain, WithOdd}}
  \cup {Scenario(<<<<Triple, Single("odd")>>>>, <<>>, f) : f \in {All, Some, Best}}
  \cup {Scenario(<<<<WithClosed>>>>, <<>>, f) : f \in {All, Unfiltered}}
  \cup {Scenario(<<<<Set>>, <<Triple>>>>, <<>>, Some),
        Scenario(<<<<Set>>, <<Set>>>>, <<>>, All),
        Scenario(<<<<Event("E", Named(<<"a", "a", "b">>))>>>>, <<>>, All),
        Scenario(<<<<Triple>>>>, <<>>, Filter(2, TRUE, FALSE, 0, {"a", "closed"}))}

MCSolved ==
  {[fee |-> 10, books |-> b] : b \in [TokensOf({"a", "b"}) -> {Cheap, Dear}]}

MCGas == [split |-> 1, merge |-> 0, redeem |-> 0, convert |-> 1]
MCAmounts == {20}
MCFees == {0, 10}
MCOpen == MCConditions \ {"closed"}
MCUsable == MCConditions \ {"odd"}
MCUnsteady == {"b"}
=============================================================================
