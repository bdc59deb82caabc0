----------------------------- MODULE MCStartup ------------------------------
(***************************************************************************)
(* Small instances of Startup: two outcomes of one event and a market of   *)
(* its own; a market maker of either policy, a confluence signal, a copy   *)
(* strategy, and files that are not valid or ask for too much.             *)
(***************************************************************************)
EXTENDS Startup, TLC

CONSTANTS a, b, c

MCCondition == {a, b, c}
MCEvent == (a :> 1) @@ (b :> 1) @@ (c :> 2)
Listed(segment, volume, fee, rate, minSize) ==
  [segment |-> segment, volume |-> volume, liquidity |-> 1, fee |-> fee, rate |-> rate, minSize |-> minSize]
MCMetrics ==
  (a :> Listed("stable", 3, 1, 3, 2)) @@ (b :> Listed("liquid", 2, 1, 2, 2)) @@ (c :> Listed("liquid", 1, 0, 1, 1))

Base ==
  [bankroll |-> 4, perMarket |-> 2, maxMarkets |-> 3, pool |-> 0, chunk |-> 4,
   mm |-> TRUE, mmLive |-> TRUE, mmCapital |-> 3, mmMarkets |-> 2, perEvent |-> 1, policy |-> "spread_capture",
   segments |-> {"stable", "liquid"}, excludeFeeFree |-> FALSE, hedging |-> FALSE,
   confluence |-> FALSE, copy |-> FALSE, copyLive |-> FALSE, copyCapital |-> 2]

Farm == [Base EXCEPT !.policy = "reward_farm"]
Hedged == [Farm EXCEPT !.hedging = TRUE, !.confluence = TRUE, !.mmLive = FALSE]
Follow == [Base EXCEPT !.confluence = TRUE, !.perEvent = 0]
Copying == [Base EXCEPT !.mmCapital = 1, !.copy = TRUE, !.copyLive = TRUE, !.excludeFeeFree = TRUE]
Greedy == [Base EXCEPT !.copy = TRUE]
Broken == [Base EXCEPT !.mm = FALSE]

MCFavourable == {<<a, "yes">>, <<b, "no">>}
MCFollowed == {b}

MCConfigs == {Farm, Hedged, Follow, Copying, Greedy, Broken}
=============================================================================
