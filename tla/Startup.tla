------------------------------ MODULE Startup -------------------------------
(***************************************************************************)
(* One launch of the process after another (crates/app/src/main.rs and     *)
(* wiring.rs): what main assembles before anything trades, from the        *)
(* configuration, the store, the venue's listing and the wallet.           *)
(*                                                                         *)
(*   configuration --> store --> registry --> slices, markets, seed --> run *)
(*                       ^                                    |            *)
(*                       '------ rows of the market maker ----'            *)
(*                                                                         *)
(* A token has two names: the venue's (<<market, side>>), and the handle   *)
(* the registry of this process gave it, by the order in which the sync    *)
(* found it.  The store knows the handles, the wallet the venue's names.   *)
(* How the registry is assembled is in Universe; what the strategies do    *)
(* once they run is in Coordinator, MarketMaker and Copy and here only     *)
(* moves shares.                                                           *)
(***************************************************************************)
EXTENDS Integers, FiniteSets, Sequences, SequencesExt

CONSTANTS
  Condition,           \* the venue's markets
  Event,               \* [Condition -> events]; an event's outcomes are one component
  Metrics,             \* [Condition -> [segment, volume, liquidity, fee, rate, minSize]]
  Configs,             \* configuration files to consider
  Favourable,          \* tokens the top traders may hold
  Followed,            \* markets the copied traders may be in
  MaxLaunches, MaxTrades

Side == {"yes", "no"}
VenueToken == Condition \X Side
Handle == 1 .. 2 * Cardinality(Condition)

ASSUME StartupAssumption ==
  /\ IsFiniteSet(Condition) /\ DOMAIN Event = Condition /\ DOMAIN Metrics = Condition
  /\ \A m \in Condition :
       {Metrics[m].volume, Metrics[m].liquidity, Metrics[m].rate, Metrics[m].minSize} \subseteq Int
  /\ \A c \in Configs : {c.mmMarkets, c.perEvent, c.chunk} \subseteq Nat /\ c.mmCapital \in Int
  /\ Favourable \subseteq VenueToken /\ Followed \subseteq Condition
  /\ MaxLaunches \in Nat /\ MaxTrades \in Nat

VARIABLES
  phase,               \* "off", "store", "sync", "wire" or "run"
  cfg, live,           \* this launch's configuration and --live
  reg,                 \* the registry: its markets, in the order of their ids
  favoured,            \* confluence: the tokens the top traders hold
  slices,              \* the envelopes' capital: [arb, mm, copy]
  quotes,              \* the handles the market maker quotes
  chunks,              \* the supervisors' tokens
  inv,                 \* the market maker's net of each handle
  lots,                \* the store: the market maker's open lots by handle
  stranded,            \* the store has orders a dead process left open
  wallet, resolved,    \* the chain
  mine,                \* ghost: what the market maker ever bought
  copied,              \* ghost: what the copy strategy has in the wallet
  launches, trades

chain == <<wallet, resolved>>
ghosts == <<mine, copied>>
assembled == <<cfg, live, reg, favoured, slices, quotes, chunks>>
startupVars == <<phase, assembled, inv, lots, stranded, chain, ghosts, launches, trades>>

SmallerOf(a, b) == IF a < b THEN a ELSE b
Nothing == [t \in Handle |-> 0]

-----------------------------------------------------------------------------
(* Configuration. *)

(* Config::validate, as far as it relates one field to another.            *)
Valid(c) ==
  /\ c.bankroll > 0 /\ c.perMarket > 0 /\ c.perMarket <= c.bankroll
  /\ c.pool # 0 => c.pool >= c.maxMarkets
  /\ c.mmCapital >= 0 /\ (c.mm => c.mmCapital <= c.bankroll)
  /\ c.mmLive => c.mm /\ c.mmCapital > 0
  /\ c.copy => c.copyCapital <= c.bankroll

RewardFarm(c) == c.mm /\ c.policy = "reward_farm"
UsesConfluence(c) == c.confluence /\ ~RewardFarm(c) /\ ~c.copy
Hedging(c) == RewardFarm(c) /\ c.hedging

MmTradesLive == live /\ cfg.mm /\ cfg.mmLive
CopyTradesLive == live /\ cfg.copy /\ cfg.copyLive

(* strategy_envelopes, allocate: arb has what the others leave.            *)
Slices(c) ==
  LET mm == IF c.mm THEN c.mmCapital ELSE 0
      copy == IF c.copy THEN c.copyCapital ELSE 0
  IN  [arb |-> c.bankroll - (mm + copy), mm |-> mm, copy |-> copy]

-----------------------------------------------------------------------------
(* The registry's handles. *)

HandleOf(v) == LET i == CHOOSE i \in DOMAIN reg : reg[i] = v[1] IN 2 * i - (IF v[2] = "yes" THEN 1 ELSE 0)
VenueOf(t) == <<reg[(t + 1) \div 2], IF t % 2 = 1 THEN "yes" ELSE "no">>
TokensOf(m) == {HandleOf(<<m, s>>) : s \in Side}
Known == 1 .. 2 * Len(reg)
IdOf(m) == CHOOSE i \in DOMAIN reg : reg[i] = m

(* pack_components: first fit, the components with the most tokens first.  *)
ComponentsOf == {{m \in ToSet(reg) : Event[m] = e} : e \in {Event[m] : m \in ToSet(reg)}}
Fits(chunk, comp, cap) == 2 * (Cardinality(chunk) + Cardinality(comp)) <= cap
PackedInto(open, comp, cap) ==
  IF \E i \in DOMAIN open : Fits(open[i], comp, cap)
  THEN LET i == CHOOSE i \in DOMAIN open : Fits(open[i], comp, cap)
                                           /\ \A j \in 1 .. i - 1 : ~Fits(open[j], comp, cap)
       IN  [open EXCEPT ![i] = @ \cup comp]
  ELSE Append(open, comp)
\* a fold takes the element it is given here last
Smallest(comps) == CHOOSE a \in comps : \A b \in comps : Cardinality(a) <= Cardinality(b)
Packed(cap) ==
  MapThenFoldSet(LAMBDA comp, open : PackedInto(open, comp, cap), <<>>,
                 LAMBDA comp : comp, Smallest, ComponentsOf)

-----------------------------------------------------------------------------
(* The market maker's markets. *)

Ahead(a, b) == a[1] > b[1] \/ (a[1] = b[1] /\ (a[2] > b[2] \/ (a[2] = b[2] /\ a[3] > b[3])))
Outranks(m, n) ==
  Ahead(<<Metrics[m].volume, Metrics[m].liquidity, -IdOf(m)>>, <<Metrics[n].volume, Metrics[n].liquidity, -IdOf(n)>>)

Routed(m) == Metrics[m].segment \in cfg.segments /\ (cfg.excludeFeeFree => Metrics[m].fee # 0)
SameEvent(m, picked) == Cardinality({n \in picked : Event[n] = Event[m]})

(* mm_market_selection: down the ranks, an event at most perEvent times.   *)
LastRanked(markets) == CHOOSE m \in markets : \A n \in markets \ {m} : Outranks(n, m)
FullFor(m, picked) ==
  Cardinality(picked) >= cfg.mmMarkets \/ (cfg.perEvent # 0 /\ SameEvent(m, picked) >= cfg.perEvent)
Selected ==
  MapThenFoldSet(LAMBDA m, picked : IF FullFor(m, picked) THEN picked ELSE picked \cup {m}, {},
                 LAMBDA m : m, LastRanked, {m \in ToSet(reg) : Routed(m)})

(* Two orders of minSize at a mid of one half, or a bid on either side.    *)
CostOfMarket == [m \in Condition |-> Metrics[m].minSize]
CostOf(picked) == SumFunctionOnSet(CostOfMarket, picked)
Farmable(m) == Metrics[m].rate > 0 /\ CostOfMarket[m] > 0
Pays(m, n) == Metrics[m].rate > Metrics[n].rate \/ (Metrics[m].rate = Metrics[n].rate /\ IdOf(m) < IdOf(n))
LastPaid(markets) == CHOOSE m \in markets : \A n \in markets \ {m} : Pays(n, m)
Affordable(m, picked) == CostOf(picked) + CostOfMarket[m] <= cfg.mmCapital

\* Mutant: the first market that does not fit ends the search.
FundedPrefix ==
  MapThenFoldSet(LAMBDA m, acc :
                   IF acc.open /\ Affordable(m, acc.picked)
                   THEN [acc EXCEPT !.picked = @ \cup {m}] ELSE [acc EXCEPT !.open = FALSE],
                 [picked |-> {}, open |-> TRUE], LAMBDA m : m, LastPaid, {m \in ToSet(reg) : Farmable(m)}).picked

(* select_reward_markets: the best rate first, whatever still fits.        *)
Funded ==
  MapThenFoldSet(LAMBDA m, picked : IF Affordable(m, picked) THEN picked \cup {m} ELSE picked, {},
                 LAMBDA m : m, LastPaid, {m \in ToSet(reg) : Farmable(m)})

(* mm_quote_tokens, directional_quote_tokens.                              *)
QuotesOf(m) ==
  IF Hedging(cfg) THEN TokensOf(m)
  ELSE IF RewardFarm(cfg) THEN {HandleOf(<<m, "yes">>)}
  ELSE IF favoured = {} THEN TokensOf(m)
  ELSE {t \in TokensOf(m) : VenueOf(t) \in favoured}

Picked == IF RewardFarm(cfg) THEN Funded ELSE Selected
Quoted == IF cfg.mm THEN UNION {QuotesOf(m) : m \in Picked} ELSE {}

-----------------------------------------------------------------------------
(* The seed. *)

StoreSeed(q) == [t \in Handle |-> IF t \in q THEN lots[t] ELSE 0]

\* Mutant: whatever the store has of a token that is held.
ReconciledWhole(seed) ==
  [t \in Handle |->
     IF t \notin Known \/ seed[t] <= 0 THEN 0
     ELSE IF VenueOf(t)[1] \in resolved \/ wallet[VenueOf(t)] = 0 THEN 0 ELSE seed[t]]

(* reconcile_seed_with_positions: no more than the wallet has of it.       *)
Reconciled(seed) ==
  [t \in Handle |->
     IF t \notin Known \/ seed[t] <= 0 THEN 0
     ELSE IF VenueOf(t)[1] \in resolved THEN 0 ELSE SmallerOf(seed[t], wallet[VenueOf(t)])]

(* On a live run the positions are fetched, and without them it is flat.   *)
Seeds(q) == IF live THEN {Reconciled(StoreSeed(q)), Nothing} ELSE {StoreSeed(q)}

-----------------------------------------------------------------------------
Idle == [bankroll |-> 0, mm |-> FALSE, copy |-> FALSE, mmLive |-> FALSE, copyLive |-> FALSE]

StartupInit ==
  /\ phase = "off" /\ cfg = Idle /\ live = FALSE
  /\ reg = <<>> /\ favoured = {} /\ slices = Slices(Idle) /\ quotes = {} /\ chunks = <<>>
  /\ inv = Nothing /\ lots = Nothing /\ stranded = FALSE
  /\ wallet = [v \in VenueToken |-> 0] /\ resolved = {}
  /\ mine = [v \in VenueToken |-> 0] /\ copied = [v \in VenueToken |-> 0]
  /\ launches = 0 /\ trades = 0

(* Config::from_toml_str; a configuration that is not valid ends the process.  *)
Load(c, l) ==
  /\ phase = "off" /\ launches < MaxLaunches
  /\ launches' = launches + 1
  /\ IF Valid(c) THEN phase' = "store" /\ cfg' = c /\ live' = l
     ELSE UNCHANGED <<phase, cfg, live>>
  /\ UNCHANGED <<reg, favoured, slices, quotes, chunks, inv, lots, stranded, chain, ghosts, trades>>

(* Every order left open is marked expired before anything else happens.   *)
OpenStore ==
  /\ phase = "store" /\ phase' = "sync"
  /\ stranded' = FALSE
  /\ UNCHANGED <<assembled, inv, lots, chain, ghosts, launches, trades>>

(* The universe: the copied traders' markets, the favoured ones, or all.   *)
Source(top, copying) ==
  IF cfg.copy THEN (IF copying # {} THEN copying ELSE Condition)
  ELSE IF UsesConfluence(cfg) /\ top # {} THEN {v[1] : v \in top} ELSE Condition

(* A market is favoured on one side at most; every feed may fail.          *)
Signals == {top \in SUBSET Favourable : \A m \in Condition : ~({<<m, s>> : s \in Side} \subseteq top)}

Sync(top, copying, found) ==
  /\ phase = "sync"
  /\ (top # {} => UsesConfluence(cfg)) /\ (copying # {} => cfg.copy)
  /\ ToSet(found) \subseteq Source(top, copying) \ resolved
  /\ found # <<>> /\ Len(found) <= cfg.maxMarkets
  /\ phase' = "wire" /\ reg' = found /\ favoured' = top
  /\ UNCHANGED <<cfg, live, slices, quotes, chunks, inv, lots, stranded, chain, ghosts, launches, trades>>

(* The slices together must fit the bankroll, or the process ends.         *)
Wire ==
  /\ phase = "wire" /\ Slices(cfg).arb >= 0
  /\ phase' = "run" /\ slices' = Slices(cfg)
  /\ quotes' = Quoted /\ chunks' = Packed(cfg.chunk)
  /\ inv' \in Seeds(quotes')
  /\ UNCHANGED <<cfg, live, reg, favoured, lots, stranded, chain, ghosts, launches, trades>>

(* A fatal error on the way up; or the end of a run, however it comes.     *)
Ends ==
  /\ phase # "off" /\ phase' = "off"
  /\ inv' = Nothing /\ quotes' = {} /\ favoured' = {} /\ reg' = <<>> /\ chunks' = <<>>
  /\ slices' = Slices(Idle) /\ cfg' = Idle /\ live' = FALSE
  /\ (stranded' = stranded \/ (phase = "run" /\ stranded' = TRUE))
  /\ UNCHANGED <<lots, chain, ghosts, launches, trades>>

-----------------------------------------------------------------------------
(* A run, as far as it moves shares. *)

Trading(t) == phase = "run" /\ t \in quotes /\ VenueOf(t)[1] \notin resolved
Trade == trades < MaxTrades /\ trades' = trades + 1
ToWallet(v, n) == wallet' = IF MmTradesLive THEN [wallet EXCEPT ![v] = @ + n] ELSE wallet

(* A fill of a quote; its row is written or lost with the process.         *)
MmFill(t, n) ==
  /\ Trading(t) /\ Trade
  /\ n < 0 => inv[t] > 0 /\ ~Hedging(cfg) /\ (MmTradesLive => wallet[VenueOf(t)] > 0)
  /\ inv' = [inv EXCEPT ![t] = @ + n]
  /\ mine' = [mine EXCEPT ![VenueOf(t)] = IF n > 0 THEN @ + n ELSE @]
  /\ ToWallet(VenueOf(t), n)
  /\ lots' \in {lots, [lots EXCEPT ![t] = @ + n]}
  /\ UNCHANGED <<phase, assembled, stranded, resolved, copied, launches>>

(* Arb holds a complete set; copy buys a token and sells it again.         *)
ArbHolds(m) ==
  /\ phase = "run" /\ live /\ m \in ToSet(reg) \ resolved /\ Trade
  /\ wallet' = [v \in VenueToken |-> wallet[v] + IF v[1] = m THEN 1 ELSE 0]
  /\ UNCHANGED <<phase, assembled, inv, lots, stranded, resolved, ghosts, launches>>

CopyTrade(v, n) ==
  /\ phase = "run" /\ CopyTradesLive /\ v[1] \in Condition \ resolved /\ Trade
  /\ copied[v] + n >= 0 /\ wallet[v] + n >= 0
  /\ wallet' = [wallet EXCEPT ![v] = @ + n] /\ copied' = [copied EXCEPT ![v] = @ + n]
  /\ UNCHANGED <<phase, assembled, inv, lots, stranded, resolved, mine, launches>>

Resolve(m) ==
  /\ m \notin resolved /\ resolved' = resolved \cup {m} /\ Trade
  /\ UNCHANGED <<phase, assembled, inv, lots, stranded, wallet, ghosts, launches>>

Arrangement == UNION {{s \in [1..n -> Condition] : IsInjective(s)} : n \in 1 .. Cardinality(Condition)}

StartupNext ==
  \/ \E c \in Configs, l \in BOOLEAN : Load(c, l)
  \/ OpenStore
  \/ \E top \in Signals, copying \in SUBSET Followed, found \in Arrangement : Sync(top, copying, found)
  \/ Wire \/ Ends
  \/ \E t \in Handle, n \in {1, -1} : MmFill(t, n)
  \/ \E m \in Condition : ArbHolds(m) \/ Resolve(m)
  \/ \E v \in VenueToken, n \in {1, -1} : CopyTrade(v, n)

StartupSpec == StartupInit /\ [][StartupNext]_startupVars

-----------------------------------------------------------------------------
(* Properties. *)

(* A live market maker never offers shares the wallet does not have, from  *)
(* whatever lots the store resumes: rows of paper runs, of other tokens    *)
(* under the same handle, of markets resolved since, or rows lost          *)
(* (reconcile_seed_with_positions, main.rs:238-245).  A copy strategy that *)
(* sells from the same wallet can take from under it what it resumed.      *)
NoPhantomAsk ==
  phase = "run" /\ MmTradesLive /\ ~CopyTradesLive =>
    \A t \in quotes : VenueOf(t)[1] \notin resolved /\ inv[t] > 0 => inv[t] <= wallet[VenueOf(t)]

\* what Assembled promises of either policy, and of the chunks
Served == {m \in ToSet(reg) : TokensOf(m) \cap quotes # {}}
BestRouted ==
  LET full(m) == {n \in Served : Event[n] = Event[m]}
  IN  /\ Cardinality(Served) <= cfg.mmMarkets
      /\ cfg.perEvent # 0 => \A m \in Served : Cardinality(full(m)) <= cfg.perEvent
      /\ favoured = {} =>
           \A m \in {m \in ToSet(reg) \ Served : Routed(m)} :
             \/ Cardinality(Served) = cfg.mmMarkets /\ \A n \in Served : Outranks(n, m) \/ cfg.perEvent # 0
             \/ cfg.perEvent # 0 /\ Cardinality(full(m)) = cfg.perEvent /\ \A n \in full(m) : Outranks(n, m)
BestFunded ==
  /\ CostOf(Served) <= cfg.mmCapital
  /\ \A m \in {m \in ToSet(reg) \ Served : Farmable(m)} : ~Affordable(m, Served)
WholeComponents ==
  \A c \in ComponentsOf :
    \E i \in DOMAIN chunks : c \subseteq chunks[i] /\ (chunks[i] = c \/ 2 * Cardinality(chunks[i]) <= cfg.chunk)
(* The market maker quotes the best markets its limits allow: of those     *)
(* passed over each meets a full list or an event full of better ones; of  *)
(* those not funded none would still fit (mm_market_selection,             *)
(* select_reward_markets).  And no component is split between supervisors  *)
(* or put with others beyond their capacity (pack_components).             *)
Assembled ==
  [][phase # "run" /\ phase' = "run" =>
       WholeComponents' /\ (cfg.mm => IF RewardFarm(cfg) THEN BestFunded' ELSE BestRouted')]_startupVars

(* The market maker resumes from the real position (main.rs:1951-1954): it *)
(* never takes shares for its own that it has not bought.                  *)
ResumesItsOwn ==
  phase = "run" => \A t \in quotes : inv[t] > 0 => inv[t] <= mine[VenueOf(t)]
=============================================================================
