------------------------------ MODULE Universe ------------------------------
(***************************************************************************)
(* From what the venue lists to the opportunities of a detector: SyncTask  *)
(* (crates/ingestion/src/sync.rs) pages through the events, looks their    *)
(* markets up in concurrent waves and assembles the registry               *)
(* (crates/registry); build_component_index (crates/app/src/wiring.rs)     *)
(* gives each detector its component, and Engine detects.                  *)
(*                                                                         *)
(* A market is its condition id.  An event lists its members, each with    *)
(* its flag and the kind of question it asks; what the CLOB says of a      *)
(* condition is fixed (Open, Usable).  A visit of the walk is the place    *)
(* of a member in the listing: page, event, member.                        *)
(***************************************************************************)
EXTENDS Engine

CONSTANTS
  Conditions, EventIds,
  Scenarios,           \* what is listed, page by page, the relationship file and the filter
  Open, Usable,        \* the conditions active and not closed; of a supported tick and two tokens
  Unsteady,            \* the conditions whose lookup may fail
  Priority,            \* the ranking key of a condition, ties broken
  MaxPages, Concurrency, MaxPool,
  NegRiskSets,         \* lp.nonexhaustive_negrisk_worlds
  Fees, Shapes         \* the books that the tokens of a component of so many markets may have

NoCondition == "no condition"
NoEvent == "no event"

NoSync == [phase |-> "none"]
Without(state) == [state |-> state, components |-> {}]
NoSetup ==
  [component |-> [markets |-> {}, listed |-> <<>>, partitions |-> {}, relations |-> {}], books |-> <<>>]

PlacesOn(pages, i) ==
  UNION {{<<i, j, k>> : k \in DOMAIN pages[i][j].members} : j \in DOMAIN pages[i]}
PlacesOf(pages) == UNION {PlacesOn(pages, i) : i \in DOMAIN pages}
ListedAt(pages, p) == pages[p[1]][p[2]].members[p[3]]

Member ==
  [condition : Conditions \cup {NoCondition}, negRisk : BOOLEAN, question : {"named", "other", "none"}]
ListedEvent == [id : EventIds \cup {NoEvent}, members : Seq(Member)]

\* a market that is listed twice has the same flag and question both times
Consistent(pages) ==
  \A p, q \in PlacesOf(pages) :
    ListedAt(pages, p).condition = ListedAt(pages, q).condition =>
      ListedAt(pages, p) = ListedAt(pages, q)

\* the best level of a side is its first
IsBook(b) ==
  /\ \A l \in {b.asks, b.bids} :
       l \in Seq([px : Nat, qty : Nat \ {0}]) /\ \A i \in DOMAIN l : l[i].px <= Dollar
  /\ \A i, j \in DOMAIN b.asks : i < j => b.asks[i].px < b.asks[j].px
  /\ \A i, j \in DOMAIN b.bids : i < j => b.bids[i].px > b.bids[j].px
  /\ b.valid \in BOOLEAN

ASSUME UniverseAssumption ==
  /\ NoCondition \notin Conditions /\ NoWinner \notin Conditions
  /\ \A s \in Scenarios : s.listing \in Seq(Seq(ListedEvent)) /\ Consistent(s.listing)
  /\ \A s \in Scenarios : s.filter.max \in Nat /\ s.filter.pool \in Nat
  /\ MaxPool \in Nat /\ Concurrency \in Nat \ {0} /\ Fees \subseteq Nat
  /\ \A n \in DOMAIN Shapes : \A b \in Shapes[n] : IsBook(b)
  /\ \A g \in {Gas.split, Gas.merge, Gas.redeem, Gas.convert} : g \in Nat

VARIABLES
  listing,             \* the events of the venue
  sync,                \* the locals of sync_once
  registry             \* whether it is "built", and then its components

universeVars == <<listing, sync, registry>>
allVars == <<universeVars, engineVars>>

Greater(a, b) == IF a > b THEN a ELSE b

MemberAt(p) == ListedAt(listing, p)
ConditionAt(p) == MemberAt(p).condition
ConditionsAt(places) == {ConditionAt(p) : p \in places}

Precedes(p, q) ==
  \/ p[1] < q[1]
  \/ p[1] = q[1] /\ p[2] < q[2]
  \/ p[1] = q[1] /\ p[2] = q[2] /\ p[3] < q[3]

-----------------------------------------------------------------------------
(* The events: pages in keyset order, or the favoured conditions.          *)

PagesDone ==
  \/ sync.page \in {Len(listing), MaxPages}
  \/ sync.page > 0 /\ Cardinality(sync.listed) >= sync.filter.max

ReadPage ==
  /\ sync.phase = "pages" /\ sync.filter.favoured = {} /\ ~PagesDone
  /\ sync' = [sync EXCEPT !.page = @ + 1, !.listed = @ \cup PlacesOn(listing, sync.page + 1)]
  /\ UNCHANGED <<listing, registry, engineVars>>

PagesRead ==
  /\ sync.phase = "pages" /\ sync.filter.favoured = {} /\ PagesDone
  /\ sync' = [sync EXCEPT !.phase = "lookups"]
  /\ UNCHANGED <<listing, registry, engineVars>>

\* the server leaves out what is unknown, inactive or closed
ReadFavoured ==
  /\ sync.phase = "pages" /\ sync.filter.favoured # {}
  /\ sync' = [sync EXCEPT
       !.listed = {p \in PlacesOf(listing) : ConditionAt(p) \in sync.filter.favoured \cap Open},
       !.phase = "lookups"]
  /\ UNCHANGED <<listing, registry, engineVars>>

\* confluence_events: every favoured market is an event of its own
EventOf(p) ==
  IF sync.filter.favoured = {} THEN listing[p[1]][p[2]].id ELSE ConditionAt(p)

\* a failed page, or batch, ends the startup
ReadFails ==
  /\ sync.phase = "pages"
  /\ registry' = Without("failed") /\ sync' = NoSync
  /\ UNCHANGED <<listing, engineVars>>

-----------------------------------------------------------------------------
(* fetch_clob_bounded: the lookups.                                        *)

Visits == {p \in sync.listed : ConditionAt(p) # NoCondition}
Before(p) == {q \in Visits : Precedes(q, p)}

\* gate_market
Passes(c) ==
  /\ c \in DOMAIN sync.looked /\ sync.looked[c] = "found"
  /\ sync.filter.active => c \in Open
  /\ c \in Usable
AcceptedIn(places) == {p \in places : Passes(ConditionAt(p))}

Pool ==
  LET asked == IF sync.filter.pool = 0 THEN sync.filter.max ELSE sync.filter.pool
  IN  Greater(Lesser(asked, MaxPool), sync.filter.max)
Cap == IF sync.filter.prioritize THEN Pool ELSE sync.filter.max

\* the walk comes to this visit before the cap
Reached(p) == Cardinality(AcceptedIn(Before(p))) < Cap

\* the visits that are gated: up to the first unresolved one, or the cap
Settled ==
  {p \in Visits : Reached(p) /\ ConditionsAt(Before(p) \cup {p}) \subseteq DOMAIN sync.looked}

\* Mutant: a wave looks as far ahead as a first one may.
BudgetWhole == Cap

\* how many visits more a sequential walk is sure to make
Budget == Cap - Cardinality(AcceptedIn(Settled))
Scanned == {p \in Visits \ Settled : Cardinality(Before(p) \ Settled) < Budget}

Unresolved(places) == ConditionsAt(places) \ DOMAIN sync.looked

\* the visits of which the next wave looks the unresolved up
Scan == {p \in Scanned : Cardinality(Unresolved(Before(p) \cup {p})) <= Concurrency}
Wave == Unresolved(Scan)

LookupsDone == Settled = Visits \/ Cardinality(AcceptedIn(Settled)) >= Cap

LookUp ==
  /\ sync.phase = "lookups" /\ ~LookupsDone
  /\ \E failed \in SUBSET (Wave \cap Unsteady) :
       sync' = [sync EXCEPT !.looked =
                  [c \in DOMAIN @ \cup Wave |->
                     IF c \in DOMAIN @ THEN @[c] ELSE IF c \in failed THEN "failed" ELSE "found"]]
  /\ UNCHANGED <<listing, registry, engineVars>>

-----------------------------------------------------------------------------
(* assemble_registry and RegistryBuilder::finish.                          *)

Accepted == AcceptedIn(Visits)
Candidates == {p \in Accepted : Cardinality(Before(p) \cap Accepted) < Pool}
Ahead(p, q) ==
  LET p_ == Priority[ConditionAt(p)]
      q_ == Priority[ConditionAt(q)]
  IN  p_ > q_ \/ (p_ = q_ /\ Precedes(p, q))
Ranked ==
  {p \in Candidates : Cardinality({q \in Candidates : Ahead(q, p)}) < sync.filter.max}
Added ==
  IF sync.filter.prioritize THEN Ranked
  ELSE {p \in Accepted : Cardinality(Before(p) \cap Accepted) < sync.filter.max}

Known == ConditionsAt(Added)

\* the markets are a vector, in the order of the walk, and a repeated one is in it twice
Index(p) == Cardinality(Before(p) \cap Added)
TimesIn(places, c) == Cardinality({p \in places : ConditionAt(p) = c})

\* the interned id: how many conditions were met before this one
IdOf(c) ==
  LET met == {q \in Added : \A p \in Added : ConditionAt(p) = c => Precedes(q, p)}
  IN  Cardinality(ConditionsAt(met))

\* what finish finds at the index of a member's id; that it is the member is
\* asserted by debug builds only
Described(p) == MemberAt(CHOOSE q \in Added : Index(q) = IdOf(ConditionAt(p)))
Outcome(p) == Described(p).condition

\* Mutant: what a member asks is not looked at.
ReasonsUnread(members) ==
  (IF \E p \in members : Described(p).negRisk THEN {} ELSE {"NotNegRisk"})
  \cup (IF Cardinality(members) < 2 THEN {"TooFewMembers"} ELSE {})
  \cup (IF \A p \in members : Outcome(p) \in Open THEN {} ELSE {"InactiveMember"})

\* derive_partition: why it is not verified
Reasons(members) ==
  (IF \E p \in members : Described(p).negRisk THEN {} ELSE {"NotNegRisk"})
  \cup (IF Cardinality(members) < 2 THEN {"TooFewMembers"} ELSE {})
  \cup (IF \A p \in members : Outcome(p) \in Open THEN {} ELSE {"InactiveMember"})
  \cup (IF \A p \in members : Described(p).question = "named" THEN {} ELSE {"PlaceholderOutcome"})

MembersIn(e) == {p \in Added : EventOf(p) = e}

\* its markets by id, and how often the tokens of each outcome are in its lanes
PartitionOf(members) ==
  [markets |-> ConditionsAt(members),
   outcomes |-> [c \in {Outcome(p) : p \in members} |-> Cardinality({p \in members : Outcome(p) = c})],
   negRisk |-> \E p \in members : Described(p).negRisk,
   exhaustive |-> Reasons(members) = {}]
Partitions == {PartitionOf(MembersIn(e)) : e \in {EventOf(p) : p \in Added} \ {NoEvent}}

\* load_relationships
ApprovedRows == {i \in DOMAIN sync.file : sync.file[i].status = "approved"}
Resolved(r) == {r.a, r.b} \subseteq Known
SameRelation(r, s) ==
  r.kind = s.kind /\ (<<r.a, r.b>> = <<s.a, s.b>> \/ (r.kind # "Implies" /\ {r.a, r.b} = {s.a, s.b}))
FileRefused ==
  \/ \E i \in DOMAIN sync.file : sync.file[i].status \notin {"approved", "pending", "rejected"}
  \/ \E i \in ApprovedRows : LET r == sync.file[i] IN
       \/ r.kind \notin {"Implies", "MutuallyExclusive", "Equivalent"}
       \/ r.a = r.b
       \/ \E j \in ApprovedRows : j < i /\ SameRelation(r, sync.file[j]) /\ Resolved(r)
Relations ==
  {[kind |-> r.kind, a |-> r.a, b |-> r.b] : r \in {r \in {sync.file[i] : i \in ApprovedRows} : Resolved(r)}}

\* Components::build: everything a partition or a relation links to a market
Links == {p.markets : p \in Partitions} \cup {{r.a, r.b} : r \in Relations}
ComponentOf(m) ==
  {x \in Known : \A s \in SUBSET Known :
     (m \in s /\ \A l \in Links : l \cap s # {} => l \subseteq s) => x \in s}

\* build_component_index
Entry(ms) ==
  [markets |-> ms,
   listed |-> [m \in ms |-> TimesIn(Added, m)],
   partitions |->
     {[markets |-> p.markets, outcomes |-> p.outcomes, exhaustive |-> p.exhaustive] :
        p \in {p \in Partitions : /\ p.markets \subseteq ms /\ LengthOf(p.outcomes) >= 2
                                  /\ p.exhaustive \/ (NegRiskSets /\ p.negRisk)}},
   relations |-> {r \in Relations : r.a \in ms}]

Assemble ==
  /\ sync.phase = "lookups" /\ LookupsDone
  /\ registry' = IF FileRefused THEN Without("failed")
                 ELSE [state |-> "built",
                       components |-> {Entry(ms) : ms \in {ComponentOf(m) : m \in Known}}]
  /\ sync' = NoSync
  /\ UNCHANGED <<listing, engineVars>>

\* a detector and the books of its component
BooksArrive ==
  /\ setup = NoSetup
  /\ \E c \in registry.components : \E f \in Fees :
       /\ Cardinality(c.markets) \in DOMAIN Shapes
       /\ \E b \in [TokensOf(c.markets) -> Shapes[Cardinality(c.markets)]] :
            setup' = [component |-> c, fee |-> f, books |-> b]
  /\ UNCHANGED <<universeVars, basket, walking, opp>>

-----------------------------------------------------------------------------
UniverseInit ==
  /\ \E s \in Scenarios :
       /\ listing = s.listing
       /\ sync = [phase |-> "pages", page |-> 0, listed |-> {}, looked |-> <<>>,
                  file |-> s.file, filter |-> s.filter]
  /\ registry = Without("none") /\ setup = NoSetup
  /\ NothingDetected

DetectorStep == setup # NoSetup /\ Detection /\ UNCHANGED universeVars

UniverseNext ==
  \/ ReadPage \/ PagesRead \/ ReadFavoured \/ ReadFails \/ LookUp \/ Assemble
  \/ BooksArrive \/ DetectorStep

UniverseSpec == UniverseInit /\ [][UniverseNext]_allVars

-----------------------------------------------------------------------------
(* What the venue guarantees of its events: of a NegRisk event at most one *)
(* member wins, and exactly one if all members are open and are named      *)
(* outcomes.                                                               *)
ListedEvents == UNION {Range(listing[i]) : i \in DOMAIN listing}
ConditionsOf(members) == {members[i].condition : i \in DOMAIN members}
IsNegRisk(e) == \E m \in Range(e.members) : m.negRisk
OneWins(e) ==
  /\ IsNegRisk(e) /\ Len(e.members) >= 2
  /\ \A m \in Range(e.members) : m.condition \in Open /\ m.question = "named"
Verdicts ==
  {w \in [comp.markets -> BOOLEAN] :
     /\ \A r \in comp.relations : Holds(w, r)
     /\ \A e \in ListedEvents :
          LET ms == ConditionsOf(e.members)
              won == Cardinality({m \in ms \cap comp.markets : w[m]})
          IN  /\ IsNegRisk(e) => won <= 1
              /\ (OneWins(e) /\ ms \subseteq comp.markets) => won = 1}

TakenWhole ==
  \A p \in comp.partitions : \E e \in ListedEvents : p.markets = ConditionsOf(e.members)

\* the venue lists no condition twice
ListedOnce ==
  \A p, q \in PlacesOf(listing) : ConditionAt(p) = ConditionAt(q) /\ ConditionAt(p) # NoCondition => p = q

\* Whatever its events resolve to, an opportunity pays at least the net it
\* is sent with, without rounding, and sells no share it does not have,
\* when the events of its partitions came into the universe whole and the
\* venue lists no condition twice: flags, questions, relations, splits,
\* fees, gas and every world are accounted for, whatever the solver answered
\* (derive_partition, load_relationships, build_component_index, class1 to
\* class3, walker.rs, exact_worst_net).
Riskless == (opp # NothingFound /\ TakenWhole /\ ListedOnce) => PaysIn(Verdicts)

\* "n NOs resolve to exactly $(n-1)" (class2.rs:54-57), also when a condition
\* is listed twice: it is false of the release build, which counts it twice.
SetsPay == (opp # NothingFound /\ TakenWhole) => PaysIn(Verdicts)

\* "The fetched SET is identical to a purely sequential walk": the waves
\* look up every condition that assembly comes to before its cap, and no
\* other, whichever lookups fail and whichever conditions are listed twice
\* (fetch_clob_bounded, sync.rs:893-900).
FetchIsTheWalk ==
  (sync.phase = "lookups" /\ LookupsDone) =>
    DOMAIN sync.looked = ConditionsAt({p \in Visits : Reached(p)})

\* A verified partition is a complete set (instrument.rs:35-37): no open
\* member of its event was left out of it.
VerifiedIsComplete ==
  \A p \in {p \in comp.partitions : p.exhaustive} : \A e \in ListedEvents :
    ConditionsOf(e.members) \cap p.markets # {} => ConditionsOf(e.members) \cap Open \subseteq p.markets
=============================================================================
