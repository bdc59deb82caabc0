------------------------------- MODULE Worlds -------------------------------
(***************************************************************************)
(* Which outcomes a component of markets can resolve to, and what pays in  *)
(* them (crates/engine/src/lp.rs and class3.rs, crates/core/src/           *)
(* instrument.rs).  A market is its id, a token is a market and a side, a  *)
(* world says which markets are true.  A component has markets, how often  *)
(* each is listed, partitions (of which at most one member is true,        *)
(* exactly one when verified exhaustive) and relations.                    *)
(***************************************************************************)
EXTENDS Integers, FiniteSets, FiniteSetsExt, Functions

YesOf(m) == <<m, "yes">>
NoOf(m)  == <<m, "no">>
TokensOf(ms) == {YesOf(m) : m \in ms} \cup {NoOf(m) : m \in ms}

\* a vector that names a market more than once: how often each, and its length
LengthOf(times) == SumFunctionOnSet(times, DOMAIN times)

\* its tokens of a side, the further ones of a market numbered
Lanes(times, side) ==
  {<<m, side>> : m \in DOMAIN times}
  \cup UNION {{<<m, side, i>> : i \in 2..times[m]} : m \in DOMAIN times}
TokenOf(lane) == <<lane[1], lane[2]>>

TokenPays(w, t) == w[t[1]] = (t[2] = "yes")

Holds(w, r) ==
  \/ r.kind = "Implies" /\ (w[r.a] => w[r.b])
  \/ r.kind = "MutuallyExclusive" /\ ~(w[r.a] /\ w[r.b])
  \/ r.kind = "Equivalent" /\ w[r.a] = w[r.b]

\* the pairs of which at least one pays in every world the relation allows
Pairs(r) ==
  CASE r.kind = "Implies" -> {{NoOf(r.a), YesOf(r.b)}}
    [] r.kind = "MutuallyExclusive" -> {{NoOf(r.a), NoOf(r.b)}}
    [] r.kind = "Equivalent" -> {{NoOf(r.a), YesOf(r.b)}, {NoOf(r.b), YesOf(r.a)}}

NoWinner == "none of these"

\* an unproven partition has one more choice: nobody wins
PartitionChoices(p) == p.markets \cup (IF p.exhaustive THEN {} ELSE {NoWinner})

\* the size of the product before the relations prune it: a market listed
\* again is free, and counts among the choices of its partition
FreeMarkets(c) == LengthOf(c.listed) - Cardinality(UNION {p.markets : p \in c.partitions})
PrePrune(c) ==
  FoldSet(LAMBDA p, n : (LengthOf(p.outcomes) + IF p.exhaustive THEN 0 ELSE 1) * n,
          2^FreeMarkets(c), c.partitions)

EnumerateWorlds(c) ==
  {w \in [c.markets -> BOOLEAN] :
     /\ \A p \in c.partitions : \E x \in PartitionChoices(p) :
          \A m \in p.markets : w[m] = (m = x)
     /\ \A r \in c.relations : Holds(w, r)}

(* The reference: what the venue can resolve to, counted. *)
Resolutions(c) ==
  {w \in [c.markets -> BOOLEAN] :
     /\ \A p \in c.partitions :
          Cardinality({m \in p.markets : w[m]}) \in IF p.exhaustive THEN {1} ELSE {0, 1}
     /\ \A r \in c.relations : Holds(w, r)}
=============================================================================
