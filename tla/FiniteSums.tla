----------------------------- MODULE FiniteSums -----------------------------
(***************************************************************************)
(* What the proofs need of finite sets: a set of numbers that is not empty *)
(* has a least one (the CHOOSE of First and Lowest, the first order and    *)
(* the lowest id of a loop, names an element of its set), a property that  *)
(* passes from the smaller subsets to the larger holds of all, a total     *)
(* over a set does not depend on the order in which MapThenSumSet picks    *)
(* its elements, and the recursive function behind FoldSet exists.         *)
(***************************************************************************)
EXTENDS Integers, FiniteSetsExt, FiniteSetTheorems, WellFoundedInduction, TLAPS

(* The least-number principle, for sets.                                   *)
LEMMA LeastExists ==
  ASSUME NEW S, S \subseteq Nat, S # {}
  PROVE  \E m \in S : \A k \in S : m <= k
<1>1. \E below : IsWellFoundedOn(below, Nat) /\ \A x, y \in Nat : x < y => <<x, y>> \in below
  <2>1. \A x, y \in Nat : x < y => <<x, y>> \in OpToRel(<, Nat)
    BY DEF OpToRel
  <2>2. QED
    BY <2>1, NatLessThanWellFounded, Zenon
<1>2. PICK below : IsWellFoundedOn(below, Nat) /\ \A x, y \in Nat : x < y => <<x, y>> \in below
  BY <1>1
<1>3. \E x \in S : \A y \in S : <<y, x>> \notin below
  <2>1. IsWellFoundedOn(below, Nat)
    BY <1>2
  <2>2. QED
    BY <2>1, WFMin, Zenon
<1>4. PICK m \in S : \A y \in S : <<y, m>> \notin below
  BY <1>3
<1>5. ASSUME NEW k \in S PROVE m <= k
  <2>1. ~ (k < m)
    BY <1>2, <1>4
  <2>2. QED
    BY <2>1
<1>6. QED
  BY <1>5

(* A function has no more values than arguments.                           *)
LEMMA ValuesFinite ==
  ASSUME NEW S, IsFiniteSet(S), NEW f
  PROVE  IsFiniteSet({f[x] : x \in S})
<1> DEFINE T == {f[x] : x \in S}
           g == [x \in S |-> f[x]]
<1>1. g \in Surjection(S, T)
  BY DEF Surjection
<1> HIDE DEF g
<1>2. QED
  BY <1>1, FS_Surjection

-----------------------------------------------------------------------------
(* Totals over a finite set.                                               *)

Pick(s) == CHOOSE x \in s : TRUE

\* the sum of f over S
Total(f, S) == MapThenSumSet(LAMBDA x : f[x], S)

\* g sums f over each of the sets D, one element at a time
Adds(g, f, D) ==
  g = [s \in D |-> IF s = {} THEN 0 ELSE f[Pick(s)] + g[s \ {Pick(s)}]]

Small(S, n) == {s \in SUBSET S : Cardinality(s) <= n}

(* Taking an element out of a finite set.                                  *)
LEMMA Shrinks ==
  ASSUME NEW s, IsFiniteSet(s), NEW x \in s
  PROVE  /\ IsFiniteSet(s \ {x}) /\ Cardinality(s \ {x}) \in Nat /\ Cardinality(s) \in Nat
         /\ Cardinality(s) = Cardinality(s \ {x}) + 1
<1>1. IsFiniteSet(s \ {x}) /\ Cardinality(s \ {x}) = Cardinality(s) - 1
  BY FS_RemoveElement, Zenon
<1>2. Cardinality(s \ {x}) \in Nat /\ Cardinality(s) \in Nat
  BY <1>1, FS_CardinalityType
<1>3. QED
  BY <1>1, <1>2

(* MapThenSumSet is a recursive function: there is one.                    *)
LEMMA TotalsExist ==
  ASSUME NEW f, NEW S, IsFiniteSet(S)
  PROVE  \E g : Adds(g, f, SUBSET S)
<1> DEFINE Bad == {n \in Nat : ~ \E g : Adds(g, f, Small(S, n))}
<1>0. \A s \in SUBSET S : IsFiniteSet(s) /\ Cardinality(s) \in Nat
  BY FS_Subset, FS_CardinalityType
<1>1. Bad = {}
  <2> SUFFICES ASSUME Bad # {} PROVE FALSE
    OBVIOUS
  <2>1. PICK m \in Bad : \A k \in Bad : m <= k
    <3>1. Bad \subseteq Nat
      OBVIOUS
    <3> HIDE DEF Bad
    <3>2. QED
      BY <3>1, LeastExists
  <2>2. m # 0
    <3>1. Small(S, 0) \subseteq {{}}
      BY <1>0, FS_EmptySet DEF Small
    <3>2. Adds([s \in Small(S, 0) |-> 0], f, Small(S, 0))
      BY <3>1 DEF Adds
    <3>3. QED
      BY <3>2
  <2>3. m \in Nat /\ m - 1 \in Nat
    BY <2>2
  <2>4. m - 1 \notin Bad
    <3>1. ~ (m <= m - 1)
      BY <2>3
    <3> HIDE DEF Bad
    <3>2. QED
      BY <3>1, <2>1
  <2>5. PICK g : Adds(g, f, Small(S, m - 1))
    BY <2>3, <2>4
  <2> DEFINE h == [s \in Small(S, m) |-> IF s = {} THEN 0 ELSE f[Pick(s)] + g[s \ {Pick(s)}]]
  <2>6. \A s \in Small(S, m) : s # {} =>
           /\ Pick(s) \in s /\ s \ {Pick(s)} \in Small(S, m - 1)
           /\ s \ {Pick(s)} \in Small(S, m)
    <3> TAKE s \in Small(S, m)
    <3> HAVE s # {}
    <3>1. Pick(s) \in s
      BY DEF Pick
    <3>2. s \in SUBSET S /\ Cardinality(s) <= m
      BY DEF Small
    <3>3. IsFiniteSet(s)
      BY <3>2, <1>0
    <3>4. Cardinality(s \ {Pick(s)}) <= m - 1 /\ Cardinality(s \ {Pick(s)}) <= m
      BY <3>1, <3>2, <3>3, <2>3, Shrinks
    <3>5. QED
      BY <3>1, <3>2, <3>4 DEF Small
  <2>7. \A s \in Small(S, m - 1) : g[s] = h[s]
    <3> TAKE s \in Small(S, m - 1)
    <3>1. s \in Small(S, m)
      BY <1>0, <2>3 DEF Small
    <3>2. g[s] = IF s = {} THEN 0 ELSE f[Pick(s)] + g[s \ {Pick(s)}]
      BY <2>5 DEF Adds
    <3>3. QED
      BY <3>1, <3>2
  <2>8. Adds(h, f, Small(S, m))
    <3>1. \A s \in Small(S, m) : s # {} => g[s \ {Pick(s)}] = h[s \ {Pick(s)}]
      BY <2>6, <2>7
    <3>2. h = [s \in Small(S, m) |-> IF s = {} THEN 0 ELSE f[Pick(s)] + h[s \ {Pick(s)}]]
      BY <3>1
    <3> HIDE DEF h
    <3>3. QED
      BY <3>2 DEF Adds
  <2>9. QED
    BY <2>1, <2>8
<1>2. Small(S, Cardinality(S)) = SUBSET S /\ Cardinality(S) \in Nat
  BY <1>0, FS_Subset DEF Small
<1>3. QED
  <2>1. Cardinality(S) \notin Bad
    BY <1>1
  <2>2. QED
    BY <2>1, <1>2

(* Induction on the subsets of a finite set: G is the set of the good ones. *)
LEMMA SubsetInduction ==
  ASSUME NEW S, IsFiniteSet(S), NEW G,
         \A s \in SUBSET S : (\A x \in s : s \ {x} \in G) => s \in G
  PROVE  SUBSET S \subseteq G
<1> DEFINE Bad == {n \in Nat : \E s \in SUBSET S : s \notin G /\ Cardinality(s) = n}
<1>1. \A s \in SUBSET S : IsFiniteSet(s) /\ Cardinality(s) \in Nat
  BY FS_Subset, FS_CardinalityType
<1>2. SUFFICES ASSUME Bad # {} PROVE FALSE
  BY <1>1
<1>3. PICK m \in Bad : \A k \in Bad : m <= k
  <2>1. Bad \subseteq Nat
    OBVIOUS
  <2> HIDE DEF Bad
  <2>2. QED
    BY <1>2, <2>1, LeastExists
<1>4. PICK s \in SUBSET S : s \notin G /\ Cardinality(s) = m
  BY <1>3
<1>5. ASSUME NEW x \in s PROVE s \ {x} \in G
  <2>1. /\ Cardinality(s \ {x}) \in Nat /\ m \in Nat
        /\ m = Cardinality(s \ {x}) + 1
    BY <1>1, <1>4, Shrinks
  <2>2. ~ (m <= Cardinality(s \ {x}))
    BY <2>1
  <2>3. Cardinality(s \ {x}) \notin Bad
    BY <2>2, <1>3
  <2>4. QED
    BY <2>1, <2>3
<1>6. QED
  BY <1>4, <1>5

(* A non-empty finite set of numbers has a greatest element.               *)
LEMMA GreatestExists ==
  ASSUME NEW S, S \subseteq Nat, S # {}, IsFiniteSet(S)
  PROVE  \E m \in S : \A k \in S : k <= m
<1> DEFINE G == {s \in SUBSET S : s = {} \/ \E m \in s : \A k \in s : k <= m}
<1>1. ASSUME NEW s \in SUBSET S, \A x \in s : s \ {x} \in G
      PROVE  s \in G
  <2>1. CASE s = {}
    BY <2>1
  <2>2. ASSUME NEW x \in s, s \ {x} = {} PROVE s \in G
    <3>1. x \in Nat /\ \A k \in s : k = x
      BY <2>2
    <3>2. \A k \in s : k <= x
      BY <3>1
    <3>3. QED
      BY <3>2
  <2>3. ASSUME NEW x \in s, NEW m \in s \ {x}, \A k \in s \ {x} : k <= m PROVE s \in G
    <3>1. x \in Nat /\ m \in Nat /\ s \subseteq Nat
      OBVIOUS
    <3>2. CASE x <= m
      <4>1. \A k \in s : k <= m
        BY <2>3, <3>2
      <4>2. QED
        BY <4>1
    <3>3. CASE m <= x
      <4>1. \A k \in s : k <= x
        BY <2>3, <3>1, <3>3
      <4>2. QED
        BY <4>1
    <3>4. QED
      BY <3>1, <3>2, <3>3
  <2>4. ASSUME NEW x \in s PROVE s \in G
    <3>1. s \ {x} = {} \/ \E m \in s \ {x} : \A k \in s \ {x} : k <= m
      BY <1>1
    <3>2. QED
      BY <3>1, <2>2, <2>3
  <2>5. QED
    BY <2>1, <2>4
<1> HIDE DEF G
<1>2. SUBSET S \subseteq G
  BY <1>1, SubsetInduction
<1>3. QED
  BY <1>2 DEF G

(* Whatever a total order ranks, a finite set has a last one.  R holds the *)
(* pairs <<n, m>> of an n that comes before m.                             *)
LEMMA LastInOrder ==
  ASSUME NEW S, IsFiniteSet(S), NEW R,
         \A m \in S, n \in S : m # n => <<m, n>> \in R \/ <<n, m>> \in R,
         \A k \in S, m \in S, n \in S : <<k, m>> \in R /\ <<m, n>> \in R => <<k, n>> \in R,
         NEW s \in SUBSET S, s # {}
  PROVE  \E m \in s : \A n \in s \ {m} : <<n, m>> \in R
<1> DEFINE G == {u \in SUBSET S : u = {} \/ \E m \in u : \A n \in u \ {m} : <<n, m>> \in R}
<1>1. ASSUME NEW u \in SUBSET S, \A x \in u : u \ {x} \in G
      PROVE  u \in G
  <2>1. ASSUME NEW x \in u, u \ {x} = {} PROVE u \in G
    <3>1. \A n \in u \ {x} : <<n, x>> \in R
      BY <2>1
    <3>2. QED
      BY <3>1
  <2>2. ASSUME NEW x \in u, NEW m \in u \ {x}, \A n \in (u \ {x}) \ {m} : <<n, m>> \in R PROVE u \in G
    <3>1. CASE <<x, m>> \in R
      <4>1. \A n \in u \ {m} : <<n, m>> \in R
        BY <2>2, <3>1
      <4>2. QED
        BY <4>1, <2>2
    <3>2. CASE <<m, x>> \in R
      <4>1. \A n \in u \ {x} : <<n, x>> \in R
        BY <2>2, <3>2
      <4>2. QED
        BY <4>1
    <3>3. QED
      BY <2>2, <3>1, <3>2
  <2>3. ASSUME NEW x \in u PROVE u \in G
    <3>1. u \ {x} = {} \/ \E m \in u \ {x} : \A n \in (u \ {x}) \ {m} : <<n, m>> \in R
      BY <1>1
    <3>2. QED
      BY <3>1, <2>1, <2>2
  <2>4. CASE u = {}
    BY <2>4
  <2>5. QED
    BY <2>3, <2>4
<1>2. SUBSET S \subseteq G
  <2> HIDE DEF G
  <2>1. QED
    BY <1>1, SubsetInduction
<1>3. QED
  BY <1>2

(* The total is the value of such a function.                              *)
LEMMA TotalIs ==
  ASSUME NEW f, NEW S, IsFiniteSet(S)
  PROVE  \E g : Adds(g, f, SUBSET S) /\ Total(f, S) = g[S]
<1>1. Total(f, S) = (CHOOSE g : Adds(g, f, SUBSET S))[S]
  BY Zenon DEF Total, Adds, Pick, MapThenSumSet, MapThenFoldSet
<1>2. QED
  BY <1>1, TotalsExist, Zenon

(* It depends on the values of f in the set, and on nothing else.          *)
LEMMA TotalsAgree ==
  ASSUME NEW f, NEW h, NEW S, IsFiniteSet(S), NEW T \in SUBSET S, \A x \in T : f[x] = h[x],
         NEW a, NEW b, Adds(a, f, SUBSET S), Adds(b, h, SUBSET T)
  PROVE  a[T] = b[T]
<1> DEFINE G == {s \in SUBSET T : a[s] = b[s]}
<1>1. ASSUME NEW s \in SUBSET T, \A x \in s : s \ {x} \in G
      PROVE  s \in G
  <2>1. CASE s = {}
    BY <2>1 DEF Adds
  <2>2. CASE s # {}
    <3>1. Pick(s) \in s
      BY <2>2 DEF Pick
    <3>2. a[s] = f[Pick(s)] + a[s \ {Pick(s)}] /\ b[s] = h[Pick(s)] + b[s \ {Pick(s)}]
      BY <2>2 DEF Adds
    <3>3. a[s \ {Pick(s)}] = b[s \ {Pick(s)}]
      BY <3>1, <1>1
    <3>4. QED
      BY <3>1, <3>2, <3>3
  <2>3. QED
    BY <2>1, <2>2
<1>2. IsFiniteSet(T)
  BY FS_Subset
<1> HIDE DEF G
<1>3. SUBSET T \subseteq G
  BY <1>1, <1>2, SubsetInduction
<1>4. QED
  BY <1>3 DEF G

(* Numbers add up to a number.                                             *)
LEMMA TotalsType ==
  ASSUME NEW f, NEW S, IsFiniteSet(S), NEW V, V \in {Nat, Int}, \A x \in S : f[x] \in V,
         NEW g, Adds(g, f, SUBSET S)
  PROVE  \A s \in SUBSET S : g[s] \in V
<1> DEFINE G == {s \in SUBSET S : g[s] \in V}
<1>1. ASSUME NEW s \in SUBSET S, \A x \in s : s \ {x} \in G
      PROVE  s \in G
  <2>1. CASE s = {}
    BY <2>1 DEF Adds
  <2>2. CASE s # {}
    <3>1. Pick(s) \in s
      BY <2>2 DEF Pick
    <3>2. g[s] = f[Pick(s)] + g[s \ {Pick(s)}]
      BY <2>2 DEF Adds
    <3>3. g[s \ {Pick(s)}] \in V /\ f[Pick(s)] \in V
      BY <3>1, <1>1
    <3>4. g[s] \in V
      BY <3>2, <3>3
    <3>5. QED
      BY <3>4
  <2>3. QED
    BY <2>1, <2>2
<1> HIDE DEF G
<1>2. SUBSET S \subseteq G
  BY <1>1, SubsetInduction
<1>3. QED
  BY <1>2 DEF G

(* The order in which the elements are added does not matter.              *)
LEMMA TotalsTake ==
  ASSUME NEW f, NEW S, IsFiniteSet(S), \A x \in S : f[x] \in Int,
         NEW g, Adds(g, f, SUBSET S), NEW s \in SUBSET S, NEW y \in s
  PROVE  g[s] = f[y] + g[s \ {y}]
<1> DEFINE G == {r \in SUBSET S : \A z \in r : g[r] = f[z] + g[r \ {z}]}
<1>1. ASSUME NEW t \in SUBSET S, \A x \in t : t \ {x} \in G
      PROVE  t \in G
  <2> SUFFICES ASSUME NEW z \in t PROVE g[t] = f[z] + g[t \ {z}]
    OBVIOUS
  <2> DEFINE x == Pick(t)
  <2>1. x \in t
    BY DEF Pick
  <2>2. g[t] = f[x] + g[t \ {x}]
    BY DEF Adds
  <2> HIDE DEF x
  <2>3. CASE x = z
    BY <2>2, <2>3
  <2>4. CASE x # z
    <3>1. z \in t \ {x} /\ x \in t \ {z}
      BY <2>1, <2>4
    <3>2. g[t \ {x}] = f[z] + g[(t \ {x}) \ {z}]
      BY <3>1, <2>1, <1>1
    <3>3. g[t \ {z}] = f[x] + g[(t \ {z}) \ {x}]
      BY <3>1, <1>1
    <3>4. (t \ {x}) \ {z} = (t \ {z}) \ {x}
      OBVIOUS
    <3>5. f[x] \in Int /\ f[z] \in Int /\ g[(t \ {x}) \ {z}] \in Int
      <4>1. \A r \in SUBSET S : g[r] \in Int
        BY TotalsType
      <4>2. QED
        BY <4>1, <2>1
    <3>6. g[(t \ {z}) \ {x}] = g[(t \ {x}) \ {z}]
      BY <3>4, Zenon
    <3> DEFINE rest == g[(t \ {x}) \ {z}]
    <3>7. rest \in Int /\ g[t] = f[x] + (f[z] + rest) /\ g[t \ {z}] = f[x] + rest
      BY <2>2, <3>2, <3>3, <3>5, <3>6, Zenon
    <3> HIDE DEF rest
    <3>8. f[z] + (f[x] + rest) = f[x] + (f[z] + rest)
      BY <3>5, <3>7
    <3>9. QED
      BY <3>7, <3>8, Zenon
  <2>5. QED
    BY <2>3, <2>4
<1> HIDE DEF G
<1>2. SUBSET S \subseteq G
  BY <1>1, SubsetInduction
<1>3. QED
  BY <1>2 DEF G

-----------------------------------------------------------------------------
(* What the proofs about components use.                                   *)

LEMMA TotalEmpty == ASSUME NEW f PROVE Total(f, {}) = 0
<1>1. PICK g : Adds(g, f, SUBSET {}) /\ Total(f, {}) = g[{}]
  BY TotalIs, FS_EmptySet
<1>2. QED
  BY <1>1 DEF Adds

LEMMA TotalAgree ==
  ASSUME NEW f, NEW h, NEW S, IsFiniteSet(S), \A x \in S : f[x] = h[x]
  PROVE  Total(f, S) = Total(h, S)
<1>1. PICK g : Adds(g, f, SUBSET S) /\ Total(f, S) = g[S]
  BY TotalIs
<1>2. PICK k : Adds(k, h, SUBSET S) /\ Total(h, S) = k[S]
  BY TotalIs
<1>3. g[S] = k[S]
  BY <1>1, <1>2, TotalsAgree
<1>4. QED
  BY <1>1, <1>2, <1>3

LEMMA TotalType ==
  ASSUME NEW f, NEW S, IsFiniteSet(S), NEW V, V \in {Nat, Int}, \A x \in S : f[x] \in V
  PROVE  Total(f, S) \in V
<1>1. PICK g : Adds(g, f, SUBSET S) /\ Total(f, S) = g[S]
  BY TotalIs
<1>2. QED
  BY <1>1, TotalsType

LEMMA TotalTake ==
  ASSUME NEW f, NEW S, IsFiniteSet(S), \A x \in S : f[x] \in Int, NEW y \in S
  PROVE  Total(f, S) = f[y] + Total(f, S \ {y})
<1>1. PICK g : Adds(g, f, SUBSET S) /\ Total(f, S) = g[S]
  BY TotalIs
<1> DEFINE T == S \ {y}
<1>2. T \in SUBSET S /\ IsFiniteSet(T)
  BY FS_Subset
<1>3. g[S] = f[y] + g[T]
  <2>1. S \in SUBSET S /\ y \in S
    OBVIOUS
  <2>2. g[S] = f[y] + g[S \ {y}]
    BY ONLY <1>1, <2>1, IsFiniteSet(S), \A x \in S : f[x] \in Int, TotalsTake
  <2>3. QED
    BY <2>2
<1> HIDE DEF T
<1>4. PICK h : Adds(h, f, SUBSET T) /\ Total(f, T) = h[T]
  BY <1>2, TotalIs
<1>5. g[T] = h[T]
  <2>1. \A x \in T : f[x] = f[x]
    OBVIOUS
  <2>2. QED
    BY ONLY IsFiniteSet(S), <1>1, <1>2, <1>4, <2>1, TotalsAgree
<1>6. QED
  BY <1>1, <1>3, <1>4, <1>5 DEF T

(* One value of the function changes.                                      *)
LEMMA TotalChange ==
  ASSUME NEW f, NEW S, IsFiniteSet(S), NEW y \in S, NEW h,
         \A x \in S : f[x] \in Int /\ h[x] \in Int, \A x \in S \ {y} : f[x] = h[x]
  PROVE  Total(h, S) = Total(f, S) - f[y] + h[y]
<1>1. Total(f, S) = f[y] + Total(f, S \ {y}) /\ Total(h, S) = h[y] + Total(h, S \ {y})
  BY TotalTake
<1>2. IsFiniteSet(S \ {y})
  BY FS_Subset
<1>3. Total(f, S \ {y}) = Total(h, S \ {y}) /\ Total(f, S \ {y}) \in Int
  BY <1>2, TotalAgree, TotalType
<1>4. QED
  BY <1>1, <1>3

(* Elements that count for nothing may be left out.                        *)
LEMMA TotalSupport ==
  ASSUME NEW f, NEW S, IsFiniteSet(S), NEW T \in SUBSET S,
         \A x \in S : f[x] \in Int, \A x \in S \ T : f[x] = 0
  PROVE  Total(f, S) = Total(f, T)
<1> DEFINE G == {s \in SUBSET S : Total(f, s) = Total(f, s \cap T)}
<1>1. ASSUME NEW s \in SUBSET S, \A x \in s : s \ {x} \in G
      PROVE  s \in G
  <2>1. CASE s \subseteq T
    <3>1. s \cap T = s
      BY <2>1
    <3>2. QED
      BY <3>1
  <2>2. ASSUME NEW x \in s, x \notin T PROVE s \in G
    <3>1. (s \ {x}) \cap T = s \cap T /\ s \ {x} \in G
      BY <2>2, <1>1
    <3>2. IsFiniteSet(s) /\ IsFiniteSet(s \ {x}) /\ \A y \in s : f[y] \in Int
      BY FS_Subset
    <3>3. Total(f, s) = f[x] + Total(f, s \ {x}) /\ f[x] = 0
      BY <3>2, <2>2, TotalTake
    <3>4. Total(f, s \ {x}) \in Int
      BY <3>2, TotalType
    <3>5. Total(f, s) = Total(f, s \ {x})
      BY <3>3, <3>4
    <3>6. QED
      BY <3>1, <3>5
  <2>3. QED
    BY <2>1, <2>2
<1> HIDE DEF G
<1>2. SUBSET S \subseteq G
  BY <1>1, SubsetInduction
<1>3. S \cap T = T
  OBVIOUS
<1>4. QED
  BY <1>2, <1>3 DEF G
(* A total of sums is the sum of the totals.                               *)
LEMMA TotalPlus ==
  ASSUME NEW f, NEW g, NEW h, NEW S, IsFiniteSet(S),
         \A x \in S : f[x] \in Int /\ g[x] \in Int /\ h[x] \in Int /\ f[x] = g[x] + h[x]
  PROVE  Total(f, S) = Total(g, S) + Total(h, S)
<1> DEFINE G == {s \in SUBSET S : Total(f, s) = Total(g, s) + Total(h, s)}
<1>1. ASSUME NEW s \in SUBSET S, \A x \in s : s \ {x} \in G
      PROVE  s \in G
  <2>1. CASE s = {}
    <3>1. Total(f, s) = 0 /\ Total(g, s) = 0 /\ Total(h, s) = 0
      BY <2>1, TotalEmpty
    <3>2. QED
      BY <3>1
  <2>2. ASSUME NEW x \in s PROVE s \in G
    <3>1. IsFiniteSet(s) /\ IsFiniteSet(s \ {x})
      BY FS_Subset
    <3>2. /\ Total(f, s) = f[x] + Total(f, s \ {x})
          /\ Total(g, s) = g[x] + Total(g, s \ {x})
          /\ Total(h, s) = h[x] + Total(h, s \ {x})
      BY <3>1, <2>2, TotalTake
    <3>3. Total(f, s \ {x}) = Total(g, s \ {x}) + Total(h, s \ {x})
      BY <1>1, <2>2
    <3>4. Total(g, s \ {x}) \in Int /\ Total(h, s \ {x}) \in Int
      BY <3>1, TotalType
    <3>5. QED
      BY <3>2, <3>3, <3>4
  <2>3. QED
    BY <2>1, <2>2
<1> HIDE DEF G
<1>2. SUBSET S \subseteq G
  BY <1>1, SubsetInduction
<1>3. QED
  BY <1>2 DEF G

(* What is no more at any element is no more in total.                     *)
LEMMA TotalLess ==
  ASSUME NEW f, NEW h, NEW S, IsFiniteSet(S),
         \A x \in S : f[x] \in Int /\ h[x] \in Int /\ f[x] <= h[x]
  PROVE  Total(f, S) <= Total(h, S)
<1> DEFINE rest == [x \in S |-> h[x] - f[x]]
<1>1. \A x \in S : rest[x] \in Nat /\ rest[x] \in Int /\ h[x] = f[x] + rest[x]
  OBVIOUS
<1> HIDE DEF rest
<1>2. Total(h, S) = Total(f, S) + Total(rest, S)
  BY <1>1, TotalPlus
<1>3. Total(rest, S) \in Nat /\ Total(f, S) \in Int
  BY <1>1, TotalType
<1>4. QED
  BY <1>2, <1>3

(* All elements but one count for nothing.                                 *)
LEMMA TotalOne ==
  ASSUME NEW f, NEW S, IsFiniteSet(S), NEW y \in S,
         \A x \in S : f[x] \in Int, \A x \in S \ {y} : f[x] = 0
  PROVE  Total(f, S) = f[y]
<1>1. Total(f, S) = Total(f, {y})
  BY TotalSupport
<1>2. Total(f, {y}) = f[y] + Total(f, {y} \ {y})
  BY FS_Singleton, TotalTake
<1>3. {y} \ {y} = {} /\ f[y] \in Int
  OBVIOUS
<1>4. QED
  BY <1>1, <1>2, <1>3, TotalEmpty

(* Nothing anywhere is nothing in total.                                   *)
LEMMA TotalZero ==
  ASSUME NEW f, NEW S, IsFiniteSet(S), \A x \in S : f[x] = 0
  PROVE  Total(f, S) = 0
<1>1. Total(f, S) = Total(f, {})
  BY TotalSupport
<1>2. QED
  BY <1>1, TotalEmpty

(* With every sign turned, so is the total's.                              *)
LEMMA TotalMinus ==
  ASSUME NEW f, NEW g, NEW S, IsFiniteSet(S),
         \A x \in S : f[x] \in Int /\ g[x] \in Int /\ f[x] = -g[x]
  PROVE  Total(f, S) = -Total(g, S)
<1> DEFINE z == [x \in S |-> 0]
<1>1. \A x \in S : z[x] \in Int /\ f[x] \in Int /\ g[x] \in Int /\ z[x] = f[x] + g[x]
  OBVIOUS
<1>2. \A x \in S : z[x] = 0
  OBVIOUS
<1> HIDE DEF z
<1>3. Total(z, S) = Total(f, S) + Total(g, S)
  BY <1>1, TotalPlus
<1>4. Total(z, S) = 0
  BY <1>2, TotalZero
<1>5. Total(f, S) \in Int /\ Total(g, S) \in Int
  BY TotalType
<1>6. QED
  BY <1>3, <1>4, <1>5

(* Every element counts k times as much.                                   *)
LEMMA TotalTimes ==
  ASSUME NEW f, NEW g, NEW S, IsFiniteSet(S), NEW k \in Int,
         \A x \in S : f[x] \in Int /\ g[x] = k * f[x]
  PROVE  Total(g, S) = k * Total(f, S)
<1> DEFINE G == {s \in SUBSET S : Total(g, s) = k * Total(f, s)}
<1>1. ASSUME NEW s \in SUBSET S, \A x \in s : s \ {x} \in G
      PROVE  s \in G
  <2>1. CASE s = {}
    <3>1. Total(f, s) = 0 /\ Total(g, s) = 0
      BY <2>1, TotalEmpty
    <3>2. QED
      BY <3>1
  <2>2. ASSUME NEW x \in s PROVE s \in G
    <3>1. IsFiniteSet(s) /\ IsFiniteSet(s \ {x}) /\ \A y \in s : f[y] \in Int /\ g[y] \in Int
      BY FS_Subset
    <3>2. Total(f, s) = f[x] + Total(f, s \ {x}) /\ Total(g, s) = g[x] + Total(g, s \ {x})
      BY <3>1, <2>2, TotalTake
    <3>3. Total(g, s \ {x}) = k * Total(f, s \ {x})
      BY <1>1, <2>2
    <3>4. Total(f, s \ {x}) \in Int /\ f[x] \in Int /\ g[x] = k * f[x]
      BY <3>1, TotalType
    <3>5. k * (f[x] + Total(f, s \ {x})) = k * f[x] + k * Total(f, s \ {x})
      BY <3>4
    <3>6. QED
      BY <3>2, <3>3, <3>4, <3>5
  <2>3. QED
    BY <2>1, <2>2
<1> HIDE DEF G
<1>2. SUBSET S \subseteq G
  BY <1>1, SubsetInduction
<1>3. QED
  BY <1>2 DEF G

(* Every element counts the same.                                          *)
LEMMA TotalSame ==
  ASSUME NEW f, NEW S, IsFiniteSet(S), NEW k \in Int, \A x \in S : f[x] = k
  PROVE  Total(f, S) = k * Cardinality(S)
<1> DEFINE G == {s \in SUBSET S : Total(f, s) = k * Cardinality(s)}
<1>1. ASSUME NEW s \in SUBSET S, \A x \in s : s \ {x} \in G
      PROVE  s \in G
  <2>1. CASE s = {}
    <3>1. Total(f, s) = 0 /\ Cardinality(s) = 0
      BY <2>1, TotalEmpty, FS_EmptySet
    <3>2. QED
      BY <2>1, <3>1
  <2>2. ASSUME NEW x \in s PROVE s \in G
    <3>1. IsFiniteSet(s)
      BY FS_Subset
    <3>2. \A y \in s : f[y] \in Int
      OBVIOUS
    <3>3. Total(f, s) = k + Total(f, s \ {x})
      BY <3>1, <3>2, <2>2, TotalTake
    <3>4. Total(f, s \ {x}) = k * Cardinality(s \ {x})
      BY <1>1, <2>2
    <3>5. Cardinality(s \ {x}) \in Nat /\ Cardinality(s) = Cardinality(s \ {x}) + 1
      BY <3>1, <2>2, Shrinks
    <3>6. k * (Cardinality(s \ {x}) + 1) = k * Cardinality(s \ {x}) + k
      BY <3>5
    <3>7. QED
      BY <3>3, <3>4, <3>5, <3>6
  <2>3. QED
    BY <2>1, <2>2
<1> HIDE DEF G
<1>2. SUBSET S \subseteq G
  BY <1>1, SubsetInduction
<1>3. QED
  BY <1>2 DEF G

(* Some elements are counted with one function, the rest with another.     *)
LEMMA TotalParts ==
  ASSUME NEW f, NEW S, IsFiniteSet(S), NEW A \in SUBSET S, NEW B \in SUBSET S,
         A \cap B = {}, A \cup B = S, \A x \in S : f[x] \in Int
  PROVE  Total(f, S) = Total(f, A) + Total(f, B)
<1> DEFINE a == [x \in S |-> IF x \in A THEN f[x] ELSE 0]
           b == [x \in S |-> IF x \in B THEN f[x] ELSE 0]
<1>1. \A x \in S : f[x] \in Int /\ a[x] \in Int /\ b[x] \in Int /\ f[x] = a[x] + b[x]
  OBVIOUS
<1>2. /\ \A x \in A : a[x] = f[x]
      /\ \A x \in B : b[x] = f[x]
      /\ \A x \in S \ A : a[x] = 0
      /\ \A x \in S \ B : b[x] = 0
  OBVIOUS
<1> HIDE DEF a, b
<1>3. Total(f, S) = Total(a, S) + Total(b, S)
  BY <1>1, TotalPlus
<1>4. Total(a, S) = Total(a, A) /\ Total(b, S) = Total(b, B)
  BY <1>1, <1>2, TotalSupport
<1>5. IsFiniteSet(A) /\ IsFiniteSet(B)
  BY FS_Subset
<1>6. Total(a, A) = Total(f, A) /\ Total(b, B) = Total(f, B)
  BY <1>2, <1>5, TotalAgree
<1>7. QED
  BY <1>3, <1>4, <1>6

-----------------------------------------------------------------------------
(* A finite set of integers has a least one.                               *)
LEMMA LowestExists ==
  ASSUME NEW S, S \subseteq Int, S # {}, IsFiniteSet(S)
  PROVE  \E m \in S : \A k \in S : m <= k
<1> DEFINE R == {e \in Int \X Int : e[1] > e[2]}
<1>1. \A m, n \in Int : <<m, n>> \in R <=> m > n
  OBVIOUS
<1> HIDE DEF R
<1>2. \A m \in S, n \in S : m # n => <<m, n>> \in R \/ <<n, m>> \in R
  BY <1>1
<1>3. \A k \in S, m \in S, n \in S : <<k, m>> \in R /\ <<m, n>> \in R => <<k, n>> \in R
  BY <1>1
<1>4. S \in SUBSET S
  OBVIOUS
<1>5. \E m \in S : \A n \in S \ {m} : <<n, m>> \in R
  BY ONLY IsFiniteSet(S), S # {}, <1>2, <1>3, <1>4, LastInOrder
<1>6. PICK m \in S : \A n \in S \ {m} : <<n, m>> \in R
  BY <1>5
<1>7. ASSUME NEW k \in S PROVE m <= k
  <2>1. k \in Int /\ m \in Int
    OBVIOUS
  <2>2. CASE k = m
    BY <2>1, <2>2
  <2>3. CASE k # m
    <3>1. <<k, m>> \in R
      BY <1>6, <2>3
    <3>2. k > m
      BY <1>1, <2>1, <3>1
    <3>3. QED
      BY <2>1, <3>2
  <2>4. QED
    BY <2>2, <2>3
<1>8. QED
  BY <1>7

(* There are finitely many ways to say yes or no to finitely many things.  *)
LEMMA FunctionsFinite ==
  ASSUME NEW S, IsFiniteSet(S)
  PROVE  IsFiniteSet([S -> BOOLEAN])
<1> DEFINE F == [S -> BOOLEAN]
           h == [T \in SUBSET S |-> [x \in S |-> x \in T]]
<1>1. h \in [SUBSET S -> F]
  OBVIOUS
<1>2. ASSUME NEW w \in F PROVE \E T \in SUBSET S : h[T] = w
  <2> DEFINE T == {x \in S : w[x]}
  <2>1. T \in SUBSET S /\ h[T] = [x \in S |-> x \in T]
    OBVIOUS
  <2>2. [x \in S |-> x \in T] = w
    OBVIOUS
  <2>3. QED
    BY <2>1, <2>2
<1> HIDE DEF h, F
<1>3. h \in Surjection(SUBSET S, F)
  BY <1>1, <1>2 DEF Surjection
<1>4. IsFiniteSet(SUBSET S)
  BY FS_SUBSET
<1>5. QED
  BY <1>3, <1>4, FS_Surjection DEF F

-----------------------------------------------------------------------------
(* Totals over an interval: of a list of numbers.                          *)

(* The last one counts besides the others.                                 *)
LEMMA TotalUpTo ==
  ASSUME NEW f, NEW n \in Nat, \A i \in 1 .. n + 1 : f[i] \in Int
  PROVE  Total(f, 1 .. n + 1) = Total(f, 1 .. n) + f[n + 1]
<1>1. IsFiniteSet(1 .. n + 1) /\ IsFiniteSet(1 .. n)
  BY FS_Interval
<1>2. n + 1 \in 1 .. n + 1 /\ (1 .. n + 1) \ {n + 1} = 1 .. n
  OBVIOUS
<1>3. Total(f, 1 .. n + 1) = f[n + 1] + Total(f, (1 .. n + 1) \ {n + 1})
  BY <1>1, <1>2, TotalTake
<1>4. Total(f, 1 .. n) \in Int /\ f[n + 1] \in Int
  <2>1. \A i \in 1 .. n : f[i] \in Int
    OBVIOUS
  <2>2. QED
    BY <1>1, <1>2, <2>1, TotalType
<1>5. Total(f, 1 .. n + 1) = f[n + 1] + Total(f, 1 .. n)
  BY <1>2, <1>3, Zenon
<1>6. QED
  BY <1>4, <1>5

(* And so does the first: h is the list without it.                        *)
LEMMA TotalFrom ==
  ASSUME NEW f, NEW h, NEW n \in Nat, \A i \in 1 .. n + 1 : f[i] \in Int,
         \A i \in 1 .. n : h[i] = f[i + 1]
  PROVE  Total(f, 1 .. n + 1) = f[1] + Total(h, 1 .. n)
<1> DEFINE Bad == {k \in 0 .. n : Total(f, 1 .. k + 1) # f[1] + Total(h, 1 .. k)}
<1>1. SUFFICES Bad = {}
  OBVIOUS
<1>2. SUFFICES ASSUME Bad # {} PROVE FALSE
  OBVIOUS
<1>3. PICK m \in Bad : \A k \in Bad : m <= k
  <2>1. Bad \subseteq Nat
    OBVIOUS
  <2> HIDE DEF Bad
  <2>2. QED
    BY <1>2, <2>1, LeastExists
<1>4. m \in 0 .. n /\ Total(f, 1 .. m + 1) # f[1] + Total(h, 1 .. m)
  OBVIOUS
<1>5. m # 0
  <2>1. Total(f, 1 .. 0 + 1) = Total(f, 1 .. 0) + f[0 + 1]
    <3>1. \A i \in 1 .. 0 + 1 : f[i] \in Int
      OBVIOUS
    <3>2. QED
      BY <3>1, TotalUpTo
  <2>2. 1 .. 0 = {} /\ f[1] \in Int
    OBVIOUS
  <2>3. Total(f, {}) = 0 /\ Total(h, {}) = 0
    BY TotalEmpty
  <2>4. Total(f, 1 .. 0 + 1) = f[1] + Total(h, 1 .. 0)
    BY <2>1, <2>2, <2>3
  <2>5. QED
    BY <2>4, <1>4
<1>6. PICK k \in 0 .. n : m = k + 1
  BY <1>4, <1>5
<1>7. Total(f, 1 .. k + 1) = f[1] + Total(h, 1 .. k)
  <2>1. ~ (m <= k)
    BY <1>6
  <2>2. k \notin Bad
    BY <2>1, <1>3
  <2>3. QED
    BY <2>2
<1>8. Total(f, 1 .. (k + 1) + 1) = Total(f, 1 .. k + 1) + f[(k + 1) + 1]
  <2>1. k + 1 \in Nat /\ \A i \in 1 .. (k + 1) + 1 : f[i] \in Int
    BY <1>4, <1>6
  <2> HIDE DEF Bad
  <2>2. QED
    BY <2>1, TotalUpTo
<1>9. Total(h, 1 .. k + 1) = Total(h, 1 .. k) + h[k + 1] /\ Total(h, 1 .. k) \in Int
  <2>1. k \in Nat /\ \A i \in 1 .. k + 1 : h[i] \in Int
    BY <1>4, <1>6
  <2>2. IsFiniteSet(1 .. k) /\ \A i \in 1 .. k : h[i] \in Int
    <3>1. \A i \in 1 .. k : i \in 1 .. k + 1
      BY <1>4, <1>6
    <3>2. IsFiniteSet(1 .. k)
      BY <1>4, <1>6, FS_Interval
    <3>3. QED
      BY <2>1, <3>1, <3>2
  <2>3. Total(h, 1 .. k + 1) = Total(h, 1 .. k) + h[k + 1]
    BY <2>1, TotalUpTo
  <2>4. QED
    BY <2>2, <2>3, TotalType
<1>10. h[k + 1] = f[(k + 1) + 1] /\ f[1] \in Int /\ h[k + 1] \in Int
  BY <1>4, <1>6
<1> HIDE DEF Bad
<1>11. Total(f, 1 .. (k + 1) + 1) = f[1] + Total(h, 1 .. k + 1)
  BY <1>7, <1>8, <1>9, <1>10
<1>12. QED
  BY <1>4, <1>6, <1>11

-----------------------------------------------------------------------------
(* Folds over a finite set.                                                *)

\* g folds f over each of the sets D, one element at a time, p[s] first
FoldsWith(g, f, base, p, D) ==
  g = [s \in D |-> IF s = {} THEN base ELSE f[<<p[s], g[s \ {p[s]}]>>]]

(* FoldSet and FoldLeft too: there is a function that folds.               *)
LEMMA FoldsExist ==
  ASSUME NEW f, NEW base, NEW S, IsFiniteSet(S), NEW p, \A s \in SUBSET S : s # {} => p[s] \in s
  PROVE  \E g : FoldsWith(g, f, base, p, SUBSET S)
<1> DEFINE Bad == {n \in Nat : ~ \E g : FoldsWith(g, f, base, p, Small(S, n))}
<1>0. \A s \in SUBSET S : IsFiniteSet(s) /\ Cardinality(s) \in Nat
  BY FS_Subset, FS_CardinalityType
<1>1. Bad = {}
  <2> SUFFICES ASSUME Bad # {} PROVE FALSE
    OBVIOUS
  <2>1. PICK m \in Bad : \A k \in Bad : m <= k
    <3>1. Bad \subseteq Nat
      OBVIOUS
    <3> HIDE DEF Bad
    <3>2. QED
      BY <3>1, LeastExists
  <2>2. m # 0
    <3>1. Small(S, 0) \subseteq {{}}
      BY <1>0, FS_EmptySet DEF Small
    <3>2. FoldsWith([s \in Small(S, 0) |-> base], f, base, p, Small(S, 0))
      BY <3>1 DEF FoldsWith
    <3>3. QED
      BY <3>2
  <2>3. m \in Nat /\ m - 1 \in Nat
    BY <2>2
  <2>4. m - 1 \notin Bad
    <3>1. ~ (m <= m - 1)
      BY <2>3
    <3> HIDE DEF Bad
    <3>2. QED
      BY <3>1, <2>1
  <2>5. PICK g : FoldsWith(g, f, base, p, Small(S, m - 1))
    BY <2>3, <2>4
  <2> DEFINE h == [s \in Small(S, m) |-> IF s = {} THEN base ELSE f[<<p[s], g[s \ {p[s]}]>>]]
  <2>6. \A s \in Small(S, m) : s # {} =>
           /\ p[s] \in s /\ s \ {p[s]} \in Small(S, m - 1)
           /\ s \ {p[s]} \in Small(S, m)
    <3> TAKE s \in Small(S, m)
    <3> HAVE s # {}
    <3>1. p[s] \in s
      BY DEF Small
    <3>2. s \in SUBSET S /\ Cardinality(s) <= m
      BY DEF Small
    <3>3. IsFiniteSet(s)
      BY <3>2, <1>0
    <3>4. /\ Cardinality(s \ {p[s]}) \in Nat /\ Cardinality(s) \in Nat
          /\ Cardinality(s) = Cardinality(s \ {p[s]}) + 1
      BY <3>1, <3>3, Shrinks, Zenon
    <3>5. Cardinality(s \ {p[s]}) <= m - 1 /\ Cardinality(s \ {p[s]}) <= m
      BY <3>2, <3>4, <2>3
    <3>6. QED
      BY <3>1, <3>2, <3>5 DEF Small
  <2>7. \A s \in Small(S, m - 1) : g[s] = h[s]
    <3> TAKE s \in Small(S, m - 1)
    <3>1. s \in Small(S, m)
      BY <1>0, <2>3 DEF Small
    <3>2. g[s] = IF s = {} THEN base ELSE f[<<p[s], g[s \ {p[s]}]>>]
      BY <2>5 DEF FoldsWith
    <3>3. QED
      BY <3>1, <3>2
  <2>8. FoldsWith(h, f, base, p, Small(S, m))
    <3>1. \A s \in Small(S, m) : s # {} => g[s \ {p[s]}] = h[s \ {p[s]}]
      BY <2>6, <2>7
    <3>2. h = [s \in Small(S, m) |-> IF s = {} THEN base ELSE f[<<p[s], h[s \ {p[s]}]>>]]
      BY <3>1
    <3> HIDE DEF h
    <3>3. QED
      BY <3>2 DEF FoldsWith
  <2>9. QED
    BY <2>1, <2>8
<1>2. Small(S, Cardinality(S)) = SUBSET S /\ Cardinality(S) \in Nat
  BY <1>0, FS_Subset DEF Small
<1>3. PICK g : FoldsWith(g, f, base, p, Small(S, Cardinality(S)))
  <2>1. Cardinality(S) \notin Bad
    BY <1>1
  <2>2. QED
    BY <2>1, <1>2
<1>4. FoldsWith(g, f, base, p, SUBSET S)
  BY <1>2, <1>3, Zenon
<1>5. QED
  BY <1>4

(* A fold whose step stays in T has its values there.                      *)
LEMMA FoldsInto ==
  ASSUME NEW f, NEW base, NEW S, IsFiniteSet(S), NEW p, \A s \in SUBSET S : s # {} => p[s] \in s,
         NEW T, base \in T, \A x \in S, t \in T : f[<<x, t>>] \in T
  PROVE  \E g : FoldsWith(g, f, base, p, SUBSET S) /\ \A s \in SUBSET S : g[s] \in T
<1>1. PICK g : FoldsWith(g, f, base, p, SUBSET S)
  BY FoldsExist
<1>2. g[{}] = base /\ \A s \in SUBSET S : s # {} => g[s] = f[<<p[s], g[s \ {p[s]}]>>]
  BY <1>1 DEF FoldsWith
<1> DEFINE G == {s \in SUBSET S : g[s] \in T}
<1>3. ASSUME NEW s \in SUBSET S, \A x \in s : s \ {x} \in G
      PROVE  s \in G
  BY <1>2, <1>3
<1>4. SUBSET S \subseteq G
  <2> HIDE DEF G
  <2>1. QED
    BY <1>3, SubsetInduction
<1>5. QED
  BY <1>1, <1>4
=============================================================================
