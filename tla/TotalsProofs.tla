---------------------------- MODULE TotalsProofs ----------------------------
(***************************************************************************)
(* Lemmas about finite sums: the laws of a sum in any order, and what      *)
(* splits, scales, compares or counts one.                                 *)
(***************************************************************************)
EXTENDS Totals, FiniteSetTheorems, WellFoundedInduction, TLAPS

-----------------------------------------------------------------------------
(***************************************************************************)
(* Finite sets: induction, extremes and images.                            *)
(***************************************************************************)
\* Induction on a finite set, for a family of its subsets.
LEMMA SubsetInduction ==
    ASSUME NEW S, IsFiniteSet(S), NEW Good,
           \A T \in SUBSET S : (\A U \in (SUBSET T) \ {T} : U \in Good) => T \in Good
    PROVE  S \in Good
<1> SUFFICES ASSUME S \notin Good PROVE FALSE
  OBVIOUS
<1> DEFINE bad == {T \in SUBSET S : T \notin Good}
<1>1. bad \subseteq FiniteSubsetsOf(S) /\ bad # {}
  BY FS_FiniteSubsetsOfFinite
<1>2. PICK T \in bad : \A U \in bad : <<U, T>> \notin StrictSubsetOrdering(S)
  <2>1. IsWellFoundedOn(StrictSubsetOrdering(S), FiniteSubsetsOf(S))
    BY FS_StrictSubsetOrderingWellFounded
  <2> HIDE DEF bad
  <2> QED
    BY <1>1, <2>1, WFMin
<1>3. \A U \in (SUBSET T) \ {T} : U \in Good
  BY <1>2 DEF StrictSubsetOrdering
<1> QED
  BY <1>2, <1>3

First(s) == CHOOSE x \in s : TRUE
Sums(f, g, D) ==
    \A s \in D : g[s] = IF s = {} THEN 0 ELSE f[First(s)] + g[s \ {First(s)}]

LEMMA FirstIsElement ==
    ASSUME NEW s, s # {}
    PROVE  First(s) \in s
  BY DEF First

\* The fold that Total is exists.
LEMMA SumsExist ==
    ASSUME NEW S, IsFiniteSet(S), NEW f \in [S -> Nat]
    PROVE  \E g \in [SUBSET S -> Nat] : Sums(f, g, SUBSET S)
<1> DEFINE upTo(n) == {s \in SUBSET S : Cardinality(s) <= n}
           bad == {n \in Nat : ~\E g \in [upTo(n) -> Nat] : Sums(f, g, upTo(n))}
<1>1. \A s \in SUBSET S : IsFiniteSet(s) /\ Cardinality(s) \in Nat /\ Cardinality(s) <= Cardinality(S)
  BY FS_Subset, FS_CardinalityType
<1>2. \A s \in SUBSET S : Cardinality(s) = 0 <=> s = {}
  BY <1>1, FS_EmptySet
<1>3. \A s \in SUBSET S : s # {} =>
         /\ First(s) \in S /\ s \ {First(s)} \in SUBSET S
         /\ Cardinality(s \ {First(s)}) = Cardinality(s) - 1
  <2> SUFFICES ASSUME NEW s \in SUBSET S, s # {}
               PROVE  /\ First(s) \in S /\ s \ {First(s)} \in SUBSET S
                      /\ Cardinality(s \ {First(s)}) = Cardinality(s) - 1
    OBVIOUS
  <2>1. First(s) \in s
    BY FirstIsElement
  <2> QED
    BY <1>1, <2>1, FS_RemoveElement
<1>4. bad = {}
  <2> SUFFICES ASSUME bad # {} PROVE FALSE
    OBVIOUS
  <2>1. bad \subseteq Nat
    OBVIOUS
  <2> HIDE DEF bad
  <2>2. PICK m \in bad : \A n \in bad : <<n, m>> \notin OpToRel(<, Nat)
    BY <2>1, NatLessThanWellFounded, WFMin
  <2>3. m \in Nat /\ ~\E g \in [upTo(m) -> Nat] : Sums(f, g, upTo(m))
    BY <2>2 DEF bad
  <2>4. CASE m = 0
    <3>1. \A s \in upTo(m) : s = {}
      BY <1>1, <1>2, <2>4
    <3>2. [s \in upTo(m) |-> 0] \in [upTo(m) -> Nat] /\ Sums(f, [s \in upTo(m) |-> 0], upTo(m))
      BY <3>1 DEF Sums
    <3> QED
      BY <2>3, <3>2
  <2>5. CASE m # 0
    <3>1. m - 1 \in Nat /\ m - 1 < m
      BY <2>3, <2>5
    <3>2. m - 1 \notin bad
      BY <2>2, <2>3, <3>1 DEF OpToRel
    <3>3. PICK g \in [upTo(m - 1) -> Nat] : Sums(f, g, upTo(m - 1))
      BY <3>1, <3>2 DEF bad
    <3> DEFINE h == [s \in upTo(m) |-> IF s = {} THEN 0 ELSE f[First(s)] + g[s \ {First(s)}]]
    <3>4. ASSUME NEW s \in upTo(m), s # {}
          PROVE  /\ s \ {First(s)} \in upTo(m) /\ s \ {First(s)} \in upTo(m - 1)
                 /\ First(s) \in S
      BY <1>1, <1>3, <2>3, <3>4
    <3>5. ASSUME NEW s \in upTo(m) PROVE h[s] \in Nat
      <4>1. CASE s = {}
        BY <4>1
      <4>2. CASE s # {}
        BY <3>4, <4>2
      <4> QED
        BY <4>1, <4>2
    <3>6. h \in [upTo(m) -> Nat]
      BY <3>5
    <3>7. ASSUME NEW s \in upTo(m - 1) PROVE s \in upTo(m) /\ h[s] = g[s]
      <4>1. s \in upTo(m)
        BY <1>1, <2>3
      <4>2. g[s] = IF s = {} THEN 0 ELSE f[First(s)] + g[s \ {First(s)}]
        BY <3>3 DEF Sums
      <4> QED
        BY <4>1, <4>2
    <3>8. ASSUME NEW s \in upTo(m)
          PROVE  h[s] = IF s = {} THEN 0 ELSE f[First(s)] + h[s \ {First(s)}]
      BY <3>4, <3>7
    <3>9. Sums(f, h, upTo(m))
      BY <3>8 DEF Sums
    <3> QED
      BY <2>3, <3>6, <3>9
  <2> QED
    BY <2>4, <2>5
<1>5. Cardinality(S) \in Nat /\ upTo(Cardinality(S)) = SUBSET S
  BY <1>1, FS_CardinalityType
<1>6. PICK n \in Nat : n = Cardinality(S) /\ upTo(n) = SUBSET S
  BY <1>5
<1>7. \E g \in [upTo(n) -> Nat] : Sums(f, g, upTo(n))
  BY <1>4
<1> QED
  BY <1>6, <1>7

\* A sum of naturals is one, and none without an addend.
LEMMA TotalIsNat ==
    ASSUME NEW S, IsFiniteSet(S), NEW f \in [S -> Nat]
    PROVE  /\ Total(f) \in Nat
           /\ Total(f) # 0 => \E x \in S : f[x] > 0
<1> DEFINE Fold(it) == it = [s \in SUBSET S |-> IF s = {} THEN 0
                               ELSE LET x == CHOOSE y \in s : TRUE IN f[x] + it[s \ {x}]]
           sum == CHOOSE it : Fold(it)
<1>1. DOMAIN f = S
  OBVIOUS
<1>2. Total(f) = sum[S]
  BY <1>1 DEF Total, MapThenSumSet, MapThenFoldSet
<1>3. \E it : Fold(it)
  <2>1. PICK g \in [SUBSET S -> Nat] : Sums(f, g, SUBSET S)
    BY SumsExist
  <2>2. Fold(g)
    BY <2>1 DEF Sums, First
  <2> QED
    BY <2>2
<1>4. Fold(sum)
  BY <1>3
<1> HIDE DEF sum
<1> DEFINE Good == {s \in SUBSET S : sum[s] \in Nat /\ (sum[s] # 0 => \E x \in s : f[x] > 0)}
<1>5. ASSUME NEW T \in SUBSET S, \A U \in (SUBSET T) \ {T} : U \in Good
      PROVE  T \in Good
  <2>1. CASE T = {}
    BY <1>4, <2>1
  <2>2. CASE T # {}
    <3>1. First(T) \in T /\ f[First(T)] \in Nat
      BY <2>2, FirstIsElement
    <3>2. T \ {First(T)} \in Good
      BY <1>5, <3>1
    <3>3. sum[T] = f[First(T)] + sum[T \ {First(T)}]
      BY <1>4, <2>2 DEF First
    <3>4. sum[T] # 0 => f[First(T)] > 0 \/ sum[T \ {First(T)}] # 0
      BY <3>1, <3>2, <3>3
    <3>5. sum[T] \in Nat
      BY <3>1, <3>2, <3>3
    <3> QED
      BY <3>1, <3>2, <3>4, <3>5
  <2> QED
    BY <2>1, <2>2
<1>6. S \in Good
  <2> HIDE DEF Good
  <2> QED
    BY <1>5, SubsetInduction
<1> QED
  BY <1>2, <1>6

LEMMA FiniteExtremes ==
    ASSUME NEW S \in SUBSET Int, IsFiniteSet(S), S # {}
    PROVE  /\ Max(S) \in S /\ \A x \in S : Max(S) >= x
           /\ Min(S) \in S /\ \A x \in S : Min(S) <= x
<1> DEFINE Good == {T \in SUBSET S : T # {} => /\ \E x \in T : \A y \in T : x >= y
                                               /\ \E x \in T : \A y \in T : x <= y}
<1>1. ASSUME NEW T \in SUBSET S, \A U \in (SUBSET T) \ {T} : U \in Good, T # {}
      PROVE  /\ \E x \in T : \A y \in T : x >= y
             /\ \E x \in T : \A y \in T : x <= y
  <2>1. First(T) \in T
    BY <1>1, FirstIsElement
  <2>2. PICK x \in T : x = First(T)
    BY <2>1
  <2> DEFINE U == T \ {x}
  <2>3. CASE U = {}
    <3>1. \A y \in T : y = x
      BY <2>3
    <3>2. x \in Int
      OBVIOUS
    <3> QED
      BY <3>1, <3>2
  <2>4. CASE U # {}
    <3>1. U \in Good
      BY <1>1
    <3>2. PICK b \in U, s \in U : (\A y \in U : b >= y) /\ (\A y \in U : s <= y)
      BY <2>4, <3>1
    <3>3. \A y \in T : y = x \/ y \in U
      OBVIOUS
    <3>4. \A y \in T : y \in Int
      OBVIOUS
    <3>5. \E z \in T : \A y \in T : z >= y
      <4>1. CASE x >= b
        BY <3>2, <3>3, <3>4, <4>1
      <4>2. CASE ~(x >= b)
        BY <3>2, <3>3, <3>4, <4>2
      <4> QED
        BY <4>1, <4>2
    <3>6. \E z \in T : \A y \in T : z <= y
      <4>1. CASE x <= s
        BY <3>2, <3>3, <3>4, <4>1
      <4>2. CASE ~(x <= s)
        BY <3>2, <3>3, <3>4, <4>2
      <4> QED
        BY <4>1, <4>2
    <3> QED
      BY <3>5, <3>6
  <2> QED
    BY <2>3, <2>4
<1>2. \A T \in SUBSET S : (\A U \in (SUBSET T) \ {T} : U \in Good) => T \in Good
  BY <1>1
<1>3. S \in Good
  <2> HIDE DEF Good
  <2> QED
    BY <1>2, SubsetInduction
<1>4. (\E x \in S : \A y \in S : x >= y) /\ (\E x \in S : \A y \in S : x <= y)
  BY <1>3
<1> QED
  BY <1>4 DEF Max, Min

LEMMA FiniteImage ==
    ASSUME NEW S, IsFiniteSet(S), NEW f, NEW T, T = {f[x] : x \in S}
    PROVE  IsFiniteSet(T)
<1> DEFINE g == [x \in S |-> f[x]]
<1>1. g \in Surjection(S, T)
  BY DEF Surjection
<1> QED
  BY <1>1, FS_Surjection

-----------------------------------------------------------------------------
(***************************************************************************)
(* Sums over the subsets of a finite set.                                  *)
(***************************************************************************)
Sum(f, T) == Total([x \in T |-> f[x]])
AnyOrder(f, g, S) == \A T \in SUBSET S : \A x \in T : g[T] = f[x] + g[T \ {x}]

LEMMA SubsetsAreGood ==
    ASSUME NEW S, IsFiniteSet(S), NEW Good,
           \A T \in SUBSET S : (\A U \in (SUBSET T) \ {T} : U \in Good) => T \in Good
    PROVE  \A T \in SUBSET S : T \in Good
<1> SUFFICES ASSUME NEW T \in SUBSET S PROVE T \in Good
  OBVIOUS
<1>1. IsFiniteSet(T)
  BY FS_Subset
<1>2. \A U \in SUBSET T : (\A V \in (SUBSET U) \ {U} : V \in Good) => U \in Good
  OBVIOUS
<1> QED
  BY <1>1, <1>2, SubsetInduction

\* A recursion that takes the elements in one order takes them in every order.
LEMMA SumsInAnyOrder ==
    ASSUME NEW S, IsFiniteSet(S), NEW f \in [S -> Nat],
           NEW g \in [SUBSET S -> Nat], Sums(f, g, SUBSET S)
    PROVE  AnyOrder(f, g, S)
<1> DEFINE Good == {T \in SUBSET S : \A x \in T : g[T] = f[x] + g[T \ {x}]}
<1>1. ASSUME NEW T \in SUBSET S, \A U \in (SUBSET T) \ {T} : U \in Good, NEW x \in T
      PROVE  g[T] = f[x] + g[T \ {x}]
  <2>1. PICK y \in T : y = First(T)
    BY FirstIsElement
  <2>2. g[T] = f[y] + g[T \ {y}]
    BY <2>1 DEF Sums
  <2>3. CASE x = y
    BY <2>2, <2>3
  <2>4. CASE x # y
    <3>1. T \ {y} \in Good /\ T \ {x} \in Good
      BY <1>1
    <3>2. g[T \ {y}] = f[x] + g[(T \ {y}) \ {x}]
      BY <2>4, <3>1
    <3>3. g[T \ {x}] = f[y] + g[(T \ {x}) \ {y}]
      BY <2>4, <3>1
    <3>4. (T \ {y}) \ {x} = (T \ {x}) \ {y}
      OBVIOUS
    <3>5. PICK a \in Nat, b \in Nat, rest \in Nat :
            a = f[x] /\ b = f[y] /\ rest = g[(T \ {x}) \ {y}]
      OBVIOUS
    <3>6. g[T \ {y}] = a + rest /\ g[T \ {x}] = b + rest
      BY <3>2, <3>3, <3>4, <3>5
    <3>7. b + (a + rest) = a + (b + rest)
      BY <3>5
    <3> QED
      BY <2>2, <3>5, <3>6, <3>7
  <2> QED
    BY <2>3, <2>4
<1>2. \A T \in SUBSET S : (\A U \in (SUBSET T) \ {T} : U \in Good) => T \in Good
  BY <1>1
<1>3. \A T \in SUBSET S : T \in Good
  <2> HIDE DEF Good
  <2> QED
    BY <1>2, SubsetsAreGood
<1> QED
  BY <1>3 DEF AnyOrder

\* The sum over a subset is the value of the recursion over the whole set there.
LEMMA SumIsOfSums ==
    ASSUME NEW S, IsFiniteSet(S), NEW f \in [S -> Nat],
           NEW g \in [SUBSET S -> Nat], Sums(f, g, SUBSET S), NEW T \in SUBSET S
    PROVE  Sum(f, T) = g[T]
<1> DEFINE h == [x \in T |-> f[x]]
           Fold(it) == it = [s \in SUBSET T |-> IF s = {} THEN 0
                               ELSE LET x == CHOOSE y \in s : TRUE IN h[x] + it[s \ {x}]]
           sum == CHOOSE it : Fold(it)
<1>1. Sum(f, T) = sum[T]
  BY DEF Sum, Total, MapThenSumSet, MapThenFoldSet
<1>2. Fold([s \in SUBSET T |-> g[s]])
  <2>1. ASSUME NEW s \in SUBSET T, s # {}
        PROVE  g[s] = h[First(s)] + g[s \ {First(s)}] /\ s \ {First(s)} \in SUBSET T
    <3>1. First(s) \in s /\ s \in SUBSET S
      BY <2>1, FirstIsElement
    <3> QED
      BY <2>1, <3>1 DEF Sums
  <2>2. \A s \in SUBSET T : s = {} => g[s] = 0
    BY DEF Sums
  <2>3. PICK k \in [SUBSET T -> Nat] : k = [s \in SUBSET T |-> g[s]]
    OBVIOUS
  <2>4. \A s \in SUBSET T :
          k[s] = IF s = {} THEN 0 ELSE h[First(s)] + k[s \ {First(s)}]
    BY <2>1, <2>2, <2>3
  <2> HIDE DEF h
  <2>5. Fold(k)
    BY <2>4 DEF First
  <2> QED
    BY <2>3, <2>5
<1>3. Fold(sum)
  BY <1>2
<1> HIDE DEF sum, h
<1>4. \A s \in SUBSET T : sum[s] = IF s = {} THEN 0 ELSE h[First(s)] + sum[s \ {First(s)}]
  BY <1>3 DEF First
<1> DEFINE Good == {s \in SUBSET T : sum[s] = g[s]}
<1>5. ASSUME NEW s \in SUBSET T, \A u \in (SUBSET s) \ {s} : u \in Good
      PROVE  s \in Good
  <2>1. CASE s = {}
    BY <1>4, <2>1 DEF Sums
  <2>2. CASE s # {}
    <3>1. First(s) \in s
      BY <2>2, FirstIsElement
    <3>2. sum[s \ {First(s)}] = g[s \ {First(s)}]
      BY <1>5, <3>1
    <3>3. g[s] = f[First(s)] + g[s \ {First(s)}]
      BY <2>2 DEF Sums
    <3>4. h[First(s)] = f[First(s)]
      BY <3>1 DEF h
    <3> QED
      BY <1>4, <2>2, <3>2, <3>3, <3>4
  <2> QED
    BY <2>1, <2>2
<1>6. IsFiniteSet(T)
  BY FS_Subset
<1>7. T \in Good
  <2> HIDE DEF Good
  <2> QED
    BY <1>5, <1>6, SubsetInduction
<1> QED
  BY <1>1, <1>7

SumLaws(f, S) ==
    /\ Sum(f, {}) = 0
    /\ \A T \in SUBSET S : Sum(f, T) \in Nat
    /\ \A T \in SUBSET S : \A x \in T : Sum(f, T) = f[x] + Sum(f, T \ {x})

LEMMA SumFacts ==
    ASSUME NEW S, IsFiniteSet(S), NEW f \in [S -> Nat]
    PROVE  SumLaws(f, S)
<1>1. PICK g \in [SUBSET S -> Nat] : Sums(f, g, SUBSET S)
  BY SumsExist
<1>2. \A T \in SUBSET S : Sum(f, T) = g[T]
  BY <1>1, SumIsOfSums
<1>3. AnyOrder(f, g, S)
  BY <1>1, SumsInAnyOrder
<1>4. g[{}] = 0
  BY <1>1 DEF Sums
<1> QED
  BY <1>2, <1>3, <1>4 DEF AnyOrder, SumLaws

\* Induction by taking away one element.
LEMMA ElementInduction ==
    ASSUME NEW S, IsFiniteSet(S), NEW Good,
           \A T \in SUBSET S : (\A x \in T : T \ {x} \in Good) => T \in Good
    PROVE  \A T \in SUBSET S : T \in Good
<1>1. \A T \in SUBSET S : (\A U \in (SUBSET T) \ {T} : U \in Good) => T \in Good
  OBVIOUS
<1> QED
  BY <1>1, SubsetsAreGood

SumSplits(f, S) ==
    \A T \in SUBSET S : \A C \in SUBSET T : Sum(f, T) = Sum(f, C) + Sum(f, T \ C)

LEMMA SumsSplit ==
    ASSUME NEW S, IsFiniteSet(S), NEW f \in [S -> Nat]
    PROVE  SumSplits(f, S)
<1>1. SumLaws(f, S)
  BY SumFacts
<1> DEFINE Good == {T \in SUBSET S : \A C \in SUBSET T : Sum(f, T) = Sum(f, C) + Sum(f, T \ C)}
<1>2. ASSUME NEW T \in SUBSET S, \A x \in T : T \ {x} \in Good, NEW C \in SUBSET T
      PROVE  Sum(f, T) = Sum(f, C) + Sum(f, T \ C)
  <2>1. CASE C = {}
    <3>1. T \ C = T
      BY <2>1
    <3>2. Sum(f, C) = 0
      BY <1>1, <2>1 DEF SumLaws
    <3>3. Sum(f, T) \in Nat
      BY <1>1 DEF SumLaws
    <3>4. Sum(f, C) + Sum(f, T) = Sum(f, T)
      BY <3>2, <3>3
    <3> QED
      BY <3>1, <3>4
  <2>2. CASE C # {}
    <3>1. PICK x \in C : TRUE
      BY <2>2
    <3>2. Sum(f, T) = f[x] + Sum(f, T \ {x}) /\ Sum(f, C) = f[x] + Sum(f, C \ {x})
      BY <1>1, <3>1 DEF SumLaws
    <3>3. C \ {x} \in SUBSET (T \ {x}) /\ (T \ {x}) \ (C \ {x}) = T \ C
      BY <3>1
    <3>4. Sum(f, T \ {x}) = Sum(f, C \ {x}) + Sum(f, T \ C)
      <4>1. T \ {x} \in Good
        BY <1>2, <3>1
      <4> QED
        BY <3>3, <4>1
    <3>5. PICK a \in Nat, b \in Nat, rest \in Nat :
            a = f[x] /\ b = Sum(f, C \ {x}) /\ rest = Sum(f, T \ C)
      <4>1. Sum(f, C \ {x}) \in Nat /\ Sum(f, T \ C) \in Nat
        BY <1>1 DEF SumLaws
      <4> QED
        BY <3>1, <4>1
    <3>6. a + (b + rest) = (a + b) + rest
      BY <3>5
    <3> QED
      BY <3>2, <3>4, <3>5, <3>6
  <2> QED
    BY <2>1, <2>2
<1>3. \A T \in SUBSET S : T \in Good
  <2>1. \A T \in SUBSET S : (\A x \in T : T \ {x} \in Good) => T \in Good
    BY <1>2
  <2> HIDE DEF Good
  <2> QED
    BY <2>1, ElementInduction
<1> QED
  BY <1>3 DEF SumSplits

\* A sum of multiples, and a sum of sums.
Scales(h, c, f, S) == \A x \in S : h[x] = c * f[x]
Adds(h, f, g, S) == \A x \in S : h[x] = f[x] + g[x]

LEMMA SumOfMultiples ==
    ASSUME NEW S, IsFiniteSet(S), NEW f \in [S -> Nat], NEW c \in Nat,
           NEW h \in [S -> Nat], Scales(h, c, f, S), NEW T \in SUBSET S
    PROVE  Sum(h, T) = c * Sum(f, T)
<1>1. SumLaws(f, S) /\ SumLaws(h, S)
  BY SumFacts
<1> DEFINE Good == {V \in SUBSET S : Sum(h, V) = c * Sum(f, V)}
<1>2. ASSUME NEW V \in SUBSET S, \A x \in V : V \ {x} \in Good
      PROVE  V \in Good
  <2>1. CASE V = {}
    BY <1>1, <2>1 DEF SumLaws
  <2>2. CASE V # {}
    <3>1. PICK x \in V : TRUE
      BY <2>2
    <3>2. PICK a \in Nat, b \in Nat : a = f[x] /\ b = Sum(f, V \ {x})
      BY <1>1 DEF SumLaws
    <3>3. Sum(f, V) = a + b /\ Sum(h, V) = h[x] + Sum(h, V \ {x})
      BY <1>1, <3>2 DEF SumLaws
    <3>4. h[x] = c * a /\ Sum(h, V \ {x}) = c * b
      BY <1>2, <3>2 DEF Scales
    <3>5. c * (a + b) = c * a + c * b
      BY <3>2
    <3> QED
      BY <3>3, <3>4, <3>5
  <2> QED
    BY <2>1, <2>2
<1>3. \A V \in SUBSET S : V \in Good
  <2> HIDE DEF Good
  <2> QED
    BY <1>2, ElementInduction
<1> QED
  BY <1>3

LEMMA SumOfSums ==
    ASSUME NEW S, IsFiniteSet(S), NEW f \in [S -> Nat], NEW g \in [S -> Nat],
           NEW h \in [S -> Nat], Adds(h, f, g, S), NEW T \in SUBSET S
    PROVE  Sum(h, T) = Sum(f, T) + Sum(g, T)
<1>1. SumLaws(f, S) /\ SumLaws(g, S) /\ SumLaws(h, S)
  BY SumFacts
<1> DEFINE Good == {V \in SUBSET S : Sum(h, V) = Sum(f, V) + Sum(g, V)}
<1>2. ASSUME NEW V \in SUBSET S, \A x \in V : V \ {x} \in Good
      PROVE  V \in Good
  <2>1. CASE V = {}
    BY <1>1, <2>1 DEF SumLaws
  <2>2. CASE V # {}
    <3>1. PICK x \in V : TRUE
      BY <2>2
    <3>2. PICK a \in Nat, b \in Nat, c \in Nat, d \in Nat :
            a = f[x] /\ b = Sum(f, V \ {x}) /\ c = g[x] /\ d = Sum(g, V \ {x})
      BY <1>1 DEF SumLaws
    <3>3. Sum(f, V) = a + b /\ Sum(g, V) = c + d /\ Sum(h, V) = h[x] + Sum(h, V \ {x})
      BY <1>1, <3>2 DEF SumLaws
    <3>4. h[x] = a + c /\ Sum(h, V \ {x}) = b + d
      BY <1>2, <3>2 DEF Adds
    <3> QED
      BY <3>2, <3>3, <3>4
  <2> QED
    BY <2>1, <2>2
<1>3. \A V \in SUBSET S : V \in Good
  <2> HIDE DEF Good
  <2> QED
    BY <1>2, ElementInduction
<1> QED
  BY <1>3

LEMMA SumIsMonotone ==
    ASSUME NEW S, IsFiniteSet(S), NEW f \in [S -> Nat], NEW g \in [S -> Nat],
           NEW T \in SUBSET S, \A x \in T : f[x] <= g[x]
    PROVE  Sum(f, T) <= Sum(g, T)
<1>1. SumLaws(f, S) /\ SumLaws(g, S)
  BY SumFacts
<1> DEFINE Good == {V \in SUBSET T : Sum(f, V) <= Sum(g, V)}
<1>2. ASSUME NEW V \in SUBSET T, \A x \in V : V \ {x} \in Good
      PROVE  V \in Good
  <2>1. CASE V = {}
    BY <1>1, <2>1 DEF SumLaws
  <2>2. CASE V # {}
    <3>1. PICK x \in V : TRUE
      BY <2>2
    <3>2. PICK a \in Nat, b \in Nat, c \in Nat, d \in Nat :
            a = f[x] /\ b = Sum(f, V \ {x}) /\ c = g[x] /\ d = Sum(g, V \ {x})
      BY <1>1 DEF SumLaws
    <3>3. Sum(f, V) = a + b /\ Sum(g, V) = c + d
      BY <1>1, <3>2 DEF SumLaws
    <3>4. a <= c /\ b <= d
      BY <1>2, <3>2
    <3> QED
      BY <3>2, <3>3, <3>4
  <2> QED
    BY <2>1, <2>2
<1>3. \A V \in SUBSET T : V \in Good
  <2>1. IsFiniteSet(T)
    BY FS_Subset
  <2> HIDE DEF Good
  <2> QED
    BY <1>2, <2>1, ElementInduction
<1> QED
  BY <1>3

LEMMA AddendIsInSum ==
    ASSUME NEW S, IsFiniteSet(S), NEW f \in [S -> Nat], NEW T \in SUBSET S, NEW x \in T
    PROVE  f[x] <= Sum(f, T)
<1>1. SumLaws(f, S)
  BY SumFacts
<1>2. PICK a \in Nat, b \in Nat : a = f[x] /\ b = Sum(f, T \ {x}) /\ Sum(f, T) = a + b
  BY <1>1 DEF SumLaws
<1> QED
  BY <1>2

\* Zeros add nothing.
LEMMA SumOfPositives ==
    ASSUME NEW S, IsFiniteSet(S), NEW f \in [S -> Nat], NEW T \in SUBSET S
    PROVE  Sum(f, T) = Sum(f, {x \in T : f[x] > 0})
<1> DEFINE pos == {x \in T : f[x] > 0}
           rest == T \ pos
<1>1. SumLaws(f, S) /\ SumSplits(f, S)
  BY SumFacts, SumsSplit
<1>2. Sum(f, T) = Sum(f, pos) + Sum(f, rest)
  BY <1>1 DEF SumSplits
<1>3. Sum(f, rest) = 0
  <2>1. [x \in rest |-> f[x]] \in [rest -> Nat] /\ IsFiniteSet(rest)
    BY FS_Subset
  <2>2. \A x \in rest : ~([y \in rest |-> f[y]][x] > 0)
    OBVIOUS
  <2> HIDE DEF rest
  <2>3. PICK h \in [rest -> Nat] : h = [x \in rest |-> f[x]]
    BY <2>1
  <2>4. Total(h) # 0 => \E x \in rest : h[x] > 0
    BY <2>1, TotalIsNat
  <2> QED
    BY <2>2, <2>3, <2>4 DEF Sum
<1>4. Sum(f, pos) \in Nat
  BY <1>1 DEF SumLaws
<1> QED
  BY <1>2, <1>3, <1>4

\* A sum of ones and zeros counts.
Marks(f, B, S) == \A x \in S : f[x] = IF x \in B THEN 1 ELSE 0

LEMMA SumCounts ==
    ASSUME NEW S, IsFiniteSet(S), NEW B, NEW f \in [S -> Nat],
           Marks(f, B, S), NEW T \in SUBSET S
    PROVE  Sum(f, T) = Cardinality(T \cap B)
<1>1. SumLaws(f, S)
  BY SumFacts
<1> DEFINE Good == {V \in SUBSET S : Sum(f, V) = Cardinality(V \cap B)}
<1>2. ASSUME NEW V \in SUBSET S, \A x \in V : V \ {x} \in Good
      PROVE  V \in Good
  <2>1. CASE V = {}
    BY <1>1, <2>1, FS_EmptySet DEF SumLaws
  <2>2. CASE V # {}
    <3>1. PICK x \in V : TRUE
      BY <2>2
    <3>2. Sum(f, V) = f[x] + Sum(f, V \ {x}) /\ f[x] = IF x \in B THEN 1 ELSE 0
      BY <1>1 DEF SumLaws, Marks
    <3>3. Sum(f, V \ {x}) = Cardinality((V \ {x}) \cap B)
      BY <1>2
    <3>4. (V \ {x}) \cap B = (V \cap B) \ {x} /\ (x \in V \cap B <=> x \in B)
      OBVIOUS
    <3>5. IsFiniteSet(V \cap B) /\ Cardinality(V \cap B) \in Nat
      BY FS_Subset, FS_CardinalityType
    <3>6. Cardinality((V \cap B) \ {x}) = IF x \in B THEN Cardinality(V \cap B) - 1
                                         ELSE Cardinality(V \cap B)
      BY <3>4, <3>5, FS_RemoveElement
    <3>7. PICK a \in Nat : a = Cardinality(V \cap B)
      BY <3>5
    <3>8. Sum(f, V \ {x}) = IF x \in B THEN a - 1 ELSE a
      BY <3>3, <3>4, <3>6, <3>7
    <3>9. Sum(f, V) = a
      BY <3>2, <3>7, <3>8
    <3> QED
      BY <3>7, <3>9
  <2> QED
    BY <2>1, <2>2
<1>3. \A V \in SUBSET S : V \in Good
  <2> HIDE DEF Good
  <2> QED
    BY <1>2, ElementInduction
<1> QED
  BY <1>3

Agree(f, g, T) == \A x \in T : f[x] = g[x]

LEMMA SumsAgree ==
    ASSUME NEW f, NEW g, NEW T, Agree(f, g, T)
    PROVE  Sum(f, T) = Sum(g, T)
<1>1. [x \in T |-> f[x]] = [x \in T |-> g[x]]
  BY DEF Agree
<1> QED
  BY <1>1 DEF Sum

IsConstant(f, c, T) == \A x \in T : f[x] = c

LEMMA SumOfConstant ==
    ASSUME NEW S, IsFiniteSet(S), NEW f \in [S -> Nat], NEW c \in Nat,
           NEW T \in SUBSET S, IsConstant(f, c, T)
    PROVE  Sum(f, T) = c * Cardinality(T)
<1> DEFINE one == [x \in S |-> 1]
           k == [x \in S |-> c * one[x]]
<1>1. one \in [S -> Nat] /\ k \in [S -> Nat] /\ Marks(one, S, S) /\ Scales(k, c, one, S)
  BY DEF Marks, Scales
<1>2. Agree(f, k, T)
  BY DEF Agree, IsConstant
<1>3. T \cap S = T
  OBVIOUS
<1> HIDE DEF one, k
<1>4. Sum(one, T) = Cardinality(T)
  <2>1. Sum(one, T) = Cardinality(T \cap S)
    BY <1>1, SumCounts
  <2> QED
    BY <1>3, <2>1
<1>5. Sum(k, T) = c * Sum(one, T)
  BY <1>1, SumOfMultiples
<1> QED
  BY <1>2, <1>4, <1>5, SumsAgree

Carries(f, g, j, S) == \A u \in S : f[u] = g[j[u]]

LEMMA SumIsCarried ==
    ASSUME NEW S, IsFiniteSet(S), NEW T, IsFiniteSet(T), NEW j \in Bijection(S, T),
           NEW f \in [S -> Nat], NEW g \in [T -> Nat], Carries(f, g, j, S)
    PROVE  Sum(f, S) = Sum(g, T)
<1>1. /\ j \in [S -> T]
      /\ \A u, v \in S : j[u] = j[v] => u = v
      /\ \A t \in T : \E u \in S : j[u] = t
  BY DEF Bijection, Injection, Surjection, IsInjective
<1>2. SumLaws(f, S) /\ SumLaws(g, T)
  BY SumFacts
<1> DEFINE image(V) == {j[u] : u \in V}
           Good == {V \in SUBSET S : Sum(f, V) = Sum(g, image(V))}
<1>3. ASSUME NEW V \in SUBSET S, \A x \in V : V \ {x} \in Good
      PROVE  V \in Good
  <2>1. CASE V = {}
    <3>1. image(V) = {}
      BY <2>1
    <3> HIDE DEF image
    <3> QED
      BY <1>2, <2>1, <3>1 DEF SumLaws
  <2>2. CASE V # {}
    <3>1. PICK x \in V : TRUE
      BY <2>2
    <3>2. PICK t \in T : t = j[x]
      BY <1>1, <3>1
    <3>3. t \in image(V) /\ image(V) \in SUBSET T /\ image(V) \ {t} = image(V \ {x})
      BY <1>1, <3>1, <3>2
    <3>4. Sum(f, V \ {x}) = Sum(g, image(V \ {x}))
      BY <1>3, <3>1
    <3> HIDE DEF image
    <3>5. Sum(g, image(V)) = g[t] + Sum(g, image(V \ {x}))
      <4>1. PICK I \in SUBSET T : I = image(V) /\ t \in I
        BY <3>3
      <4>2. Sum(g, I) = g[t] + Sum(g, I \ {t})
        BY <1>2, <4>1 DEF SumLaws
      <4> QED
        BY <3>3, <4>1, <4>2
    <3>6. Sum(f, V) = f[x] + Sum(f, V \ {x})
      BY <1>2, <3>1 DEF SumLaws
    <3>7. f[x] = g[t]
      BY <3>1, <3>2 DEF Carries
    <3>8. Sum(f, V) = Sum(g, image(V))
      BY <3>4, <3>5, <3>6, <3>7
    <3> QED
      BY <3>8
  <2> QED
    BY <2>1, <2>2
<1>4. \A V \in SUBSET S : V \in Good
  <2> HIDE DEF Good
  <2> QED
    BY <1>3, ElementInduction
<1>5. S \in Good /\ image(S) = T
  BY <1>1, <1>4
<1> QED
  BY <1>5
=============================================================================
