---------------------------- MODULE FiniteLemmas ----------------------------
(***************************************************************************)
(* Lemmas about data that the proofs of several components cite: sequences *)
(* and their elements, least and greatest elements, and sums over a finite *)
(* set.  The sums are SumFunctionOnSet and SumFunction of the community    *)
(* module Functions, which choose the order in which they add.  The        *)
(* induction theorems of the library take a predicate as their parameter;  *)
(* here a set of "good" values stands for the predicate, so that every     *)
(* lemma is first-order.                                                   *)
(***************************************************************************)
EXTENDS StreamOrder, FiniteSetsExt, Functions, FiniteSetTheorems, TLAPS

-----------------------------------------------------------------------------
(* Sequences *)

\* The elements of a tail and of an extended sequence.
LEMMA SeqFacts ==
    ASSUME NEW S, NEW q \in Seq(S)
    PROVE  /\ DOMAIN q = 1..Len(q) /\ Len(q) \in Nat
           /\ q = << >> <=> Len(q) = 0
           /\ \A i \in DOMAIN q : q[i] \in S
           /\ \A e \in S : /\ Append(q, e) \in Seq(S)
                           /\ Len(Append(q, e)) = Len(q) + 1
                           /\ DOMAIN Append(q, e) = DOMAIN q \cup {Len(q) + 1}
                           /\ \A i \in DOMAIN q : Append(q, e)[i] = q[i]
                           /\ Append(q, e)[Len(q) + 1] = e
           /\ q # << >> => /\ 1 \in DOMAIN q /\ Head(q) = q[1]
                           /\ Tail(q) \in Seq(S)
                           /\ Len(Tail(q)) = Len(q) - 1
                           /\ \A i \in DOMAIN Tail(q) : i + 1 \in DOMAIN q /\ Tail(q)[i] = q[i + 1]
  OBVIOUS

\* An element of a sequence.
LEMMA InSeq ==
    ASSUME NEW S, NEW q \in Seq(S), NEW i \in DOMAIN q
    PROVE  q[i] \in S
  OBVIOUS

\* A set of positions up to n is finite, and what lists it in ascending order
\* has each member once.
LEMMA AscendingFacts ==
    ASSUME NEW n \in Nat, NEW S \in SUBSET (1..n), NEW q \in Ascending(S)
    PROVE  /\ Cardinality(S) \in Nat
           /\ q \in Seq(Nat)
           /\ \A i, j \in DOMAIN q : i < j => q[i] < q[j]
           /\ \A i \in DOMAIN q : q[i] \in S
           /\ S = {} <=> q = << >>
  <1>1. Cardinality(S) \in Nat /\ (S = {} <=> Cardinality(S) = 0)
    <2> DEFINE I == 1..n
    <2>1. S \subseteq I /\ IsFiniteSet(I)
      BY FS_Interval
    <2> HIDE DEF I
    <2>2. IsFiniteSet(S)
      BY <2>1, FS_Subset
    <2> QED
      BY <2>2, FS_CardinalityType, FS_EmptySet
  <1>2. q \in [1..Cardinality(S) -> S] /\ \A i, j \in DOMAIN q : i < j => q[i] < q[j]
    BY DEF Ascending
  <1> DEFINE m == Cardinality(S)
  <1>3. /\ m \in Nat /\ q \in [1..m -> S] /\ S \subseteq Nat /\ (S = {} <=> m = 0)
        /\ \A i, j \in DOMAIN q : i < j => q[i] < q[j]
    BY <1>1, <1>2
  <1> HIDE DEF m
  <1>4. q \in [1..m -> Nat]
    BY <1>3
  <1>5. q \in Seq(Nat) /\ Len(q) = m
    BY <1>3, <1>4
  <1>6. q = << >> <=> m = 0
    BY <1>5, SeqFacts
  <1> QED
    BY <1>1, <1>3, <1>5, <1>6

-----------------------------------------------------------------------------
(* Induction *)

\* A nonempty set of subsets of a finite set has a minimal member.
LEMMA MinimalSubset ==
    ASSUME NEW S, IsFiniteSet(S), NEW F \in SUBSET (SUBSET S), F # {}
    PROVE  \E T \in F : \A U \in F : U \subseteq T => U = T
  <1>1. IsWellFoundedOn(StrictSubsetOrdering(S), SUBSET S)
    BY FS_StrictSubsetOrderingWellFounded, FS_FiniteSubsetsOfFinite
  <1>2. \E T \in F : \A U \in F : ~(<<U, T>> \in StrictSubsetOrdering(S))
    BY <1>1, WFMin
  <1> QED
    BY <1>2 DEF StrictSubsetOrdering

\* Induction over the finite subsets of a finite set, one element at a time.
LEMMA SubsetInduction ==
    ASSUME NEW S, IsFiniteSet(S), NEW Good,
           {} \in Good,
           \A T \in SUBSET S, x \in S : T \in Good /\ x \notin T => T \cup {x} \in Good
    PROVE  S \in Good
  <1> SUFFICES ASSUME S \notin Good
               PROVE  FALSE
    OBVIOUS
  <1> DEFINE Bad == (SUBSET S) \ Good
  <1>1. PICK T : T \in Bad /\ \A U \in Bad : U \subseteq T => U = T
    <2>1. Bad \in SUBSET (SUBSET S) /\ Bad # {}
      OBVIOUS
    <2> HIDE DEF Bad
    <2> QED
      BY <2>1, MinimalSubset
  <1>2. PICK x : x \in T
    <2>1. T \notin Good
      BY <1>1
    <2>2. T # {}
      BY <2>1
    <2> QED
      BY <2>2
  <1>3. T \ {x} \in Good
    BY <1>1, <1>2
  <1>4. (T \ {x}) \cup {x} = T
    BY <1>2
  <1> QED
    BY <1>1, <1>2, <1>3, <1>4

\* Induction over an initial part of the natural numbers.
LEMMA BoundedInduction ==
    ASSUME NEW N \in Nat, NEW Good,
           0 \in Good,
           \A n \in 0..N : n \in Good /\ n < N => n + 1 \in Good
    PROVE  N \in Good
  <1> SUFFICES ASSUME N \notin Good
               PROVE  FALSE
    OBVIOUS
  <1> DEFINE F == {1..n : n \in {m \in 0..N : m \notin Good}}
  <1>1. PICK T : T \in F /\ \A U \in F : U \subseteq T => U = T
    <2> DEFINE I == 1..N
    <2>1. IsFiniteSet(I)
      BY FS_Interval
    <2>2. F \in SUBSET (SUBSET I) /\ I \in F
      OBVIOUS
    <2> HIDE DEF F, I
    <2>3. F # {}
      BY <2>2
    <2> QED
      BY <2>1, <2>2, <2>3, MinimalSubset
  <1>2. PICK n \in 0..N : n \notin Good /\ T = 1..n
    BY <1>1
  <1>3. n # 0
    BY <1>2
  <1>4. CASE n - 1 \notin Good
    <2>1. 1..(n - 1) \in F
      BY <1>3, <1>4
    <2>2. 1..(n - 1) \subseteq 1..n /\ n \in 1..n /\ n \notin 1..(n - 1)
      BY <1>3
    <2> QED
      BY <1>1, <1>2, <2>1, <2>2
  <1>5. CASE n - 1 \in Good
    <2>1. n - 1 \in 0..N /\ n - 1 < N /\ (n - 1) + 1 = n
      BY <1>3
    <2> QED
      BY <1>2, <1>5, <2>1
  <1> QED
    BY <1>4, <1>5

\* What lists the numbers from k + 1 to k + n in ascending order counts them.
LEMMA AscendingInterval ==
    ASSUME NEW k \in Nat, NEW n \in Nat, NEW q \in Ascending((k + 1)..(k + n))
    PROVE  q = [i \in 1..n |-> k + i]
  <1>1. Cardinality((k + 1)..(k + n)) = n
    <2> DEFINE a == k + 1
               b == k + n
    <2>1. a \in Int /\ b \in Int /\ (IF a > b THEN 0 ELSE b - a + 1) = n
      OBVIOUS
    <2> HIDE DEF a, b
    <2>2. Cardinality(a..b) = n
      BY <2>1, FS_Interval
    <2> QED
      BY <2>2 DEF a, b
  <1>2. /\ q \in [1..n -> (k + 1)..(k + n)]
        /\ \A i, j \in 1..n : i < j => q[i] < q[j]
    BY <1>1 DEF Ascending
  <1>3. ASSUME NEW i \in 1..n
        PROVE  k + i <= q[i]
    <2> DEFINE Good == {m \in 0..n : m = 0 \/ k + m <= q[m]}
    <2>1. 0 \in Good
      OBVIOUS
    <2>2. ASSUME NEW m \in 0..i, m \in Good, m < i
          PROVE  m + 1 \in Good
      <3>1. m + 1 \in 1..n /\ q[m + 1] \in (k + 1)..(k + n)
        BY <1>2, <2>2
      <3>2. CASE m = 0
        BY <3>1, <3>2
      <3>3. CASE m # 0
        <4>1. m \in 1..n /\ q[m] \in (k + 1)..(k + n) /\ q[m] < q[m + 1] /\ k + m <= q[m]
          BY <1>2, <2>2, <3>1, <3>3
        <4> QED
          BY <3>1, <4>1
      <3> QED
        BY <3>2, <3>3
    <2> HIDE DEF Good
    <2>3. i \in Good
      BY <2>1, <2>2, BoundedInduction
    <2> QED
      BY <2>3 DEF Good
  <1>4. ASSUME NEW i \in 1..n
        PROVE  q[i] <= k + i
    <2> DEFINE Good == {m \in 0..n : m = n \/ q[n - m] <= k + (n - m)}
               N == n - i
    <2>1. 0 \in Good
      BY <1>2
    <2>2. ASSUME NEW m \in 0..N, m \in Good, m < N
          PROVE  m + 1 \in Good
      <3>1. /\ n - m \in 1..n /\ n - (m + 1) \in 1..n /\ n - (m + 1) < n - m /\ m # n
            /\ n - (m + 1) = (n - m) - 1
        BY <2>2
      <3>2. /\ q[n - (m + 1)] < q[n - m] /\ q[n - m] <= k + (n - m)
            /\ q[n - m] \in Int /\ q[n - (m + 1)] \in Int
        BY <1>2, <2>2, <3>1
      <3> QED
        BY <3>1, <3>2
    <2>3. N \in Nat /\ n - N = i /\ N # n
      OBVIOUS
    <2> HIDE DEF Good, N
    <2>4. N \in Good
      BY <2>1, <2>2, <2>3, BoundedInduction
    <2> QED
      BY <2>3, <2>4 DEF Good
  <1>5. ASSUME NEW i \in 1..n
        PROVE  q[i] = k + i
    <2>1. q[i] \in (k + 1)..(k + n)
      BY <1>2
    <2>2. q[i] \in Int /\ k + i <= q[i] /\ q[i] <= k + i
      BY <1>3, <1>4, <2>1
    <2> QED
      BY <2>2
  <1> QED
    BY <1>2, <1>5

\* A nonempty set of numbers has a least element.
LEMMA LeastNumber ==
    ASSUME NEW S \in SUBSET Nat, S # {}
    PROVE  Min(S) \in S /\ \A x \in S : Min(S) <= x
  <1>1. PICK N \in S : TRUE
    OBVIOUS
  <1> DEFINE F == {1..n : n \in {m \in S : m <= N}}
  <1>2. PICK T : T \in F /\ \A U \in F : U \subseteq T => U = T
    <2> DEFINE I == 1..N
    <2>1. IsFiniteSet(I)
      BY <1>1, FS_Interval
    <2>2. F \in SUBSET (SUBSET I) /\ I \in F
      BY <1>1
    <2> HIDE DEF F, I
    <2>3. F # {}
      BY <2>2
    <2> QED
      BY <2>1, <2>2, <2>3, MinimalSubset
  <1>3. PICK n \in S : n <= N /\ T = 1..n
    BY <1>2
  <1>4. ASSUME NEW x \in S
        PROVE  n <= x
    <2> SUFFICES ASSUME x < n
                 PROVE  FALSE
      BY <1>3
    <2>1. x \in Nat /\ n \in Nat /\ N \in Nat
      BY <1>1
    <2>2. 1..x \in F
      BY <1>3, <2>1
    <2>3. 1..x \subseteq 1..n /\ n \in 1..n /\ n \notin 1..x
      BY <2>1
    <2> QED
      BY <1>2, <1>3, <2>2, <2>3
  <1> QED
    BY <1>3, <1>4 DEF Min

\* The least of two numbers.
LEMMA LeastOfTwo ==
    ASSUME NEW m \in Int, NEW n \in Int
    PROVE  Min({m, n}) \in {m, n} /\ Min({m, n}) <= m /\ Min({m, n}) <= n
  <1>1. \E x \in {m, n} : \A y \in {m, n} : x <= y
    <2>1. CASE m <= n
      BY <2>1
    <2>2. CASE n <= m
      BY <2>2
    <2> QED
      BY <2>1, <2>2
  <1>2. Min({m, n}) \in {m, n} /\ \A y \in {m, n} : Min({m, n}) <= y
    BY <1>1, Zenon DEF Min
  <1> QED
    BY <1>2

\* A nonempty set of numbers with a bound has a greatest element.
LEMMA GreatestNumber ==
    ASSUME NEW n \in Nat, NEW S \in SUBSET (0..n), S # {}
    PROVE  Max(S) \in S /\ \A x \in S : x <= Max(S)
  <1> DEFINE R == {n - x : x \in S}
  <1>1. R \in SUBSET Nat /\ R # {}
    <2>1. \A x \in S : x \in 0..n /\ n - x \in Nat
      OBVIOUS
    <2> QED
      BY <2>1, Zenon
  <1>2. Min(R) \in R /\ \A y \in R : Min(R) <= y
    BY <1>1, LeastNumber
  <1>3. PICK x \in S : Min(R) = n - x
    BY <1>2
  <1>4. ASSUME NEW z \in S
        PROVE  z <= x
    <2>1. n - z \in R
      OBVIOUS
    <2>2. n - x <= n - z
      BY <1>2, <1>3, <2>1
    <2> QED
      BY <2>2
  <1>5. \E y \in S : \A z \in S : y >= z
    BY <1>4
  <1>6. Max(S) \in S /\ \A z \in S : Max(S) >= z
    BY <1>5, Zenon DEF Max
  <1>7. ASSUME NEW z \in S
        PROVE  z <= Max(S)
    <2>1. z \in 0..n /\ Max(S) \in 0..n /\ Max(S) >= z
      BY <1>6, Zenon
    <2> QED
      BY <2>1
  <1> QED
    BY <1>6, <1>7

-----------------------------------------------------------------------------
(* The recursive function behind a sum *)

\* One step of the sum of w over s, given the sums g of smaller sets.
SumStep(w, g, s) == IF s = {} THEN 0
                    ELSE LET x == CHOOSE x \in s : TRUE
                         IN  w[x] + g[s \ {x}]

\* g adds up w over each member of D.
Sums(g, w, D) == g = [s \in D |-> SumStep(w, g, s)]

\* The sums up to a given size exist.
LEMMA SumsUpTo ==
    ASSUME NEW S, IsFiniteSet(S), NEW w, NEW n \in Nat
    PROVE  \E g : Sums(g, w, {s \in SUBSET S : Cardinality(s) <= n})
  <1> DEFINE D(m) == {s \in SUBSET S : Cardinality(s) <= m}
             Good == {m \in Nat : \E g : Sums(g, w, D(m))}
  <1>1. \A s \in SUBSET S : IsFiniteSet(s) /\ Cardinality(s) \in Nat
    BY FS_Subset, FS_CardinalityType
  <1>2. \A s \in SUBSET S : \A x \in s : Cardinality(s \ {x}) = Cardinality(s) - 1
    BY <1>1, FS_RemoveElement
  <1>3. 0 \in Good
    <2> DEFINE g == [s \in D(0) |-> 0]
    <2>1. ASSUME NEW s \in D(0)
          PROVE  s = {}
      BY <1>1, <2>1, FS_EmptySet
    <2>2. Sums(g, w, D(0))
      BY <2>1 DEF Sums, SumStep
    <2> QED
      BY <2>2
  <1>4. ASSUME NEW m \in Nat, m \in Good
        PROVE  m + 1 \in Good
    <2>1. PICK g : Sums(g, w, D(m))
      BY <1>4
    <2> DEFINE h == [s \in D(m + 1) |-> IF s \in D(m) THEN g[s] ELSE SumStep(w, g, s)]
    <2>2. ASSUME NEW s \in D(m + 1)
          PROVE  h[s] = SumStep(w, h, s)
      <3>1. CASE s = {}
        <4>1. s \in D(m)
          BY <3>1, FS_EmptySet
        <4>2. h[s] = g[s]
          BY <4>1
        <4>3. g[s] = SumStep(w, g, s)
          BY <2>1, <4>1 DEF Sums
        <4> QED
          BY <3>1, <4>2, <4>3 DEF SumStep
      <3>2. CASE s # {}
        <4> DEFINE x == CHOOSE x \in s : TRUE
        <4>1. x \in s
          BY <3>2
        <4>2. s \ {x} \in D(m) /\ s \ {x} \in D(m + 1)
          <5>1. s \in SUBSET S /\ s \ {x} \in SUBSET S /\ Cardinality(s) <= m + 1
            OBVIOUS
          <5>2. Cardinality(s \ {x}) = Cardinality(s) - 1 /\ Cardinality(s) \in Nat
            BY <1>1, <1>2, <4>1, <5>1
          <5>3. Cardinality(s \ {x}) <= m /\ Cardinality(s \ {x}) <= m + 1
            BY <5>1, <5>2
          <5> QED
            BY <5>1, <5>3
        <4>3. h[s \ {x}] = g[s \ {x}]
          BY <4>2
        <4>4. SumStep(w, h, s) = SumStep(w, g, s)
          <5> HIDE DEF h
          <5> QED
            BY <4>3 DEF SumStep
        <4>5. s \in D(m) => g[s] = SumStep(w, g, s)
          BY <2>1 DEF Sums
        <4>6. h[s] = IF s \in D(m) THEN g[s] ELSE SumStep(w, g, s)
          OBVIOUS
        <4> HIDE DEF h, D
        <4> QED
          BY <4>4, <4>5, <4>6
      <3> QED
        BY <3>1, <3>2
    <2>3. h = [s \in D(m + 1) |-> SumStep(w, h, s)]
      <3>1. h = [s \in D(m + 1) |-> h[s]]
        OBVIOUS
      <3> HIDE DEF h, D
      <3> QED
        BY <2>2, <3>1
    <2>4. Sums(h, w, D(m + 1))
      BY <2>3 DEF Sums
    <2> HIDE DEF h, D
    <2> QED
      BY <2>4
  <1>5. n \in Good
    <2> HIDE DEF Good
    <2> QED
      BY <1>3, <1>4, BoundedInduction
  <1> QED
    BY <1>5

\* The sums over all subsets of a finite set exist.
LEMMA SumsExist ==
    ASSUME NEW S, IsFiniteSet(S), NEW w
    PROVE  \E g : Sums(g, w, SUBSET S)
  <1>1. Cardinality(S) \in Nat
    BY FS_CardinalityType
  <1>2. \A s \in SUBSET S : Cardinality(s) <= Cardinality(S)
    BY FS_Subset
  <1>3. {s \in SUBSET S : Cardinality(s) <= Cardinality(S)} = SUBSET S
    BY <1>2
  <1>4. \E g : Sums(g, w, {s \in SUBSET S : Cardinality(s) <= Cardinality(S)})
    BY <1>1, SumsUpTo, Zenon
  <1> QED
    BY <1>3, <1>4, Zenon

\* g adds up w over each subset of S.
Adds(g, w, S) == Sums(g, w, SUBSET S)

\* The sum over a finite set is what some such function gives it.
LEMMA SumIsSums ==
    ASSUME NEW S, IsFiniteSet(S), NEW w
    PROVE  \E g : Adds(g, w, S) /\ SumFunctionOnSet(w, S) = g[S]
  <1> DEFINE g == CHOOSE g : Sums(g, w, SUBSET S)
  <1>1. Adds(g, w, S)
    BY SumsExist, Zenon DEF Adds
  <1>2. SumFunctionOnSet(w, S) = g[S]
    BY Zenon DEF SumFunctionOnSet, FoldFunctionOnSet, MapThenFoldSet, Sums, SumStep
  <1> QED
    BY <1>1, <1>2, Zenon

-----------------------------------------------------------------------------
(* Any element may be added last *)

\* A sum of integers is an integer.
LEMMA SumsType ==
    ASSUME NEW S, IsFiniteSet(S), NEW w, \A x \in S : w[x] \in Int,
           NEW g, Adds(g, w, S), NEW T \in SUBSET S
    PROVE  g[T] \in Int
  <1> SUFFICES ASSUME g[T] \notin Int
               PROVE  FALSE
    OBVIOUS
  <1> DEFINE Bad == {U \in SUBSET S : g[U] \notin Int}
  <1>1. PICK U : U \in Bad /\ \A V \in Bad : V \subseteq U => V = U
    <2>1. Bad \in SUBSET (SUBSET S) /\ Bad # {}
      OBVIOUS
    <2> HIDE DEF Bad
    <2> QED
      BY <2>1, MinimalSubset
  <1> DEFINE x == CHOOSE x \in U : TRUE
  <1>2. U \in SUBSET S /\ g[U] \notin Int
    BY <1>1
  <1>3. g[U] = SumStep(w, g, U)
    BY <1>2 DEF Adds, Sums
  <1>4. U # {}
    BY <1>2, <1>3 DEF SumStep
  <1>5. x \in U /\ x \in S
    BY <1>2, <1>4
  <1>6. g[U \ {x}] \in Int
    <2>1. U \ {x} \notin Bad
      BY <1>1, <1>5
    <2> QED
      BY <1>2, <2>1
  <1>7. g[U] = w[x] + g[U \ {x}]
    BY <1>3, <1>4 DEF SumStep
  <1> HIDE DEF x
  <1> QED
    BY <1>2, <1>5, <1>6, <1>7

\* A sum does not depend on the element that is added last.
LEMMA SumsAnyLast ==
    ASSUME NEW S, IsFiniteSet(S), NEW w, \A x \in S : w[x] \in Int,
           NEW g, Adds(g, w, S), NEW T \in SUBSET S, NEW x \in T
    PROVE  g[T] = w[x] + g[T \ {x}]
  <1> SUFFICES ASSUME g[T] # w[x] + g[T \ {x}]
               PROVE  FALSE
    OBVIOUS
  <1> DEFINE Bad == {U \in SUBSET S : \E z \in U : g[U] # w[z] + g[U \ {z}]}
  <1>1. PICK U : U \in Bad /\ \A V \in Bad : V \subseteq U => V = U
    <2>1. Bad \in SUBSET (SUBSET S) /\ Bad # {}
      OBVIOUS
    <2> HIDE DEF Bad
    <2> QED
      BY <2>1, MinimalSubset
  <1>2. PICK z \in U : g[U] # w[z] + g[U \ {z}]
    BY <1>1
  <1> DEFINE y == CHOOSE y \in U : TRUE
  <1>3. U \in SUBSET S /\ z \in S /\ y \in U /\ y \in S
    BY <1>1
  <1>4. g[U] = w[y] + g[U \ {y}]
    <2>1. g[U] = SumStep(w, g, U)
      BY <1>3 DEF Adds, Sums
    <2> QED
      BY <1>3, <2>1 DEF SumStep
  <1> HIDE DEF y
  <1>5. y # z
    BY <1>2, <1>4
  <1>6. \A V \in SUBSET U : \A v \in V : V # U => g[V] = w[v] + g[V \ {v}]
    BY <1>1, <1>3
  <1> HIDE DEF Bad
  <1>7. g[U \ {y}] = w[z] + g[(U \ {y}) \ {z}]
    <2>1. U \ {y} \in SUBSET U /\ z \in U \ {y} /\ U \ {y} # U
      BY <1>3, <1>5
    <2> QED
      BY <1>6, <2>1
  <1>8. g[U \ {z}] = w[y] + g[(U \ {z}) \ {y}]
    <2>1. U \ {z} \in SUBSET U /\ y \in U \ {z} /\ U \ {z} # U
      BY <1>3, <1>5
    <2> QED
      BY <1>6, <2>1
  <1>9. (U \ {z}) \ {y} = (U \ {y}) \ {z}
    OBVIOUS
  <1>10. g[(U \ {y}) \ {z}] \in Int
    <2>1. (U \ {y}) \ {z} \in SUBSET S
      BY <1>3
    <2> QED
      BY <2>1, SumsType
  <1>11. w[y] \in Int /\ w[z] \in Int
    BY <1>3
  <1> DEFINE rest == g[(U \ {y}) \ {z}]
             wy == w[y]
             wz == w[z]
  <1>12. g[U] = wy + (wz + rest)
    BY <1>4, <1>7
  <1>13. g[U \ {z}] = wy + rest
    BY <1>8, <1>9
  <1>14. wy + (wz + rest) = wz + (wy + rest)
    <2>1. rest \in Int /\ wy \in Int /\ wz \in Int
      BY <1>10, <1>11
    <2> HIDE DEF rest, wy, wz
    <2> QED
      BY <2>1
  <1>15. g[U] = w[z] + g[U \ {z}]
    BY <1>12, <1>13, <1>14
  <1> QED
    BY <1>2, <1>15

\* Two functions have the same summands on S.
Agree(v, w, S) == \A x \in S : v[x] = w[x]

\* Sums over the subsets of two sets agree where the summands do.
LEMMA SumsAgree ==
    ASSUME NEW S, NEW v, NEW g, Adds(g, v, S),
           NEW R, NEW w, NEW h, Adds(h, w, R),
           IsFiniteSet(S), S \subseteq R, Agree(v, w, S)
    PROVE  g[S] = h[S]
  <1> SUFFICES ASSUME g[S] # h[S]
               PROVE  FALSE
    OBVIOUS
  <1> DEFINE Bad == {U \in SUBSET S : g[U] # h[U]}
  <1>1. PICK U : U \in Bad /\ \A V \in Bad : V \subseteq U => V = U
    <2>1. Bad \in SUBSET (SUBSET S) /\ Bad # {}
      OBVIOUS
    <2> HIDE DEF Bad
    <2> QED
      BY <2>1, MinimalSubset
  <1> DEFINE x == CHOOSE x \in U : TRUE
  <1>2. U \in SUBSET S /\ U \in SUBSET R /\ g[U] # h[U]
    BY <1>1
  <1>3. g[U] = SumStep(v, g, U) /\ h[U] = SumStep(w, h, U)
    BY <1>2 DEF Adds, Sums
  <1>4. U # {}
    BY <1>2, <1>3 DEF SumStep
  <1>5. x \in U /\ x \in S
    BY <1>2, <1>4
  <1>6. g[U] = v[x] + g[U \ {x}] /\ h[U] = w[x] + h[U \ {x}]
    BY <1>3, <1>4 DEF SumStep
  <1> HIDE DEF x
  <1>7. g[U \ {x}] = h[U \ {x}]
    <2>1. U \ {x} \notin Bad
      BY <1>1, <1>5
    <2> QED
      BY <1>2, <2>1
  <1> QED
    BY <1>2, <1>5, <1>6, <1>7 DEF Agree

-----------------------------------------------------------------------------
(* The facts the other proofs cite *)

\* A sum of integers over a finite set is an integer.
LEMMA SumType ==
    ASSUME NEW S, IsFiniteSet(S), NEW w, \A x \in S : w[x] \in Int
    PROVE  SumFunctionOnSet(w, S) \in Int
  <1>1. PICK g : Adds(g, w, S) /\ SumFunctionOnSet(w, S) = g[S]
    BY SumIsSums
  <1>2. g[S] \in Int
    BY <1>1, SumsType
  <1> QED
    BY <1>1, <1>2

\* The sum over nothing is zero.
LEMMA SumEmpty == \A w : SumFunctionOnSet(w, {}) = 0
  <1> TAKE w
  <1>1. PICK g : Adds(g, w, {}) /\ SumFunctionOnSet(w, {}) = g[{}]
    BY SumIsSums, FS_EmptySet
  <1>2. g[{}] = SumStep(w, g, {})
    BY <1>1 DEF Adds, Sums
  <1> QED
    BY <1>1, <1>2 DEF SumStep

\* Sums of summands that agree are equal.
LEMMA SumSame ==
    ASSUME NEW S, IsFiniteSet(S), NEW w, NEW v, \A x \in S : v[x] = w[x]
    PROVE  SumFunctionOnSet(v, S) = SumFunctionOnSet(w, S)
  <1>1. PICK g : Adds(g, v, S) /\ SumFunctionOnSet(v, S) = g[S]
    BY SumIsSums
  <1>2. PICK h : Adds(h, w, S) /\ SumFunctionOnSet(w, S) = h[S]
    BY SumIsSums
  <1>3. g[S] = h[S]
    <2>1. Agree(v, w, S) /\ S \subseteq S
      BY DEF Agree
    <2> QED
      BY <1>1, <1>2, <2>1, SumsAgree
  <1> QED
    BY <1>1, <1>2, <1>3

\* w has integer values, at y and at the elements of S, where v has the same.
OneMore(w, v, S, y) ==
    /\ IsFiniteSet(S) /\ y \notin S
    /\ \A x \in S \cup {y} : w[x] \in Int
    /\ \A x \in S : v[x] = w[x]

\* A new element adds its summand; the others may come from another function.
LEMMA SumAdd ==
    \A w, v, S, y : OneMore(w, v, S, y) =>
        SumFunctionOnSet(w, S \cup {y}) = w[y] + SumFunctionOnSet(v, S)
  <1> SUFFICES ASSUME NEW w, NEW v, NEW S, NEW y, OneMore(w, v, S, y)
               PROVE  SumFunctionOnSet(w, S \cup {y}) = w[y] + SumFunctionOnSet(v, S)
    OBVIOUS
  <1> USE DEF OneMore
  <1> DEFINE R == S \cup {y}
  <1>1. IsFiniteSet(R)
    BY FS_AddElement
  <1>2. PICK g : Adds(g, v, S) /\ SumFunctionOnSet(v, S) = g[S]
    BY SumIsSums
  <1>3. PICK h : Adds(h, w, R) /\ SumFunctionOnSet(w, R) = h[R]
    BY <1>1, SumIsSums
  <1>4. R \ {y} = S /\ S \subseteq R /\ y \in R
    OBVIOUS
  <1>5. \A x \in R : w[x] \in Int
    OBVIOUS
  <1> HIDE DEF R
  <1>6. h[R] = w[y] + h[R \ {y}]
    BY <1>1, <1>3, <1>4, <1>5, SumsAnyLast
  <1>7. g[S] = h[S]
    <2>1. Agree(v, w, S)
      BY DEF Agree
    <2> QED
      BY <1>2, <1>3, <1>4, <2>1, SumsAgree
  <1>8. SumFunctionOnSet(w, R) = w[y] + SumFunctionOnSet(v, S)
    BY <1>2, <1>3, <1>4, <1>6, <1>7
  <1> QED
    BY <1>8 DEF R

\* The same of a function summed over its whole domain: its type, the empty
\* one, and one argument more.
LEMMA SumFunctionFacts ==
    /\ \A S : IsFiniteSet(S) =>
         \A w : DOMAIN w = S /\ (\A x \in S : w[x] \in Int) => SumFunction(w) \in Int
    /\ \A w : DOMAIN w = {} => SumFunction(w) = 0
  BY SumType, SumEmpty DEF SumFunction

\* A function with one argument more sums to its value there more.
LEMMA SumFunctionAdd ==
    \A w, v, S, y : OneMore(w, v, S, y) /\ DOMAIN v = S /\ DOMAIN w = S \cup {y}
                    => SumFunction(w) = w[y] + SumFunction(v)
  BY SumAdd DEF SumFunction

=============================================================================
