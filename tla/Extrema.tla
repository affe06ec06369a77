------------------------------ MODULE Extrema ------------------------------
(***************************************************************************)
(* Least and greatest elements, finite sets put in order, sums over finite *)
(* sets and sequences put together and taken apart: what the proofs use    *)
(* where one by induction would be usual.                                  *)
(***************************************************************************)
EXTENDS Integers, FiniteSets, Sequences, SequencesExt, FiniteSetsExt, FiniteSetTheorems,
        WellFoundedInduction, TLAPS

\* Every non-empty set of naturals has a least element: the form of the
\* least-number principle the lemmas below use.
LEMMA NaturalsHaveMinimum ==
  ASSUME NEW T, T \subseteq Nat, T # {}
  PROVE  \E x \in T : \A y \in T : x <= y
<1> DEFINE R == OpToRel(<, Nat)
<1>1. IsWellFoundedOn(R, Nat)
  BY NatLessThanWellFounded
<1>2. PICK x \in T : \A y \in T : ~ (<<y, x>> \in R)
  <2> HIDE DEF R
  <2> QED BY <1>1, WFMin
<1>3. \A y \in T : <<y, x>> \in R <=> y < x
  BY DEF OpToRel
<1>4. \A y \in T : ~ (y < x)
  <2> HIDE DEF R
  <2> QED BY <1>2, <1>3
<1>5. QED
  BY <1>4

\* A non-empty set of integers that is bounded above has a greatest element,
\* and FiniteSetsExt's Max is it.
LEMMA MaxOfBounded ==
  ASSUME NEW S, S \subseteq Int, S # {}, NEW n \in Int, \A x \in S : x <= n
  PROVE  Max(S) \in S /\ \A y \in S : y <= Max(S)
<1> DEFINE T == {n - x : x \in S}
<1>1. T \subseteq Nat /\ T # {}
  <2>1. \A x \in S : n - x \in Nat
    OBVIOUS
  <2>2. QED
    BY <2>1, Zenon
<1>2. PICK t \in T : \A u \in T : t <= u
  <2> HIDE DEF T
  <2> QED BY <1>1, NaturalsHaveMinimum
<1>3. PICK x \in S : t = n - x
  OBVIOUS
<1>4. ASSUME NEW y \in S
      PROVE  x >= y
  <2>1. n - y \in T
    OBVIOUS
  <2>2. n - x <= n - y
    <3> HIDE DEF T
    <3> QED BY <1>2, <1>3, <2>1
  <2>3. x \in Int /\ y \in Int
    OBVIOUS
  <2>4. QED
    BY <2>2, <2>3
<1>5. QED
  BY <1>4 DEF Max

\* Likewise for Min.
LEMMA MinOfBounded ==
  ASSUME NEW S, S \subseteq Nat, S # {}
  PROVE  Min(S) \in S /\ \A y \in S : Min(S) <= y
<1>1. PICK x \in S : \A y \in S : x <= y
  BY NaturalsHaveMinimum
<1>2. QED
  BY <1>1 DEF Min

\* The numbers of S can be listed in increasing order.
Increasing(s, n) == \A i, j \in 1..n : i < j => s[i] < s[j]

LEMMA IncreasingListing ==
  ASSUME NEW S, S \subseteq Nat, IsFiniteSet(S)
  PROVE  \E s \in [1..Cardinality(S) -> S] : Increasing(s, Cardinality(S))
<1> DEFINE Listed(T) == \E s \in [1..Cardinality(T) -> T] : Increasing(s, Cardinality(T))
           Unlisted(n) == \E T \in SUBSET Nat : IsFiniteSet(T) /\ Cardinality(T) = n /\ ~Listed(T)
           Bad == {n \in Nat : Unlisted(n)}
<1>1. SUFFICES ASSUME Bad # {} PROVE FALSE
  <2>1. Cardinality(S) \in Nat
    BY FS_CardinalityType
  <2>2. QED
    BY <2>1
<1>2. PICK n \in Bad : \A k \in Bad : n <= k
  <2>1. Bad \subseteq Nat
    OBVIOUS
  <2> HIDE DEF Bad
  <2>2. QED
    BY <1>1, <2>1, NaturalsHaveMinimum
<1>3. PICK T \in SUBSET Nat : IsFiniteSet(T) /\ Cardinality(T) = n /\ ~Listed(T)
  OBVIOUS
<1>4. n \in Nat
  OBVIOUS
<1>5. CASE T = {}
  <2>1. Cardinality(T) = 0
    BY <1>5, FS_EmptySet
  <2>2. 1..Cardinality(T) = {}
    BY <2>1
  <2>3. [i \in {} |-> 0] \in [1..Cardinality(T) -> T]
    BY <2>2
  <2>4. Increasing([i \in {} |-> 0], Cardinality(T))
    BY <2>2 DEF Increasing
  <2>5. QED
    BY <1>3, <2>3, <2>4
<1>6. CASE T # {}
  <2>1. PICK m \in T : \A x \in T : m <= x
    BY <1>6, NaturalsHaveMinimum
  <2> DEFINE U == T \ {m}
  <2>2. IsFiniteSet(U) /\ Cardinality(U) = n - 1 /\ Cardinality(U) \in Nat
    BY <1>3, <2>1, FS_RemoveElement, FS_CardinalityType
  <2>3. n - 1 \notin Bad
    <3>1. n - 1 \in Int /\ ~(n <= n - 1)
      BY <1>4
    <3> HIDE DEF Bad
    <3>2. QED
      BY <1>2, <3>1
  <2>4. Listed(U)
    <3>1. ~Unlisted(n - 1)
      BY <2>2, <2>3
    <3>2. U \in SUBSET Nat
      OBVIOUS
    <3>3. QED
      BY <2>2, <3>1, <3>2
  <2>5. PICK g \in [1..n - 1 -> U] : Increasing(g, n - 1)
    BY <2>2, <2>4
  <2> DEFINE f == [i \in 1..n |-> IF i = 1 THEN m ELSE g[i - 1]]
  <2>6. f \in [1..n -> T]
    <3>1. ASSUME NEW i \in 1..n, i # 1 PROVE g[i - 1] \in T
      <4>1. i - 1 \in 1..n - 1
        BY <1>4, <3>1
      <4>2. QED
        BY <2>5, <4>1
    <3>2. QED
      BY <2>1, <3>1
  <2>7. ASSUME NEW i \in 1..n, NEW j \in 1..n, i < j
        PROVE  f[i] < f[j]
    <3>1. j - 1 \in 1..n - 1 /\ f[j] = g[j - 1]
      BY <1>4, <2>7
    <3>2. g[j - 1] \in U
      BY <2>5, <3>1
    <3>3. CASE i = 1
      <4>1. f[i] = m /\ m \in Nat /\ g[j - 1] \in Nat /\ g[j - 1] # m /\ m <= g[j - 1]
        BY <2>1, <3>2, <3>3
      <4>2. QED
        BY <3>1, <4>1
    <3>4. CASE i # 1
      <4>1. i - 1 \in 1..n - 1 /\ i - 1 < j - 1 /\ f[i] = g[i - 1]
        BY <1>4, <2>7, <3>4
      <4>2. QED
        BY <2>5, <3>1, <4>1 DEF Increasing
    <3>5. QED
      BY <3>3, <3>4
  <2>8. QED
    <3>1. Increasing(f, n)
      <4> HIDE DEF f
      <4>1. QED
        BY <2>7 DEF Increasing
    <3>2. QED
      BY <1>3, <2>6, <3>1
<1>7. QED
  BY <1>5, <1>6

\* The members of S with fewer than n members below them.
LowestOf(S, n) == {p \in S : Cardinality({q \in S : q < p}) < n}

\* In an increasing listing of S the members below the j-th are the j - 1
\* before it.
LEMMA BelowInListing ==
  ASSUME NEW S, S \subseteq Nat, IsFiniteSet(S),
         NEW s \in Surjection(1..Cardinality(S), S), Increasing(s, Cardinality(S)),
         NEW j \in 1..Cardinality(S)
  PROVE  Cardinality({q \in S : q < s[j]}) = j - 1
<1> DEFINE m == Cardinality(S)
           below == {q \in S : q < s[j]}
           g == [i \in 1..j - 1 |-> s[i]]
<1>1. m \in Nat
  BY FS_CardinalityType
<1>2. s \in [1..m -> S] /\ \A q \in S : \E i \in 1..m : s[i] = q
  BY DEF Surjection
<1>3. \A i, k \in 1..m : i < k => s[i] < s[k]
  BY DEF Increasing
<1> HIDE DEF m
<1>4. j \in 1..m /\ j \in Nat
  BY <1>1 DEF m
<1>5. \A i \in 1..m : s[i] \in Nat
  BY <1>2
<1>6. \A i \in 1..j - 1 : i \in 1..m /\ i < j
  BY <1>1, <1>4
<1>7. g \in [1..j - 1 -> below]
  BY <1>2, <1>3, <1>4, <1>6
<1>8. ASSUME NEW i \in 1..j - 1, NEW k \in 1..j - 1, g[i] = g[k]
      PROVE  i = k
  <2>1. s[i] = s[k] /\ i \in 1..m /\ k \in 1..m
    BY <1>6, <1>8
  <2>2. ~(i < k) /\ ~(k < i)
    BY <1>3, <1>5, <2>1
  <2>3. QED
    BY <2>2
<1>9. ASSUME NEW q \in below
      PROVE  \E i \in 1..j - 1 : g[i] = q
  <2>1. PICK i \in 1..m : s[i] = q
    BY <1>2
  <2>2. s[i] < s[j]
    BY <2>1
  <2>3. i < j
    <3>1. i # j /\ ~(j < i)
      BY <1>3, <1>4, <1>5, <2>2
    <3>2. QED
      BY <1>4, <3>1
  <2>4. i \in 1..j - 1
    BY <1>4, <2>3
  <2>5. QED
    BY <2>1, <2>4
<1>10. g \in Bijection(1..j - 1, below)
  <2> HIDE DEF g, below
  <2>1. QED
    BY <1>7, <1>8, <1>9 DEF Bijection, Injection, Surjection, IsInjective
<1>11. ExistsBijection(1..j - 1, below)
  <2> HIDE DEF g, below
  <2>1. QED
    BY <1>10 DEF ExistsBijection
<1>12. IsFiniteSet(1..j - 1) /\ Cardinality(1..j - 1) = j - 1
  <2>1. 1 \in Int /\ j - 1 \in Int
    BY <1>4
  <2>2. IsFiniteSet(1..j - 1) /\ Cardinality(1..j - 1) = IF 1 > j - 1 THEN 0 ELSE (j - 1) - 1 + 1
    BY ONLY <2>1, FS_Interval
  <2>3. QED
    BY <1>4, <2>2
<1>13. QED
  <2> HIDE DEF below
  <2>1. Cardinality(below) = j - 1
    BY <1>11, <1>12, FS_Bijection
  <2>2. QED
    BY <2>1 DEF below

\* The lowest n of a finite set of naturals are n, or all there are.
LEMMA LowestCount ==
  ASSUME NEW S, S \subseteq Nat, IsFiniteSet(S), NEW n \in Nat
  PROVE  /\ Cardinality(S) >= n => Cardinality(LowestOf(S, n)) = n
         /\ Cardinality(S) < n => LowestOf(S, n) = S
<1> DEFINE m == Cardinality(S)
<1>1. m \in Nat
  BY FS_CardinalityType
<1>2. ASSUME m < n PROVE LowestOf(S, n) = S
  <2>1. ASSUME NEW p \in S PROVE Cardinality({q \in S : q < p}) < n
    <3>1. {q \in S : q < p} \in SUBSET S
      OBVIOUS
    <3>2. /\ Cardinality({q \in S : q < p}) <= m
          /\ Cardinality({q \in S : q < p}) \in Nat
      BY <3>1, FS_Subset, FS_CardinalityType
    <3>3. QED
      BY <1>1, <1>2, <3>2
  <2>2. QED
    BY <2>1 DEF LowestOf
<1>3. ASSUME m >= n PROVE Cardinality(LowestOf(S, n)) = n
  <2>1. PICK s \in [1..m -> S] : Increasing(s, m)
    BY IncreasingListing
  <2>2. s \in Injection(1..m, S)
    <3>1. \A i \in 1..m : s[i] \in Nat
      BY <2>1
    <3>2. \A i, k \in 1..m : s[i] = s[k] => i = k
      <4>1. SUFFICES ASSUME NEW i \in 1..m, NEW k \in 1..m, s[i] = s[k] PROVE i = k
        OBVIOUS
      <4>2. ~(i < k) /\ ~(k < i)
        BY <2>1, <3>1, <4>1 DEF Increasing
      <4>3. QED
        BY <4>2
    <3>3. QED
      BY <2>1, <3>2 DEF Injection, IsInjective
  <2>3. s \in Surjection(1..m, S)
    <3>1. Cardinality(1..m) = m
      <4>1. Cardinality(1..m) = IF 1 > m THEN 0 ELSE m - 1 + 1
        BY <1>1, FS_Interval
      <4>2. QED
        BY <1>1, <4>1
    <3>2. QED
      BY <2>2, <3>1, FS_Injection
  <2>4. \A j \in 1..m : Cardinality({q \in S : q < s[j]}) = j - 1
    BY <2>1, <2>3, BelowInListing
  <2>5. \A j \in 1..m : s[j] \in LowestOf(S, n) <=> j \in 1..n
    <3>1. SUFFICES ASSUME NEW j \in 1..m PROVE s[j] \in LowestOf(S, n) <=> j <= n
      BY <1>1
    <3>2. s[j] \in S
      BY <2>1
    <3>3. s[j] \in LowestOf(S, n) <=> j - 1 < n
      BY <2>4, <3>2 DEF LowestOf
    <3>4. QED
      BY <1>1, <3>3
  <2> DEFINE g == [j \in 1..n |-> s[j]]
             low == LowestOf(S, n)
  <2>6. \A j \in 1..n : j \in 1..m /\ g[j] = s[j]
    BY <1>1, <1>3
  <2>7. low \subseteq S
    BY DEF LowestOf
  <2> HIDE DEF low, m
  <2>8. g \in [1..n -> low]
    BY <2>5, <2>6 DEF low
  <2>9. \A i, k \in 1..n : g[i] = g[k] => i = k
    <3> HIDE DEF g
    <3>1. QED
      BY <2>2, <2>6 DEF Injection, IsInjective
  <2>10. \A q \in low : \E j \in 1..n : g[j] = q
    <3>1. SUFFICES ASSUME NEW q \in low PROVE \E j \in 1..n : g[j] = q
      OBVIOUS
    <3>2. PICK j \in 1..m : s[j] = q
      BY <2>3, <2>7 DEF Surjection
    <3>3. j \in 1..n
      BY <2>5, <3>2 DEF low
    <3>4. QED
      BY <2>6, <3>2, <3>3
  <2>11. ExistsBijection(1..n, low)
    <3> HIDE DEF g
    <3>1. g \in Bijection(1..n, low)
      BY <2>8, <2>9, <2>10 DEF Bijection, Injection, Surjection, IsInjective
    <3>2. QED
      BY <3>1 DEF ExistsBijection
  <2>12. IsFiniteSet(1..n) /\ Cardinality(1..n) = n
    <3>1. IsFiniteSet(1..n) /\ Cardinality(1..n) = IF 1 > n THEN 0 ELSE n - 1 + 1
      BY FS_Interval
    <3>2. QED
      BY <3>1
  <2>13. QED
    BY <2>11, <2>12, FS_Bijection DEF low
<1>4. QED
  BY <1>2, <1>3

-----------------------------------------------------------------------------
(* Induction, with the numbers or the sets it is about as a set.           *)

\* A set with 0 in it and the successor of each natural in it has all naturals.
LEMMA NumbersByInduction ==
  ASSUME NEW G, 0 \in G, \A n \in Nat : n \in G => n + 1 \in G
  PROVE  \A n \in Nat : n \in G
<1> DEFINE Bad == Nat \ G
<1>1. SUFFICES ASSUME Bad # {} PROVE FALSE
  OBVIOUS
<1>2. PICK n \in Bad : \A k \in Bad : n <= k
  <2>1. Bad \subseteq Nat
    OBVIOUS
  <2> HIDE DEF Bad
  <2>2. QED
    BY <1>1, <2>1, NaturalsHaveMinimum
<1>3. n \in Nat /\ n \notin G /\ n # 0
  OBVIOUS
<1>4. n - 1 \in Nat /\ n - 1 \notin Bad
  <2>1. n - 1 \in Nat /\ ~(n <= n - 1)
    BY <1>3
  <2> HIDE DEF Bad
  <2>2. QED
    BY <1>2, <2>1
<1>5. n - 1 \in G /\ (n - 1) + 1 = n
  BY <1>3, <1>4
<1>6. QED
  BY <1>3, <1>4, <1>5

\* A set of subsets of a finite set that holds every subset whose smaller subsets
\* it holds has the whole set in it.
LEMMA SubsetsByInduction ==
  ASSUME NEW S, IsFiniteSet(S), NEW G,
         \A T \in SUBSET S : (\A x \in T : T \ {x} \in G) => T \in G
  PROVE  S \in G
<1> DEFINE Upto == {n \in Nat : \A T \in SUBSET S : Cardinality(T) = n => T \in G}
<1>1. \A T \in SUBSET S : IsFiniteSet(T) /\ Cardinality(T) \in Nat
  BY FS_Subset, FS_CardinalityType
<1>2. 0 \in Upto
  <2>1. ASSUME NEW T \in SUBSET S, Cardinality(T) = 0 PROVE T \in G
    <3>1. T = {}
      BY <1>1, <2>1, FS_EmptySet
    <3>2. QED
      BY <3>1
  <2>2. QED
    BY <2>1
<1>3. ASSUME NEW n \in Nat, n \in Upto PROVE n + 1 \in Upto
  <2>1. ASSUME NEW T \in SUBSET S, Cardinality(T) = n + 1 PROVE T \in G
    <3>1. ASSUME NEW x \in T PROVE T \ {x} \in G
      <4>1. Cardinality(T \ {x}) = Cardinality(T) - 1
        BY <1>1, FS_RemoveElement
      <4>2. Cardinality(T \ {x}) = n /\ T \ {x} \in SUBSET S
        BY <2>1, <4>1
      <4>3. QED
        BY <1>3, <4>2
    <3>2. QED
      BY <3>1
  <2>2. QED
    BY <2>1
<1>4. \A n \in Nat : n \in Upto
  <2> HIDE DEF Upto
  <2> QED BY <1>2, <1>3, NumbersByInduction
<1>5. QED
  BY <1>1, <1>4

-----------------------------------------------------------------------------
(* Finite sets put in order by a relation, given as its set of pairs.      *)

\* R tells any two elements of S apart, one way only, and is transitive on S.
StrictlyOrders(R, S) ==
  /\ \A x, y \in S : x # y => <<x, y>> \in R \/ <<y, x>> \in R
  /\ \A x, y \in S : <<x, y>> \in R => x # y /\ <<y, x>> \notin R
  /\ \A x, y, z \in S : <<x, y>> \in R /\ <<y, z>> \in R => <<x, z>> \in R

\* A finite set so ordered has a last element.
LEMMA LastInOrder ==
  ASSUME NEW S, IsFiniteSet(S), S # {}, NEW R, StrictlyOrders(R, S)
  PROVE  \E m \in S : \A x \in S \ {m} : <<x, m>> \in R
<1> DEFINE G == {T \in SUBSET S : T = {} \/ \E m \in T : \A x \in T \ {m} : <<x, m>> \in R}
<1>1. ASSUME NEW T \in SUBSET S, \A x \in T : T \ {x} \in G
      PROVE  T \in G
  <2>1. CASE T = {}
    BY <2>1
  <2>2. ASSUME NEW x \in T PROVE \E m \in T : \A y \in T \ {m} : <<y, m>> \in R
    <3>1. CASE T \ {x} = {}
      BY <3>1
    <3>2. CASE T \ {x} # {}
      <4>1. PICK m \in T \ {x} : \A y \in (T \ {x}) \ {m} : <<y, m>> \in R
        BY <1>1, <2>2, <3>2
      <4>2. x \in S /\ m \in S /\ x # m
        BY <4>1
      <4>3. CASE <<x, m>> \in R
        BY <4>1, <4>3
      <4>4. CASE <<m, x>> \in R
        <5>1. \A y \in T \ {x} : <<y, x>> \in R
          BY <4>1, <4>2, <4>4 DEF StrictlyOrders
        <5>2. QED
          BY <5>1
      <4>5. QED
        BY <4>2, <4>3, <4>4 DEF StrictlyOrders
    <3>3. QED
      BY <3>1, <3>2
  <2>3. QED
    BY <2>1, <2>2
<1>2. S \in G
  <2> HIDE DEF G
  <2> QED BY <1>1, SubsetsByInduction
<1>3. QED
  BY <1>2

\* It can be listed in order.
LEMMA ListedInOrder ==
  ASSUME NEW S, IsFiniteSet(S), NEW R, StrictlyOrders(R, S)
  PROVE  \E s \in [1 .. Cardinality(S) -> S] :
           \A p, q \in 1 .. Cardinality(S) : p < q => <<s[p], s[q]>> \in R
<1> DEFINE Listed(T, s) == /\ s \in [1 .. Cardinality(T) -> T]
                           /\ \A p, q \in 1 .. Cardinality(T) : p < q => <<s[p], s[q]>> \in R
           G == {T \in SUBSET S : \E s : Listed(T, s)}
<1>1. ASSUME NEW T \in SUBSET S, \A x \in T : T \ {x} \in G
      PROVE  T \in G
  <2>1. IsFiniteSet(T) /\ Cardinality(T) \in Nat
    BY FS_Subset, FS_CardinalityType
  <2>2. CASE T = {}
    <3>1. Cardinality(T) = 0 /\ 1 .. 0 = {}
      BY <2>2, FS_EmptySet
    <3>2. Listed(T, [p \in {} |-> p])
      BY <3>1
    <3>3. QED
      BY <3>2
  <2>3. CASE T # {}
    <3>1. StrictlyOrders(R, T)
      BY DEF StrictlyOrders
    <3>2. PICK m \in T : \A x \in T \ {m} : <<x, m>> \in R
      BY <2>1, <2>3, <3>1, LastInOrder
    <3>3. PICK s : Listed(T \ {m}, s)
      BY <1>1
    <3> DEFINE n == Cardinality(T)
               u == [p \in 1 .. n |-> IF p = n THEN m ELSE s[p]]
    <3>4. n \in Nat /\ n # 0 /\ Cardinality(T \ {m}) = n - 1
      BY <2>1, <2>3, FS_RemoveElement, FS_EmptySet
    <3> HIDE DEF n
    <3>5. /\ s \in [1 .. n - 1 -> T \ {m}]
          /\ \A p, q \in 1 .. n - 1 : p < q => <<s[p], s[q]>> \in R
      BY <3>3, <3>4
    <3>6. \A p \in 1 .. n : p # n => p \in 1 .. n - 1 /\ s[p] \in T \ {m}
      BY <3>4, <3>5
    <3>7. u \in [1 .. n -> T]
      BY <3>6
    <3>8. ASSUME NEW p \in 1 .. n, NEW q \in 1 .. n, p < q PROVE <<u[p], u[q]>> \in R
      <4>1. p # n /\ p \in 1 .. n - 1 /\ u[p] = s[p]
        BY <3>4, <3>8
      <4>2. CASE q = n
        BY <3>2, <3>6, <4>1, <4>2
      <4>3. CASE q # n
        <5>1. q \in 1 .. n - 1 /\ u[q] = s[q]
          BY <3>4, <4>3
        <5>2. QED
          BY <3>5, <3>8, <4>1, <5>1
      <4>4. QED
        BY <4>2, <4>3
    <3> HIDE DEF u
    <3>9. Listed(T, u)
      BY <3>7, <3>8 DEF n
    <3>10. QED
      BY <3>9
  <2>4. QED
    BY <2>2, <2>3
<1>2. S \in G
  <2> HIDE DEF G
  <2> QED BY <1>1, SubsetsByInduction
<1>3. QED
  BY <1>2

\* A listing of as many elements as the set has, none of them twice, has them all.
LEMMA ListingsAreOnto ==
  ASSUME NEW S, IsFiniteSet(S), NEW s \in [1 .. Cardinality(S) -> S],
         \A p, q \in 1 .. Cardinality(S) : p < q => s[p] # s[q]
  PROVE  \A x \in S : \E p \in 1 .. Cardinality(S) : s[p] = x
<1> DEFINE n == Cardinality(S)
           T == {s[p] : p \in 1 .. n}
<1>1. n \in Nat /\ T \subseteq S
  BY FS_CardinalityType
<1>2. ExistsBijection(1 .. n, T)
  <2>1. s \in [1 .. n -> T]
    OBVIOUS
  <2>2. \A p, q \in 1 .. n : s[p] = s[q] => p = q
    <3>1. ASSUME NEW p \in 1 .. n, NEW q \in 1 .. n, s[p] = s[q], p # q PROVE FALSE
      <4>1. p < q \/ q < p
        BY <1>1, <3>1
      <4>2. QED
        BY <3>1, <4>1
    <3>2. QED
      BY <3>1
  <2>3. \A x \in T : \E p \in 1 .. n : s[p] = x
    OBVIOUS
  <2> HIDE DEF T, n
  <2>4. s \in Bijection(1 .. n, T)
    BY <2>1, <2>2, <2>3 DEF Bijection, Injection, Surjection, IsInjective
  <2>5. QED
    BY <2>4 DEF ExistsBijection
<1>3. IsFiniteSet(T) /\ Cardinality(T) = n
  <2> HIDE DEF T, n
  <2> QED BY <1>1, <1>2, FS_CountingElements, FS_Subset
<1>4. T = S
  <2> HIDE DEF T
  <2> QED BY <1>1, <1>3, FS_Subset
<1>5. QED
  BY <1>4

\* How many members of S lie below each: the numbers from 0 on, in the members' order.
LEMMA RanksOfNumbers ==
  ASSUME NEW S, S \subseteq Nat, IsFiniteSet(S)
  PROVE  LET rank == [p \in S |-> Cardinality({q \in S : q < p})]
         IN  /\ \A p \in S : rank[p] \in 0 .. Cardinality(S) - 1
             /\ \A p, q \in S : p < q => rank[p] < rank[q]
             /\ \A r \in 0 .. Cardinality(S) - 1 : \E p \in S : rank[p] = r
<1> DEFINE m == Cardinality(S)
           rank == [p \in S |-> Cardinality({q \in S : q < p})]
<1>1. m \in Nat
  BY FS_CardinalityType
<1>2. PICK s \in [1 .. m -> S] : Increasing(s, m)
  BY IncreasingListing
<1>3. \A i, j \in 1 .. m : i < j => s[i] < s[j]
  BY <1>2 DEF Increasing
<1>4. \A i \in 1 .. m : s[i] \in S /\ s[i] \in Nat
  BY <1>2
<1>5. \A p \in S : \E j \in 1 .. m : s[j] = p
  <2>1. \A i, j \in 1 .. m : i < j => s[i] # s[j]
    BY <1>3, <1>4
  <2>2. IsFiniteSet(S)
    OBVIOUS
  <2>3. QED
    BY ONLY <1>2, <2>1, <2>2, ListingsAreOnto
<1>6. \A j \in 1 .. m : rank[s[j]] = j - 1
  <2>1. s \in Surjection(1 .. m, S)
    BY <1>2, <1>5 DEF Surjection
  <2>2. \A j \in 1 .. m : Cardinality({q \in S : q < s[j]}) = j - 1
    BY <1>2, <2>1, BelowInListing
  <2>3. QED
    BY <1>4, <2>2
<1> HIDE DEF rank, m
<1>7. \A p \in S : rank[p] \in 0 .. m - 1
  BY <1>1, <1>5, <1>6
<1>8. ASSUME NEW p \in S, NEW q \in S, p < q PROVE rank[p] < rank[q]
  <2>1. PICK i \in 1 .. m : s[i] = p
    BY <1>5
  <2>2. PICK j \in 1 .. m : s[j] = q
    BY <1>5
  <2>3. ~(j < i) /\ i # j
    BY <1>3, <1>4, <1>8, <2>1, <2>2
  <2>4. rank[p] = i - 1 /\ rank[q] = j - 1
    BY <1>6, <2>1, <2>2
  <2>5. QED
    BY <1>1, <2>3, <2>4
<1>9. ASSUME NEW r \in 0 .. m - 1 PROVE \E p \in S : rank[p] = r
  <2>1. r + 1 \in 1 .. m /\ (r + 1) - 1 = r
    BY <1>1
  <2>2. QED
    BY <1>4, <1>6, <2>1
<1>10. QED
  BY <1>7, <1>8, <1>9 DEF rank, m

\* A listing that only grows and reaches every number there is lists each at its place.
LEMMA GrowingOntoIsIdentity ==
  ASSUME NEW m \in Nat, NEW n \in Nat, NEW f \in [1 .. m -> 1 .. n],
         Increasing(f, m), \A k \in 1 .. n : k \in Range(f)
  PROVE  m = n /\ \A k \in 1 .. n : f[k] = k
<1>0. /\ \A i, j \in 1 .. m : i < j => f[i] < f[j]
      /\ \A k \in 1 .. n : \E i \in 1 .. m : f[i] = k
  BY DEF Increasing, Range
<1> DEFINE Good == {k \in Nat : \A j \in 1 .. k : j \in 1 .. n => j \in 1 .. m /\ f[j] = j}
<1>1. 0 \in Good
  OBVIOUS
<1>2. ASSUME NEW k \in Nat, k \in Good PROVE k + 1 \in Good
  <2>1. ASSUME k + 1 \in 1 .. n PROVE k + 1 \in 1 .. m /\ f[k + 1] = k + 1
    <3>1. PICK i \in 1 .. m : f[i] = k + 1
      BY <1>0, <2>1
    <3>2. \A j \in 1 .. k : j \in 1 .. m /\ f[j] = j
      BY <1>2, <2>1
    <3>3. i \notin 1 .. k
      BY <3>1, <3>2
    <3>4. i >= k + 1 /\ k + 1 \in 1 .. m
      BY <3>3
    <3>5. f[k + 1] <= k + 1 /\ f[k + 1] \in 1 .. n
      <4>1. f[k + 1] \in 1 .. n
        BY <3>4
      <4>2. CASE i = k + 1
        BY <3>1, <4>1, <4>2
      <4>3. CASE k + 1 < i
        <5>1. f[k + 1] < f[i]
          BY <1>0, <3>4, <4>3
        <5>2. QED
          BY <3>1, <4>1, <5>1
      <4>4. QED
        BY <3>4, <4>2, <4>3
    <3>6. f[k + 1] >= k + 1
      <4>1. CASE k = 0
        BY <3>5, <4>1
      <4>2. CASE k # 0
        <5>1. k \in 1 .. k /\ k \in 1 .. m /\ k < k + 1
          BY <3>2, <4>2
        <5>2. f[k] = k /\ f[k] < f[k + 1]
          BY <1>0, <3>2, <3>4, <5>1
        <5>3. QED
          BY <3>5, <5>2
      <4>3. QED
        BY <4>1, <4>2
    <3>7. QED
      BY <3>4, <3>5, <3>6
  <2>2. \A j \in 1 .. k + 1 : j \in 1 .. k \/ j = k + 1
    OBVIOUS
  <2>3. QED
    BY <1>2, <2>1, <2>2
<1>3. n \in Good
  <2> HIDE DEF Good
  <2> QED BY <1>1, <1>2, NumbersByInduction
<1>4. \A k \in 1 .. n : k \in 1 .. m /\ f[k] = k
  BY <1>3
<1>5. n <= m
  BY <1>4
<1>6. ~(n < m)
  <2>1. SUFFICES ASSUME n < m PROVE FALSE
    OBVIOUS
  <2>2. n + 1 \in 1 .. m /\ f[n + 1] \in 1 .. n
    BY <2>1
  <2>3. f[f[n + 1]] = f[n + 1] /\ f[n + 1] < n + 1 /\ f[n + 1] \in 1 .. m
    BY <1>4, <2>2
  <2>4. f[f[n + 1]] < f[n + 1]
    BY <1>0, <2>2, <2>3
  <2>5. QED
    BY <2>2, <2>3, <2>4
<1>7. QED
  BY <1>4, <1>5, <1>6

\* Every number behind 0 lies in one of the blocks of a length.
LEMMA NumbersInBlocks ==
  ASSUME NEW per \in Nat, per # 0, NEW n \in Nat
  PROVE  \E r \in Nat : \E s \in 1 .. per : n + 1 = per * r + s
<1> DEFINE first == [r \in Nat |-> per * r]
           Good == {k \in Nat : \E r \in Nat : \E s \in 1 .. per : k + 1 = first[r] + s}
<1>1. first \in [Nat -> Nat] /\ first[0] = 0 /\ \A r \in Nat : first[r + 1] = first[r] + per
  <2>1. \A r \in Nat : per * r \in Nat /\ per * (r + 1) = per * r + per /\ r + 1 \in Nat
    OBVIOUS
  <2>2. per * 0 = 0
    OBVIOUS
  <2>3. QED
    BY <2>1, <2>2
<1> HIDE DEF first
<1>2. 0 \in Good
  <2>1. 1 \in 1 .. per /\ 0 + 1 = first[0] + 1
    BY <1>1
  <2>2. QED
    BY <2>1
<1>3. ASSUME NEW k \in Nat, k \in Good PROVE k + 1 \in Good
  <2>1. PICK r \in Nat : \E s \in 1 .. per : k + 1 = first[r] + s
    BY <1>3
  <2>2. PICK s \in 1 .. per : k + 1 = first[r] + s
    BY <2>1
  <2>3. first[r] \in Nat /\ first[r + 1] = first[r] + per /\ r + 1 \in Nat
    BY <1>1
  <2>4. CASE s < per
    <3>1. s + 1 \in 1 .. per /\ (k + 1) + 1 = first[r] + (s + 1)
      BY <2>2, <2>3, <2>4
    <3>2. QED
      BY <3>1
  <2>5. CASE ~(s < per)
    <3>1. 1 \in 1 .. per /\ (k + 1) + 1 = first[r + 1] + 1
      BY <2>2, <2>3, <2>5
    <3>2. QED
      BY <2>3, <3>1
  <2>6. QED
    BY <2>4, <2>5
<1>4. n \in Good
  <2> HIDE DEF Good
  <2> QED BY <1>2, <1>3, NumbersByInduction
<1>5. PICK r \in Nat : \E s \in 1 .. per : n + 1 = first[r] + s
  BY <1>4
<1>6. first[r] = per * r
  BY DEF first
<1>7. QED
  BY <1>5, <1>6

-----------------------------------------------------------------------------
(* Sums over finite sets.                                                  *)

\* The sum of a function's values over a set, as FiniteSetsExt computes it.
SumOver(f, S) == MapThenSumSet(LAMBDA x : f[x], S)

Chosen(s) == CHOOSE x \in s : TRUE
SumsSubsets(f, S, h) ==
  h = [s \in SUBSET S |-> IF s = {} THEN 0 ELSE f[Chosen(s)] + h[s \ {Chosen(s)}]]

\* The recursion behind a sum has a solution.
LEMMA SumsExist ==
  ASSUME NEW S, IsFiniteSet(S), NEW f, \A x \in S : f[x] \in Int
  PROVE  \E h : SumsSubsets(f, S, h)
<1> DEFINE Small(n) == {s \in SUBSET S : Cardinality(s) <= n}
           Solves(h, n) ==
             \A s \in Small(n) :
               h[s] = IF s = {} THEN 0 ELSE f[Chosen(s)] + h[s \ {Chosen(s)}]
           Solved == {n \in Nat : \E h : Solves(h, n)}
<1>1. \A s \in SUBSET S : IsFiniteSet(s) /\ Cardinality(s) \in Nat
  BY FS_Subset, FS_CardinalityType
<1>2. 0 \in Solved
  <2>1. \A s \in Small(0) : s = {}
    BY <1>1, FS_EmptySet
  <2>2. Solves([s \in {{}} |-> 0], 0)
    BY <2>1
  <2>3. QED
    BY <2>2
<1>3. ASSUME NEW n \in Nat, n \in Solved PROVE n + 1 \in Solved
  <2>1. PICK h : Solves(h, n)
    BY <1>3
  <2> DEFINE g == [s \in SUBSET S |-> IF s = {} THEN 0 ELSE f[Chosen(s)] + h[s \ {Chosen(s)}]]
  <2>2. ASSUME NEW s \in Small(n) PROVE g[s] = h[s]
    BY <2>1
  <2>3. ASSUME NEW s \in Small(n + 1), s # {}
        PROVE  s \ {Chosen(s)} \in Small(n)
    <3>1. Chosen(s) \in s
      BY <2>3 DEF Chosen
    <3>2. Cardinality(s \ {Chosen(s)}) = Cardinality(s) - 1
      BY <1>1, <3>1, FS_RemoveElement
    <3>3. QED
      BY <1>1, <3>2
  <2>4. Solves(g, n + 1)
    <3>1. ASSUME NEW s \in Small(n + 1), s # {}
          PROVE  g[s] = f[Chosen(s)] + g[s \ {Chosen(s)}]
      BY <2>2, <2>3, <3>1
    <3>2. ASSUME NEW s \in Small(n + 1), s = {}
          PROVE  g[s] = 0
      BY <3>2
    <3> HIDE DEF g
    <3>3. QED
      BY <3>1, <3>2
  <2> HIDE DEF Solves, g
  <2>5. QED
    BY <2>4
<1>4. Cardinality(S) \in Solved
  <2> HIDE DEF Solved
  <2>1. \A n \in Nat : n \in Solved
    BY <1>2, <1>3, NumbersByInduction
  <2>2. QED
    BY <1>1, <2>1
<1>5. PICK h : Solves(h, Cardinality(S))
  BY <1>4
<1>6. Small(Cardinality(S)) = SUBSET S
  BY FS_Subset
<1> DEFINE g == [s \in SUBSET S |-> h[s]]
<1>7. g = [s \in SUBSET S |-> IF s = {} THEN 0 ELSE f[Chosen(s)] + g[s \ {Chosen(s)}]]
  BY <1>5, <1>6
<1>8. QED
  BY <1>7 DEF SumsSubsets

\* h gives the sum over every subset of S.
GivesSums(h, f, S) ==
  \A s \in SUBSET S : h[s] = IF s = {} THEN 0 ELSE f[Chosen(s)] + h[s \ {Chosen(s)}]

\* So the recursion computes the sums of the subsets.
LEMMA SumOfSubsets ==
  ASSUME NEW S, IsFiniteSet(S), NEW f, \A x \in S : f[x] \in Int
  PROVE  \E h : SumOver(f, S) = h[S] /\ GivesSums(h, f, S)
<1> DEFINE h == CHOOSE h : SumsSubsets(f, S, h)
<1>1. SumOver(f, S) = h[S]
  BY DEF SumOver, SumsSubsets, Chosen, MapThenSumSet, MapThenFoldSet
<1>2. SumsSubsets(f, S, h)
  BY SumsExist
<1> HIDE DEF h
<1>3. GivesSums(h, f, S)
  BY <1>2 DEF SumsSubsets, GivesSums
<1>4. QED
  BY <1>1, <1>3

\* Whatever solves the recursion, the sum is the same.
LEMMA SumsAgree ==
  ASSUME NEW S, IsFiniteSet(S), NEW f, NEW g, NEW h,
         GivesSums(g, f, S), GivesSums(h, f, S)
  PROVE  g[S] = h[S]
<1> DEFINE Good == {T \in SUBSET S : g[T] = h[T]}
<1>1. ASSUME NEW T \in SUBSET S, \A x \in T : T \ {x} \in Good
      PROVE  T \in Good
  <2>1. CASE T = {}
    BY <2>1 DEF GivesSums
  <2>2. CASE T # {}
    <3>1. Chosen(T) \in T
      BY <2>2 DEF Chosen
    <3>2. g[T \ {Chosen(T)}] = h[T \ {Chosen(T)}]
      BY <1>1, <3>1
    <3>3. QED
      BY <2>2, <3>2 DEF GivesSums
  <2>3. QED
    BY <2>1, <2>2
<1>2. S \in Good
  <2> HIDE DEF Good
  <2>1. QED
    BY <1>1, SubsetsByInduction
<1>3. QED
  BY <1>2

\* A sum is its term at any element and the sum of the others.
LEMMA SumLaws ==
  ASSUME NEW S, IsFiniteSet(S), NEW f, \A x \in S : f[x] \in Int
  PROVE  /\ SumOver(f, S) \in Int
         /\ SumOver(f, {}) = 0
         /\ \A x \in S : SumOver(f, S) = f[x] + SumOver(f, S \ {x})
<1>1. PICK h : SumOver(f, S) = h[S] /\ GivesSums(h, f, S)
  BY SumOfSubsets
<1>2. ASSUME NEW T \in SUBSET S PROVE SumOver(f, T) = h[T]
  <2>1. IsFiniteSet(T) /\ \A x \in T : f[x] \in Int
    BY FS_Subset
  <2>2. PICK g : SumOver(f, T) = g[T] /\ GivesSums(g, f, T)
    BY <2>1, SumOfSubsets
  <2>3. GivesSums(h, f, T)
    BY <1>1 DEF GivesSums
  <2>4. g[T] = h[T]
    BY <2>1, <2>2, <2>3, SumsAgree
  <2>5. QED
    BY <2>2, <2>4
<1>3. ASSUME NEW T \in SUBSET S, T # {}
      PROVE  Chosen(T) \in T /\ h[T] = f[Chosen(T)] + h[T \ {Chosen(T)}]
  BY <1>1, <1>3 DEF Chosen, GivesSums
<1>4. h[{}] = 0
  BY <1>1 DEF GivesSums
<1> DEFINE Good == {T \in SUBSET S : /\ h[T] \in Int
                                     /\ \A x \in T : h[T \ {x}] \in Int /\ h[T] = f[x] + h[T \ {x}]}
<1>5. ASSUME NEW T \in SUBSET S, \A x \in T : T \ {x} \in Good
      PROVE  T \in Good
  <2>1. CASE T = {}
    BY <1>4, <2>1
  <2>2. CASE T # {}
    <3> DEFINE y == Chosen(T)
    <3>1. y \in T /\ h[T] = f[y] + h[T \ {y}]
      BY <1>3, <2>2
    <3> HIDE DEF y
    <3>2. ASSUME NEW x \in T
          PROVE  h[T \ {x}] \in Int /\ h[T] = f[x] + h[T \ {x}]
      <4>1. CASE x = y
        BY <1>5, <3>1, <4>1
      <4>2. CASE x # y
        <5> DEFINE rest == (T \ {x}) \ {y}
        <5>1. rest = (T \ {y}) \ {x}
          OBVIOUS
        <5>2. T \ {x} \in Good /\ T \ {y} \in Good /\ y \in T \ {x} /\ x \in T \ {y}
          BY <1>5, <3>1, <4>2
        <5>3. h[T \ {x}] = f[y] + h[rest] /\ h[T \ {y}] = f[x] + h[rest] /\ h[rest] \in Int
          BY <5>1, <5>2
        <5>4. f[x] \in Int /\ f[y] \in Int
          BY <3>1
        <5> HIDE DEF rest
        <5>5. QED
          BY <3>1, <5>3, <5>4
      <4>3. QED
        BY <4>1, <4>2
    <3>3. h[T] \in Int
      <4>1. f[y] \in Int /\ h[T \ {y}] \in Int
        BY <3>1, <3>2
      <4>2. QED
        BY <3>1, <4>1
    <3>4. QED
      BY <3>2, <3>3
  <2>3. QED
    BY <2>1, <2>2
<1>6. S \in Good
  <2> HIDE DEF Good
  <2>1. QED
    BY <1>5, SubsetsByInduction
<1>7. QED
  BY <1>2, <1>4, <1>6

\* The sum of a function that adds two up is the two sums added up.
LEMMA SumOfSums ==
  ASSUME NEW S, IsFiniteSet(S), NEW f, NEW g, NEW k,
         \A x \in S : f[x] \in Int /\ g[x] \in Int /\ k[x] = f[x] + g[x]
  PROVE  SumOver(k, S) = SumOver(f, S) + SumOver(g, S)
<1> DEFINE Good == {T \in SUBSET S : SumOver(k, T) = SumOver(f, T) + SumOver(g, T)}
<1>1. ASSUME NEW T \in SUBSET S, \A x \in T : T \ {x} \in Good
      PROVE  T \in Good
  <2>1. IsFiniteSet(T) /\ \A x \in T : f[x] \in Int /\ g[x] \in Int /\ k[x] \in Int
    BY FS_Subset
  <2>2. CASE T = {}
    <3>1. SumOver(f, T) = 0 /\ SumOver(g, T) = 0 /\ SumOver(k, T) = 0
      BY <2>1, <2>2, SumLaws
    <3>2. QED
      BY <3>1
  <2>3. CASE T # {}
    <3>1. PICK x \in T : TRUE
      BY <2>3
    <3> DEFINE U == T \ {x}
    <3>2. IsFiniteSet(U) /\ \A y \in U : f[y] \in Int /\ g[y] \in Int
      BY <2>1, FS_Subset
    <3>3. SumOver(f, U) \in Int /\ SumOver(g, U) \in Int
      BY <3>2, SumLaws
    <3>4. /\ SumOver(f, T) = f[x] + SumOver(f, U)
          /\ SumOver(g, T) = g[x] + SumOver(g, U)
          /\ SumOver(k, T) = k[x] + SumOver(k, U)
      BY <2>1, SumLaws
    <3>5. SumOver(k, U) = SumOver(f, U) + SumOver(g, U)
      BY <1>1
    <3>6. k[x] = f[x] + g[x] /\ f[x] \in Int /\ g[x] \in Int
      OBVIOUS
    <3> HIDE DEF U
    <3>7. QED
      BY <3>3, <3>4, <3>5, <3>6
  <2>4. QED
    BY <2>2, <2>3
<1>2. S \in Good
  <2> HIDE DEF Good
  <2>1. QED
    BY <1>1, SubsetsByInduction
<1>3. QED
  BY <1>2

\* Terms none of which is negative have a sum that is not.
LEMMA SumOfNaturals ==
  ASSUME NEW S, IsFiniteSet(S), NEW f, \A x \in S : f[x] \in Nat
  PROVE  SumOver(f, S) \in Nat
<1> DEFINE Good == {T \in SUBSET S : SumOver(f, T) \in Nat}
<1>1. ASSUME NEW T \in SUBSET S, \A x \in T : T \ {x} \in Good
      PROVE  T \in Good
  <2>1. IsFiniteSet(T) /\ \A x \in T : f[x] \in Int
    BY FS_Subset
  <2>2. SumOver(f, {}) = 0 /\ \A x \in T : SumOver(f, T) = f[x] + SumOver(f, T \ {x})
    BY <2>1, SumLaws
  <2>3. \A x \in T : f[x] \in Nat /\ SumOver(f, T \ {x}) \in Nat
    BY <1>1
  <2>4. SumOver(f, T) \in Nat
    <3>1. CASE T = {}
      BY <2>2, <3>1
    <3>2. CASE T # {}
      <4>1. PICK x \in T : TRUE
        BY <3>2
      <4>2. SumOver(f, T) = f[x] + SumOver(f, T \ {x})
        BY <2>2
      <4>3. f[x] \in Nat /\ SumOver(f, T \ {x}) \in Nat
        BY <2>3
      <4>4. QED
        BY <4>2, <4>3
    <3>3. QED
      BY <3>1, <3>2
  <2>5. QED
    BY <2>4
<1>2. S \in Good
  <2> HIDE DEF Good
  <2>1. QED
    BY <1>1, SubsetsByInduction
<1>3. QED
  BY <1>2

\* Terms that are zero may be left out, and terms that are equal exchanged.
LEMMA SumOfNonzero ==
  ASSUME NEW S, IsFiniteSet(S), NEW P \in SUBSET S, NEW f, NEW g,
         \A x \in S : f[x] \in Int,
         \A x \in P : g[x] = f[x],
         \A x \in S \ P : f[x] = 0
  PROVE  SumOver(f, S) = SumOver(g, P)
<1> DEFINE Good == {T \in SUBSET S : SumOver(f, T) = SumOver(g, T \cap P)}
<1>1. ASSUME NEW T \in SUBSET S, \A x \in T : T \ {x} \in Good
      PROVE  T \in Good
  <2>1. /\ IsFiniteSet(T) /\ \A x \in T : f[x] \in Int
        /\ IsFiniteSet(T \cap P) /\ \A x \in T \cap P : g[x] \in Int
    BY FS_Subset
  <2>2. CASE T = {}
    <3>1. SumOver(f, {}) = 0 /\ SumOver(g, {}) = 0 /\ T \cap P = {}
      BY <2>1, <2>2, SumLaws
    <3>2. QED
      BY <2>2, <3>1
  <2>3. CASE T # {}
    <3>1. PICK x \in T : TRUE
      BY <2>3
    <3> DEFINE U == T \ {x}
    <3>2. SumOver(f, U) = SumOver(g, U \cap P) /\ SumOver(f, T) = f[x] + SumOver(f, U)
      BY <1>1, <2>1, SumLaws
    <3>3. SumOver(f, U) \in Int
      <4>1. IsFiniteSet(U) /\ \A y \in U : f[y] \in Int
        BY <2>1, FS_Subset
      <4>2. QED
        BY <4>1, SumLaws
    <3>4. CASE x \in P
      <4>1. x \in T \cap P /\ (T \cap P) \ {x} = U \cap P
        BY <3>4
      <4>2. SumOver(g, T \cap P) = g[x] + SumOver(g, (T \cap P) \ {x})
        BY <2>1, <4>1, SumLaws
      <4>3. QED
        BY <3>2, <3>4, <4>1, <4>2
    <3>5. CASE x \notin P
      <4>1. T \cap P = U \cap P
        BY <3>5
      <4>2. f[x] = 0
        BY <3>5
      <4>3. SumOver(f, T) = SumOver(f, U)
        <5> HIDE DEF U
        <5>1. QED
          BY <3>2, <3>3, <4>2
      <4>4. QED
        BY <3>2, <4>1, <4>3
    <3>6. QED
      BY <3>4, <3>5
  <2>4. QED
    BY <2>2, <2>3
<1>2. S \in Good
  <2> HIDE DEF Good
  <2>1. QED
    BY <1>1, SubsetsByInduction
<1>3. S \cap P = P
  OBVIOUS
<1>4. QED
  BY <1>2, <1>3

LEMMA SumOfSupport ==
  ASSUME NEW S, IsFiniteSet(S), NEW P \in SUBSET S, NEW f,
         \A x \in S : f[x] \in Int,
         \A x \in S \ P : f[x] = 0
  PROVE  SumOver(f, S) = SumOver(f, P)
<1>1. \A x \in P : f[x] = f[x]
  OBVIOUS
<1>2. QED
  BY <1>1, SumOfNonzero

-----------------------------------------------------------------------------
(* Folds over finite sets: G takes an element and what the others gave,    *)
(* and ch chooses the element.                                             *)

FoldsSubsets(G, base, ch, S, h) ==
  \A s \in SUBSET S : h[s] = IF s = {} THEN base ELSE G[<<ch[s], h[s \ {ch[s]}]>>]

\* The recursion behind a fold has a solution, and its values have the type of
\* what is folded.
LEMMA FoldsExist ==
  ASSUME NEW S, IsFiniteSet(S), NEW A, NEW base \in A, NEW G \in [S \X A -> A],
         NEW ch, \A s \in SUBSET S : s # {} => ch[s] \in s
  PROVE  \E h \in [SUBSET S -> A] : FoldsSubsets(G, base, ch, S, h)
<1> DEFINE Small(n) == {s \in SUBSET S : Cardinality(s) <= n}
           Solves(h, n) ==
             /\ \A s \in Small(n) : h[s] \in A
             /\ \A s \in Small(n) : h[s] = IF s = {} THEN base ELSE G[<<ch[s], h[s \ {ch[s]}]>>]
           Solved == {n \in Nat : \E h : Solves(h, n)}
<1>1. \A s \in SUBSET S : IsFiniteSet(s) /\ Cardinality(s) \in Nat
  BY FS_Subset, FS_CardinalityType
<1>2. 0 \in Solved
  <2>1. \A s \in Small(0) : s = {}
    BY <1>1, FS_EmptySet
  <2>2. Solves([s \in {{}} |-> base], 0)
    BY <2>1
  <2>3. QED
    BY <2>2
<1>3. ASSUME NEW n \in Nat, n \in Solved PROVE n + 1 \in Solved
  <2>1. PICK h : Solves(h, n)
    BY <1>3
  <2> DEFINE g == [s \in SUBSET S |-> IF s = {} THEN base ELSE G[<<ch[s], h[s \ {ch[s]}]>>]]
  <2>2. ASSUME NEW s \in Small(n) PROVE g[s] = h[s]
    BY <2>1
  <2>3. ASSUME NEW s \in Small(n + 1), s # {}
        PROVE  ch[s] \in s /\ s \ {ch[s]} \in Small(n)
    <3>1. ch[s] \in s
      BY <2>3
    <3>2. Cardinality(s \ {ch[s]}) = Cardinality(s) - 1
      BY <1>1, <3>1, FS_RemoveElement
    <3>3. QED
      BY <1>1, <3>1, <3>2
  <2>4. Solves(g, n + 1)
    <3>1. ASSUME NEW s \in Small(n + 1), s # {}
          PROVE  g[s] = G[<<ch[s], g[s \ {ch[s]}]>>] /\ g[s] \in A
      <4>1. ch[s] \in s /\ s \ {ch[s]} \in Small(n)
        BY <2>3, <3>1
      <4>2. g[s] = G[<<ch[s], h[s \ {ch[s]}]>>]
        BY <3>1
      <4>3. g[s \ {ch[s]}] = h[s \ {ch[s]}] /\ h[s \ {ch[s]}] \in A
        BY <2>1, <2>2, <4>1
      <4> HIDE DEF g
      <4>4. G[<<ch[s], h[s \ {ch[s]}]>>] \in A
        BY <4>1, <4>3
      <4>5. QED
        BY <4>2, <4>3, <4>4
    <3>2. ASSUME NEW s \in Small(n + 1), s = {}
          PROVE  g[s] = base
      BY <3>2
    <3> HIDE DEF g
    <3>3. QED
      BY <3>1, <3>2
  <2> HIDE DEF Solves, g
  <2>5. QED
    BY <2>4
<1>4. Cardinality(S) \in Solved
  <2> HIDE DEF Solved
  <2>1. \A n \in Nat : n \in Solved
    BY <1>2, <1>3, NumbersByInduction
  <2>2. QED
    BY <1>1, <2>1
<1>5. PICK h : Solves(h, Cardinality(S))
  BY <1>4
<1>6. Small(Cardinality(S)) = SUBSET S
  BY FS_Subset
<1> DEFINE g == [s \in SUBSET S |-> h[s]]
<1>7. g \in [SUBSET S -> A] /\ FoldsSubsets(G, base, ch, S, g)
  BY <1>5, <1>6 DEF FoldsSubsets
<1>8. QED
  BY <1>7

\* The same with the last member chosen: what a fold from left to right does.
LEMMA FoldsFromLast ==
  ASSUME NEW n \in Nat, NEW A, NEW base \in A, NEW G \in [(1 .. n) \X A -> A]
  PROVE  \E h \in [SUBSET (1 .. n) -> A] :
           FoldsSubsets(G, base, [s \in SUBSET (1 .. n) |-> Max(s)], 1 .. n, h)
<1> DEFINE ch == [s \in SUBSET (1 .. n) |-> Max(s)]
<1>1. IsFiniteSet(1 .. n)
  BY FS_Interval
<1>2. ASSUME NEW s \in SUBSET (1 .. n), s # {} PROVE ch[s] \in s
  <2>1. s \subseteq Int /\ n \in Int /\ \A x \in s : x <= n
    OBVIOUS
  <2>2. Max(s) \in s
    BY ONLY <1>2, <2>1, MaxOfBounded
  <2>3. QED
    BY <2>2
<1> HIDE DEF ch
<1>3. \E h \in [SUBSET (1 .. n) -> A] : FoldsSubsets(G, base, ch, 1 .. n, h)
  BY <1>1, <1>2, FoldsExist
<1>4. QED
  BY <1>3 DEF ch

-----------------------------------------------------------------------------
(* Sequences.                                                              *)

LEMMA FunctionsAreSequences ==
  ASSUME NEW S, NEW n \in Nat, NEW f \in [1 .. n -> S]
  PROVE  f \in Seq(S) /\ Len(f) = n /\ DOMAIN f = 1 .. n
OBVIOUS

LEMMA ConcatenationLaws ==
  ASSUME NEW T, NEW s \in Seq(T), NEW t \in Seq(T)
  PROVE  /\ s \o t \in Seq(T)
         /\ Len(s \o t) = Len(s) + Len(t) /\ DOMAIN (s \o t) = 1 .. Len(s) + Len(t)
         /\ \A n \in 1 .. Len(s) : (s \o t)[n] = s[n]
         /\ \A n \in 1 .. Len(t) : (s \o t)[n + Len(s)] = t[n]
<1>1. /\ s \o t \in Seq(T) /\ Len(s \o t) = Len(s) + Len(t)
      /\ Len(s) \in Nat /\ Len(t) \in Nat
  OBVIOUS
<1>2. DOMAIN (s \o t) = 1 .. Len(s) + Len(t)
  BY <1>1
<1>3. \A n \in 1 .. Len(s) : (s \o t)[n] = s[n]
  BY <1>1
<1>4. ASSUME NEW n \in 1 .. Len(t) PROVE (s \o t)[n + Len(s)] = t[n]
  <2>1. n + Len(s) \in 1 .. Len(s) + Len(t) /\ ~(n + Len(s) <= Len(s)) /\ (n + Len(s)) - Len(s) = n
    BY <1>1
  <2>2. QED
    BY <1>1, <2>1
<1>5. QED
  BY <1>1, <1>2, <1>3, <1>4

LEMMA AppendLaws ==
  ASSUME NEW T, NEW s \in Seq(T), NEW e \in T
  PROVE  /\ Append(s, e) \in Seq(T)
         /\ Len(Append(s, e)) = Len(s) + 1 /\ DOMAIN Append(s, e) = 1 .. Len(s) + 1
         /\ \A i \in 1 .. Len(s) : Append(s, e)[i] = s[i]
         /\ Append(s, e)[Len(s) + 1] = e
OBVIOUS

LEMMA TailLaws ==
  ASSUME NEW T, NEW s \in Seq(T), s # <<>>
  PROVE  /\ Head(s) = s[1] /\ 1 \in DOMAIN s /\ s[1] \in T
         /\ Tail(s) \in Seq(T)
         /\ \A n \in DOMAIN Tail(s) : n + 1 \in DOMAIN s /\ Tail(s)[n] = s[n + 1] /\ n >= 1 /\ n \in Nat
         /\ \A n \in DOMAIN s : n # 1 => n - 1 \in DOMAIN Tail(s) /\ Tail(s)[n - 1] = s[n]
OBVIOUS

\* What is left of a sequence one element of which is taken out.
LEMMA RemoveAtLaws ==
  ASSUME NEW T, NEW s \in Seq(T), NEW i \in DOMAIN s
  PROVE  /\ RemoveAt(s, i) \in Seq(T)
         /\ Len(RemoveAt(s, i)) = Len(s) - 1
         /\ DOMAIN RemoveAt(s, i) = 1 .. Len(s) - 1
         /\ \A n \in 1 .. Len(s) - 1 : RemoveAt(s, i)[n] = IF n < i THEN s[n] ELSE s[n + 1]
<1> DEFINE a == SubSeq(s, 1, i - 1)
           b == SubSeq(s, i + 1, Len(s))
<1>1. i \in 1 .. Len(s) /\ Len(s) \in Nat
  OBVIOUS
<1>2. a \in Seq(T) /\ Len(a) = i - 1 /\ \A n \in 1 .. i - 1 : a[n] = s[n]
  BY <1>1
<1>3. b \in Seq(T) /\ Len(b) = Len(s) - i /\ \A n \in 1 .. Len(s) - i : b[n] = s[n + i]
  BY <1>1
<1>4. RemoveAt(s, i) = a \o b
  BY DEF RemoveAt
<1> HIDE DEF a, b
<1>5. /\ a \o b \in Seq(T) /\ Len(a \o b) = Len(a) + Len(b)
      /\ DOMAIN (a \o b) = 1 .. Len(a) + Len(b)
      /\ \A n \in 1 .. Len(a) : (a \o b)[n] = a[n]
      /\ \A n \in 1 .. Len(b) : (a \o b)[n + Len(a)] = b[n]
  <2>1. a \in Seq(T) /\ b \in Seq(T)
    BY ONLY <1>2, <1>3
  <2>2. QED
    BY ONLY <2>1, ConcatenationLaws
<1>6. ASSUME NEW n \in 1 .. Len(s) - 1
      PROVE  (a \o b)[n] = IF n < i THEN s[n] ELSE s[n + 1]
  <2>1. CASE n < i
    <3>1. n \in 1 .. Len(a) /\ n \in 1 .. i - 1
      BY ONLY <1>1, <1>2, <2>1, n \in 1 .. Len(s) - 1
    <3>2. QED
      BY ONLY <1>2, <1>5, <2>1, <3>1
  <2>2. CASE ~(n < i)
    <3> DEFINE m == n - (i - 1)
    <3>1. /\ m \in 1 .. Len(b) /\ m \in 1 .. Len(s) - i
          /\ m + Len(a) = n /\ m + i = n + 1
      BY ONLY <1>1, <1>2, <1>3, <2>2, n \in 1 .. Len(s) - 1
    <3> HIDE DEF m
    <3>2. (a \o b)[m + Len(a)] = b[m]
      BY ONLY <1>5, <3>1
    <3>3. b[m] = s[m + i]
      BY ONLY <1>3, <3>1
    <3>4. QED
      BY ONLY <2>2, <3>1, <3>2, <3>3
  <2>3. QED
    BY <2>1, <2>2
<1>7. Len(a \o b) = Len(s) - 1
  BY ONLY <1>1, <1>2, <1>3, <1>5
<1>8. QED
  BY <1>4, <1>5, <1>6, <1>7
=============================================================================
