--------------------------------- MODULE Lemmas ---------------------------------
(***************************************************************************)
(* Induction over natural numbers in the form the other proofs use it      *)
(* (sets instead of predicates, so that no operator has to be              *)
(* instantiated), and what follows from it: functions defined by           *)
(* recursion, the powers of two, and finite sets in order.                 *)
(***************************************************************************)
EXTENDS Powers, FiniteSetTheorems, WellFoundedInduction, TLAPS

-------------------------------------------------------------------------------
(* Induction *)

LessThan == { p \in Nat \X Nat : p[1] < p[2] }

\* The order of the natural numbers is well-founded.
LEMMA LessThanWellFounded == IsWellFoundedOn(LessThan, Nat)
  <1>1. LessThan = OpToRel(<, Nat)
    BY DEF OpToRel, LessThan
  <1> QED
    BY <1>1, NatLessThanWellFounded

\* A nonempty set of natural numbers has a least element.
LEMMA LeastNat ==
    ASSUME NEW S \in SUBSET Nat, S # {}
    PROVE  \E m \in S : \A k \in S : m <= k
  <1>1. PICK m \in S : \A k \in S : ~(<<k, m>> \in LessThan)
    BY LessThanWellFounded, WFMin
  <1>2. ASSUME NEW k \in S PROVE m <= k
    <2>1. ~(<<k, m>> \in LessThan)
      BY <1>1
    <2>2. k \in Nat /\ m \in Nat
      OBVIOUS
    <2> QED
      BY <2>1, <2>2 DEF LessThan
  <1> QED
    BY <1>2

\* A set with 0 that holds with n also n + 1 holds every natural number.
LEMMA SetInduction ==
    ASSUME NEW S, 0 \in S, \A n \in Nat : n \in S => n + 1 \in S
    PROVE  \A n \in Nat : n \in S
  <1> SUFFICES ASSUME Nat \ S # {} PROVE FALSE
    OBVIOUS
  <1>1. PICK m \in Nat \ S : \A k \in Nat \ S : m <= k
    BY LeastNat
  <1>2. m # 0 /\ m - 1 \in Nat /\ m - 1 \in S
    <2>1. m \in Nat /\ m # 0
      BY <1>1
    <2>2. m - 1 \in Nat /\ ~(m <= m - 1)
      BY <2>1
    <2> QED
      BY <1>1, <2>1, <2>2
  <1>3. (m - 1) + 1 = m
    BY <1>1
  <1> QED
    BY <1>1, <1>2, <1>3

-------------------------------------------------------------------------------
(* Functions defined by recursion *)

\* A start and a function that gives the next value determine a sequence.
LEMMA IteratedFunction ==
    ASSUME NEW first \in Nat, NEW F \in [Nat -> Nat]
    PROVE  \E f \in [Nat -> Nat] : f[0] = first /\ \A n \in Nat : f[n + 1] = F[f[n]]
  <1> DEFINE Upto(n, f) == /\ f \in [0..n -> Nat]
                           /\ f[0] = first
                           /\ \A i \in 1..n : f[i] = F[f[i - 1]]
             S == { n \in Nat : \E f \in [0..n -> Nat] : Upto(n, f) }
  <1>1. 0 \in S
    <2>1. Upto(0, [i \in 0..0 |-> first]) /\ [i \in 0..0 |-> first] \in [0..0 -> Nat]
      OBVIOUS
    <2> QED
      BY <2>1
  <1>2. ASSUME NEW n \in Nat, n \in S PROVE n + 1 \in S
    <2>1. PICK f \in [0..n -> Nat] : Upto(n, f)
      BY <1>2
    <2> DEFINE g == [i \in 0..(n + 1) |-> IF i = n + 1 THEN F[f[n]] ELSE f[i]]
    <2>2. g \in [0..(n + 1) -> Nat]
      <3>1. f[n] \in Nat /\ F[f[n]] \in Nat
        OBVIOUS
      <3>2. \A i \in 0..(n + 1) : i # n + 1 => i \in 0..n
        OBVIOUS
      <3>3. \A i \in 0..(n + 1) : (IF i = n + 1 THEN F[f[n]] ELSE f[i]) \in Nat
        BY <3>1, <3>2
      <3> HIDE DEF Upto
      <3> QED
        BY <3>3
    <2>3. \A i \in 0..n : i \in 0..(n + 1) /\ g[i] = f[i]
      OBVIOUS
    <2>4. g[n + 1] = F[f[n]]
      OBVIOUS
    <2> HIDE DEF g
    <2>5. ASSUME NEW i \in 1..(n + 1) PROVE g[i] = F[g[i - 1]]
      <3>1. CASE i = n + 1
        <4>1. i - 1 = n /\ i - 1 \in 0..n
          BY <3>1
        <4>2. g[i - 1] = f[n]
          BY <4>1, <2>3
        <4> QED
          BY <3>1, <4>2, <2>4
      <3>2. CASE i \in 1..n
        <4>1. i \in 0..n /\ i - 1 \in 0..n
          BY <3>2
        <4>2. g[i - 1] = f[i - 1] /\ g[i] = f[i]
          BY <4>1, <2>3
        <4>3. f[i] = F[f[i - 1]]
          BY <3>2, <2>1
        <4> QED
          BY <4>2, <4>3
      <3> QED
        BY <3>1, <3>2
    <2>6. g[0] = first
      <3>1. 0 \in 0..n /\ f[0] = first
        BY <2>1
      <3> HIDE DEF Upto
      <3> QED
        BY <2>3, <3>1
    <2>7. Upto(n + 1, g)
      BY <2>2, <2>5, <2>6
    <2>8. n + 1 \in Nat
      OBVIOUS
    <2> HIDE DEF Upto
    <2> QED
      BY <2>2, <2>7, <2>8
  <1>3. \A n \in Nat : n \in S
    <2> HIDE DEF S
    <2> QED
      BY <1>1, <1>2, SetInduction
  <1> DEFINE G == [n \in Nat |-> CHOOSE f \in [0..n -> Nat] : Upto(n, f)]
             h == [n \in Nat |-> G[n][n]]
  <1>4. ASSUME NEW n \in Nat PROVE Upto(n, G[n])
    BY <1>3
  <1> HIDE DEF G, S
  <1>5. ASSUME NEW n \in Nat PROVE h[n + 1] = F[h[n]]
    <2> DEFINE T == { i \in Nat : i <= n => G[n][i] = G[n + 1][i] }
    <2>1. 0 \in T
      <3>1. G[n][0] = first
        BY <1>4
      <3>2. G[n + 1][0] = first
        <4>1. n + 1 \in Nat
          OBVIOUS
        <4> QED
          BY <4>1, <1>4
      <3> QED
        BY <3>1, <3>2
    <2>2. ASSUME NEW i \in Nat, i \in T PROVE i + 1 \in T
      <3> SUFFICES ASSUME i + 1 <= n PROVE G[n][i + 1] = G[n + 1][i + 1]
        OBVIOUS
      <3>1. i + 1 \in 1..n /\ i + 1 \in 1..(n + 1) /\ (i + 1) - 1 = i /\ n + 1 \in Nat
        OBVIOUS
      <3>2. G[n][i + 1] = F[G[n][i]]
        BY <3>1, <1>4
      <3>3. G[n + 1][i + 1] = F[G[n + 1][i]]
        BY <3>1, <1>4
      <3>4. G[n][i] = G[n + 1][i]
        BY <2>2
      <3> QED
        BY <3>2, <3>3, <3>4
    <2>3. n \in T
      <3> HIDE DEF T
      <3> QED
        BY <2>1, <2>2, SetInduction
    <2>4. G[n + 1][n + 1] = F[G[n + 1][n]]
      <3>1. n + 1 \in Nat /\ n + 1 \in 1..(n + 1) /\ (n + 1) - 1 = n
        OBVIOUS
      <3> QED
        BY <3>1, <1>4
    <2> QED
      BY <2>3, <2>4
  <1>6. h[0] = first
    BY <1>4
  <1>7. h \in [Nat -> Nat]
    BY <1>4
  <1> HIDE DEF h
  <1> QED
    BY <1>5, <1>6, <1>7

-------------------------------------------------------------------------------
(* Powers of two *)

\* The recursive definition of Pow2 has a solution.
LEMMA Pow2Exists ==
    \E f : f = [n \in Nat |-> IF n = 0 THEN 1 ELSE 2 * f[n - 1]]
  <1> DEFINE F == [v \in Nat |-> 2 * v]
  <1>1. 1 \in Nat /\ F \in [Nat -> Nat]
    OBVIOUS
  <1>2. \A v \in Nat : F[v] = 2 * v
    OBVIOUS
  <1> HIDE DEF F
  <1>3. PICK f \in [Nat -> Nat] : f[0] = 1 /\ \A n \in Nat : f[n + 1] = F[f[n]]
    BY <1>1, IteratedFunction
  <1>4. ASSUME NEW n \in Nat PROVE f[n] = IF n = 0 THEN 1 ELSE 2 * f[n - 1]
    <2>1. CASE n = 0
      BY <2>1, <1>3
    <2>2. CASE n # 0
      <3>1. n - 1 \in Nat /\ (n - 1) + 1 = n
        BY <2>2
      <3>2. f[(n - 1) + 1] = F[f[n - 1]]
        BY <3>1, <1>3
      <3> QED
        BY <2>2, <3>1, <3>2, <1>2
    <2> QED
      BY <2>1, <2>2
  <1>5. f = [n \in Nat |-> f[n]]
    OBVIOUS
  <1> QED
    BY <1>4, <1>5

\* The first power, the next power, and that they are positive.
LEMMA Pow2Facts ==
    /\ Pow2[0] = 1
    /\ \A n \in Nat : Pow2[n + 1] = 2 * Pow2[n]
    /\ \A n \in Nat : Pow2[n] \in Nat /\ Pow2[n] > 0
  <1>1. Pow2 = [n \in Nat |-> IF n = 0 THEN 1 ELSE 2 * Pow2[n - 1]]
    BY Pow2Exists DEF Pow2
  <1>2. Pow2[0] = 1
    BY <1>1
  <1>3. ASSUME NEW n \in Nat PROVE Pow2[n + 1] = 2 * Pow2[n]
    <2>1. n + 1 \in Nat /\ n + 1 # 0 /\ (n + 1) - 1 = n
      OBVIOUS
    <2> QED
      BY <1>1, <2>1
  <1> DEFINE S == { n \in Nat : Pow2[n] \in Nat /\ Pow2[n] > 0 }
  <1>4. 0 \in S
    BY <1>2
  <1>5. \A n \in Nat : n \in S => n + 1 \in S
    BY <1>3
  <1>6. \A n \in Nat : n \in S
    <2> HIDE DEF S
    <2> QED
      BY <1>4, <1>5, SetInduction
  <1> QED
    BY <1>2, <1>3, <1>6

-------------------------------------------------------------------------------
(* Finite sets *)

\* A finite set that is not empty has a greatest element with respect to any
\* relation that is total and transitive on it.
LEMMA GreatestElement ==
    ASSUME NEW S, IsFiniteSet(S), S # {}, NEW R,
           \A x, y \in S : <<x, y>> \in R \/ <<y, x>> \in R,
           \A x, y, z \in S : <<x, y>> \in R /\ <<y, z>> \in R => <<x, z>> \in R
    PROVE  \E m \in S : \A x \in S : <<x, m>> \in R
  <1>1. PICK n \in Nat : ExistsSurjection(1..n, S)
    BY FS_NatSurjection
  <1>2. PICK f \in [1..n -> S] : \A t \in S : \E i \in 1..n : f[i] = t
    BY <1>1, Zenon DEF ExistsSurjection, Surjection
  <1> DEFINE Above(k, m) == \A i \in 1..k : <<f[i], m>> \in R
             T == { k \in Nat : k \in 1..n => \E m \in S : Above(k, m) }
  <1>3. 0 \in T
    OBVIOUS
  <1>4. ASSUME NEW k \in Nat, k \in T PROVE k + 1 \in T
    <2>0. k + 1 \in Nat
      OBVIOUS
    <2> SUFFICES ASSUME k + 1 \in 1..n PROVE \E m \in S : Above(k + 1, m)
      BY <2>0, Zenon
    <2>1. f[k + 1] \in S /\ <<f[k + 1], f[k + 1]>> \in R
      OBVIOUS
    <2>2. \A i \in 1..(k + 1) : i \in 1..n /\ (i = k + 1 \/ i \in 1..k)
      OBVIOUS
    <2>3. CASE k = 0
      <3>1. Above(k + 1, f[k + 1])
        BY <2>1, <2>2, <2>3
      <3> QED
        BY <2>1, <3>1
    <2>4. CASE k # 0
      <3>1. PICK m \in S : Above(k, m)
        BY <1>4, <2>4
      <3>2. CASE <<m, f[k + 1]>> \in R
        <4>1. ASSUME NEW i \in 1..(k + 1) PROVE <<f[i], f[k + 1]>> \in R
          <5>1. CASE i = k + 1
            BY <5>1, <2>1
          <5>2. CASE i \in 1..k
            <6>1. f[i] \in S /\ <<f[i], m>> \in R
              BY <5>2, <2>2, <3>1
            <6> QED
              BY <6>1, <2>1, <3>1, <3>2
          <5> QED
            BY <5>1, <5>2, <2>2
        <4> QED
          BY <4>1, <2>1
      <3>3. CASE <<f[k + 1], m>> \in R
        <4>1. Above(k + 1, m)
          BY <2>2, <3>1, <3>3
        <4> QED
          BY <4>1
      <3> QED
        BY <3>2, <3>3, <2>1, <3>1
    <2> QED
      BY <2>3, <2>4
  <1>5. n \in T
    <2> HIDE DEF T
    <2> QED
      BY <1>3, <1>4, SetInduction
  <1>6. n \in 1..n
    BY <1>2
  <1>7. PICK m \in S : Above(n, m)
    BY <1>5, <1>6
  <1> QED
    BY <1>2, <1>7

\* A finite set with a strict total order can be listed in that order.
LEMMA SortedEnumeration ==
    ASSUME NEW S, IsFiniteSet(S), NEW R,
           \A x, y \in S : x # y => <<x, y>> \in R \/ <<y, x>> \in R,
           \A x, y, z \in S : <<x, y>> \in R /\ <<y, z>> \in R => <<x, z>> \in R
    PROVE  \E s \in [1..Cardinality(S) -> S] :
              \A i, j \in 1..Cardinality(S) : i < j => <<s[i], s[j]>> \in R
  <1> DEFINE Sorted(k, Z, s) ==
                 s \in [1..k -> Z] /\ \A i, j \in 1..k : i < j => <<s[i], s[j]>> \in R
             T == { k \in Nat : \A Z \in SUBSET S : Cardinality(Z) = k =>
                                   \E s \in [1..k -> Z] : Sorted(k, Z, s) }
  <1>1. 0 \in T
    <2>1. ASSUME NEW Z \in SUBSET S PROVE \E s \in [1..0 -> Z] : Sorted(0, Z, s)
      <3>1. [i \in 1..0 |-> i] \in [1..0 -> Z]
        OBVIOUS
      <3>2. Sorted(0, Z, [i \in 1..0 |-> i])
        OBVIOUS
      <3> QED
        BY <3>1, <3>2
    <2> QED
      BY <2>1
  <1>2. ASSUME NEW k \in Nat, k \in T PROVE k + 1 \in T
    <2> SUFFICES ASSUME NEW Z \in SUBSET S, Cardinality(Z) = k + 1
                 PROVE  \E s \in [1..(k + 1) -> Z] : Sorted(k + 1, Z, s)
      OBVIOUS
    <2>1. IsFiniteSet(Z) /\ Z # {}
      <3>1. IsFiniteSet(Z)
        BY FS_Subset
      <3> QED
        BY <3>1, FS_EmptySet
    <2> DEFINE W == { p \in S \X S : p[1] = p[2] \/ p \in R }
    <2>2. \E m \in Z : \A x \in Z : <<x, m>> \in W
      <3>1. \A x, y \in Z : <<x, y>> \in W \/ <<y, x>> \in W
        OBVIOUS
      <3>2. \A x, y, z \in Z : <<x, y>> \in W /\ <<y, z>> \in W => <<x, z>> \in W
        OBVIOUS
      <3> HIDE DEF W
      <3> QED
        BY <2>1, <3>1, <3>2, GreatestElement
    <2>3. PICK m \in Z : \A x \in Z : x = m \/ <<x, m>> \in R
      BY <2>2
    <2> DEFINE Y == Z \ {m}
    <2>4. Y \in SUBSET S /\ Cardinality(Y) = k
      <3>1. Cardinality(Y) = Cardinality(Z) - 1
        BY <2>1, FS_RemoveElement
      <3>2. (k + 1) - 1 = k
        OBVIOUS
      <3> QED
        BY <3>1, <3>2
    <2>5. PICK s \in [1..k -> Y] : Sorted(k, Y, s)
      BY <1>2, <2>4
    <2> DEFINE t == [i \in 1..(k + 1) |-> IF i = k + 1 THEN m ELSE s[i]]
    <2>6. \A i \in 1..k : i \in 1..(k + 1) /\ t[i] = s[i] /\ s[i] \in Y
      OBVIOUS
    <2>7. t[k + 1] = m /\ k + 1 \in 1..(k + 1)
      OBVIOUS
    <2>8. t \in [1..(k + 1) -> Z]
      <3>1. \A i \in 1..(k + 1) : i = k + 1 \/ i \in 1..k
        OBVIOUS
      <3>2. \A i \in 1..(k + 1) : (IF i = k + 1 THEN m ELSE s[i]) \in Z
        BY <3>1, <2>6
      <3> QED
        BY <3>2
    <2> HIDE DEF t
    <2>9. ASSUME NEW i \in 1..(k + 1), NEW j \in 1..(k + 1), i < j
          PROVE  <<t[i], t[j]>> \in R
      <3>1. i \in 1..k
        BY <2>9
      <3>2. CASE j = k + 1
        BY <3>1, <3>2, <2>3, <2>6, <2>7
      <3>3. CASE j \in 1..k
        BY <3>1, <3>3, <2>5, <2>6, <2>9
      <3> QED
        BY <3>2, <3>3
    <2> QED
      BY <2>8, <2>9
  <1>3. Cardinality(S) \in Nat
    BY FS_CardinalityType
  <1>4. Cardinality(S) \in T
    <2> HIDE DEF T
    <2> QED
      BY <1>1, <1>2, <1>3, SetInduction
  <1>5. S \in SUBSET S
    OBVIOUS
  <1>6. \E s \in [1..Cardinality(S) -> S] : Sorted(Cardinality(S), S, s)
    BY <1>4, <1>5
  <1> QED
    BY <1>6

\* A list of as many different elements as there are leaves none out.
LEMMA EnumerationComplete ==
    ASSUME NEW S, IsFiniteSet(S), NEW s \in [1..Cardinality(S) -> S],
           \A i, j \in 1..Cardinality(S) : s[i] = s[j] => i = j
    PROVE  \A x \in S : \E i \in 1..Cardinality(S) : s[i] = x
  <1>1. Cardinality(S) \in Nat
    BY FS_CardinalityType
  <1>2. s \in Injection(1..Cardinality(S), S)
    BY DEF Injection, IsInjective
  <1>3. Cardinality(1..Cardinality(S)) = Cardinality(S)
    BY <1>1, FS_Interval
  <1>4. s \in Surjection(1..Cardinality(S), S)
    BY <1>2, <1>3, FS_Injection
  <1> QED
    BY <1>4, Zenon DEF Surjection

\* The image of a finite set is finite, and as large if no two elements have the same.
LEMMA ImageFinite ==
    ASSUME NEW S, IsFiniteSet(S), NEW m
    PROVE  IsFiniteSet({ m[x] : x \in S })
  <1> DEFINE T == { m[x] : x \in S }
             f == [x \in S |-> m[x]]
  <1>1. f \in Surjection(S, T)
    BY DEF Surjection
  <1> HIDE DEF f, T
  <1>2. IsFiniteSet(T)
    BY <1>1, FS_Surjection
  <1> QED
    BY <1>2 DEF T

LEMMA ImageSize ==
    ASSUME NEW S, IsFiniteSet(S), NEW m, \A x, y \in S : m[x] = m[y] => x = y
    PROVE  Cardinality({ m[x] : x \in S }) = Cardinality(S)
  <1> DEFINE T == { m[x] : x \in S }
             f == [x \in S |-> m[x]]
  <1>1. f \in Surjection(S, T)
    BY DEF Surjection
  <1>2. f \in Injection(S, T)
    BY DEF Injection, IsInjective
  <1> HIDE DEF f, T
  <1>3. Cardinality(T) = Cardinality(S)
    BY <1>1, <1>2, FS_Surjection
  <1> QED
    BY <1>3 DEF T

\* A union is not larger than its parts together.
LEMMA UnionBound ==
    ASSUME NEW A, NEW B, IsFiniteSet(A), IsFiniteSet(B)
    PROVE  IsFiniteSet(A \cup B) /\ Cardinality(A \cup B) <= Cardinality(A) + Cardinality(B)
  <1>1. IsFiniteSet(A \cap B)
    BY FS_Intersection
  <1>2. Cardinality(A \cap B) \in Nat /\ Cardinality(A) \in Nat /\ Cardinality(B) \in Nat
    BY <1>1, FS_CardinalityType
  <1>3. /\ IsFiniteSet(A \cup B)
        /\ Cardinality(A \cup B) = Cardinality(A) + Cardinality(B) - Cardinality(A \cap B)
    BY FS_Union
  <1> QED
    BY <1>2, <1>3

\* Three finite sets that cover a set have at least its size together.
LEMMA CoverBound ==
    ASSUME NEW S, NEW A, NEW B, NEW C,
           IsFiniteSet(A), IsFiniteSet(B), IsFiniteSet(C), S \subseteq A \cup B \cup C
    PROVE  Cardinality(S) <= Cardinality(A) + Cardinality(B) + Cardinality(C)
  <1> DEFINE D == A \cup B
             U == D \cup C
  <1>1. IsFiniteSet(D) /\ Cardinality(D) <= Cardinality(A) + Cardinality(B)
    BY UnionBound
  <1>2. S \subseteq U
    OBVIOUS
  <1> HIDE DEF D
  <1>3. IsFiniteSet(U) /\ Cardinality(U) <= Cardinality(D) + Cardinality(C)
    BY <1>1, UnionBound
  <1> HIDE DEF U
  <1>4. IsFiniteSet(S) /\ Cardinality(S) <= Cardinality(U)
    BY <1>2, <1>3, FS_Subset
  <1>5. /\ Cardinality(S) \in Nat /\ Cardinality(U) \in Nat /\ Cardinality(D) \in Nat
        /\ Cardinality(A) \in Nat /\ Cardinality(B) \in Nat /\ Cardinality(C) \in Nat
    BY <1>1, <1>3, <1>4, FS_CardinalityType
  <1> QED
    BY <1>1, <1>3, <1>4, <1>5

-------------------------------------------------------------------------------
(* Sums over finite sets *)

\* A property of finite sets that passes from the sets with one element less.
LEMMA SubsetInduction ==
    ASSUME NEW S, IsFiniteSet(S), NEW G,
           \A T \in SUBSET S : (\A x \in T : T \ {x} \in G) => T \in G
    PROVE  \A T \in SUBSET S : T \in G
  <1> DEFINE K == { k \in Nat : \A T \in SUBSET S : Cardinality(T) = k => T \in G }
  <1>1. \A T \in SUBSET S : IsFiniteSet(T) /\ Cardinality(T) \in Nat
    BY FS_Subset, FS_CardinalityType
  <1>2. 0 \in K
    <2>1. \A T \in SUBSET S : Cardinality(T) = 0 => T = {}
      BY <1>1, FS_EmptySet
    <2> QED
      BY <2>1
  <1>3. ASSUME NEW k \in Nat, k \in K PROVE k + 1 \in K
    <2> SUFFICES ASSUME NEW T \in SUBSET S, Cardinality(T) = k + 1 PROVE T \in G
      OBVIOUS
    <2>1. ASSUME NEW x \in T PROVE T \ {x} \in G
      <3>1. Cardinality(T \ {x}) = (k + 1) - 1
        BY <1>1, FS_RemoveElement
      <3>2. T \ {x} \in SUBSET S /\ Cardinality(T \ {x}) = k
        BY <3>1
      <3> QED
        BY <1>3, <3>2
    <2> QED
      BY <2>1
  <1>4. \A k \in Nat : k \in K
    <2> HIDE DEF K
    <2> QED
      BY <1>2, <1>3, SetInduction
  <1> QED
    BY <1>1, <1>4

Pick(s) == CHOOSE x \in s : TRUE

\* The function that the library's sum is defined with.
IsSum(g, f, S) ==
    g = [s \in SUBSET S |-> IF s = {} THEN 0 ELSE f[Pick(s)] + g[s \ {Pick(s)}]]

LEMMA SumExists ==
    ASSUME NEW f, NEW S, IsFiniteSet(S)
    PROVE  \E g : IsSum(g, f, S)
  <1> DEFINE Dom(k) == { s \in SUBSET S : Cardinality(s) <= k }
             Body(g, s) == IF s = {} THEN 0 ELSE f[Pick(s)] + g[s \ {Pick(s)}]
             Upto(k, g) == g = [s \in Dom(k) |-> Body(g, s)]
             K == { k \in Nat : \E g : Upto(k, g) }
  <1>1. \A s \in SUBSET S : IsFiniteSet(s) /\ Cardinality(s) \in Nat
    BY FS_Subset, FS_CardinalityType
  <1>2. \A s \in SUBSET S : s # {} =>
          /\ Pick(s) \in s /\ s \ {Pick(s)} \in SUBSET S
          /\ Cardinality(s \ {Pick(s)}) = Cardinality(s) - 1
    <2> SUFFICES ASSUME NEW s \in SUBSET S, s # {}
                 PROVE  /\ Pick(s) \in s /\ s \ {Pick(s)} \in SUBSET S
                        /\ Cardinality(s \ {Pick(s)}) = Cardinality(s) - 1
      OBVIOUS
    <2>1. Pick(s) \in s
      BY DEF Pick
    <2> QED
      BY <1>1, <2>1, FS_RemoveElement
  <1>3. 0 \in K
    <2>1. \A s \in Dom(0) : s = {}
      BY <1>1, FS_EmptySet
    <2>2. Upto(0, [s \in Dom(0) |-> 0])
      <3> HIDE DEF Dom
      <3> QED
        BY <2>1
    <2> HIDE DEF Upto
    <2> QED
      BY <2>2
  <1>4. ASSUME NEW k \in Nat, k \in K PROVE k + 1 \in K
    <2>1. PICK g : Upto(k, g)
      BY <1>4
    <2> DEFINE h == [s \in Dom(k + 1) |-> IF s \in Dom(k) THEN g[s] ELSE Body(g, s)]
    <2>2. \A s \in Dom(k + 1) : s # {} => s \ {Pick(s)} \in Dom(k)
      BY <1>1, <1>2
    <2>3. Dom(k) \subseteq Dom(k + 1)
      BY <1>1
    <2> HIDE DEF Dom
    <2>4. \A s \in Dom(k) : g[s] = Body(g, s) /\ h[s] = g[s]
      BY <2>1, <2>3
    <2>5. ASSUME NEW s \in Dom(k + 1) PROVE h[s] = Body(h, s)
      <3>1. h[s] = Body(g, s)
        BY <2>4
      <3>2. s # {} => h[s \ {Pick(s)}] = g[s \ {Pick(s)}]
        BY <2>2, <2>4
      <3> HIDE DEF h
      <3> QED
        BY <3>1, <3>2
    <2>6. Upto(k + 1, h)
      <3> HIDE DEF Body
      <3> QED
        BY <2>5
    <2> HIDE DEF Upto, h
    <2> QED
      BY <2>6
  <1>5. Cardinality(S) \in K
    <2>1. Cardinality(S) \in Nat
      BY FS_CardinalityType
    <2> HIDE DEF K
    <2> QED
      BY <2>1, <1>3, <1>4, SetInduction
  <1>6. Dom(Cardinality(S)) = SUBSET S
    BY FS_Subset
  <1>7. PICK g : Upto(Cardinality(S), g)
    BY <1>5
  <1>8. IsSum(g, f, S)
    BY <1>6, <1>7 DEF IsSum
  <1> QED
    BY <1>8

\* Two solutions are the same where the functions are.
LEMMA SumUnique ==
    ASSUME NEW S, NEW T \in SUBSET S, IsFiniteSet(S), NEW f, NEW e, \A x \in T : f[x] = e[x],
           NEW g, NEW h, IsSum(g, f, S), IsSum(h, e, T)
    PROVE  g[T] = h[T]
  <1> DEFINE G == { s \in SUBSET T : g[s] = h[s] }
  <1>1. ASSUME NEW s \in SUBSET T, \A x \in s : s \ {x} \in G PROVE s \in G
    <2>1. s \in SUBSET S
      OBVIOUS
    <2>2. /\ g[s] = IF s = {} THEN 0 ELSE f[Pick(s)] + g[s \ {Pick(s)}]
          /\ h[s] = IF s = {} THEN 0 ELSE e[Pick(s)] + h[s \ {Pick(s)}]
      BY <2>1 DEF IsSum
    <2>3. s # {} => Pick(s) \in s
      BY DEF Pick
    <2>4. s # {} => g[s \ {Pick(s)}] = h[s \ {Pick(s)}] /\ f[Pick(s)] = e[Pick(s)]
      BY <1>1, <2>3
    <2> QED
      BY <2>2, <2>4
  <1>2. IsFiniteSet(T)
    BY FS_Subset
  <1> HIDE DEF G
  <1>3. \A s \in SUBSET T : s \in G
    BY <1>1, <1>2, SubsetInduction
  <1> QED
    BY <1>3 DEF G

LEMMA SumIs ==
    ASSUME NEW f, NEW S, IsFiniteSet(S)
    PROVE  \E g : IsSum(g, f, S) /\ SumFunctionOnSet(f, S) = g[S]
  <1> DEFINE iter[s \in SUBSET S] ==
               IF s = {} THEN 0 ELSE LET x == CHOOSE x \in s : TRUE IN f[x] + iter[s \ {x}]
  <1>1. SumFunctionOnSet(f, S) = iter[S]
    BY DEF SumFunctionOnSet, FoldFunctionOnSet, MapThenFoldSet
  <1>2. iter = CHOOSE g : IsSum(g, f, S)
    BY DEF IsSum, Pick
  <1> HIDE DEF iter
  <1>3. IsSum(iter, f, S)
    BY <1>2, SumExists
  <1> QED
    BY <1>1, <1>3

IntOn(f, S) == \A x \in S : f[x] \in Int

\* Which element the sum takes first does not matter.
LEMMA SumSplit ==
    ASSUME NEW f, NEW S, IsFiniteSet(S), IntOn(f, S), NEW g, IsSum(g, f, S)
    PROVE  \A s \in SUBSET S : g[s] \in Int /\ \A x \in s : g[s] = f[x] + g[s \ {x}]
  <1> DEFINE H == { s \in SUBSET S : g[s] \in Int }
             G == { s \in SUBSET S : \A x \in s : g[s] = f[x] + g[s \ {x}] }
  <1>a. \A s \in SUBSET S : s # {} => Pick(s) \in s /\ g[s] = f[Pick(s)] + g[s \ {Pick(s)}]
    BY DEF IsSum, Pick
  <1>b. g[{}] = 0
    BY DEF IsSum
  <1>c. ASSUME NEW s \in SUBSET S, \A x \in s : s \ {x} \in H PROVE s \in H
    <2>1. CASE s = {}
      BY <2>1, <1>b
    <2>2. CASE s # {}
      <3>1. Pick(s) \in s /\ g[s] = f[Pick(s)] + g[s \ {Pick(s)}]
        BY <2>2, <1>a
      <3>2. g[s \ {Pick(s)}] \in Int /\ f[Pick(s)] \in Int
        BY <1>c, <3>1 DEF IntOn
      <3> QED
        BY <3>1, <3>2
    <2> QED
      BY <2>1, <2>2
  <1>d. \A s \in SUBSET S : g[s] \in Int
    <2>1. \A s \in SUBSET S : s \in H
      <3> HIDE DEF H
      <3> QED
        BY <1>c, SubsetInduction
    <2> QED
      BY <2>1
  <1>1. ASSUME NEW s \in SUBSET S, \A x \in s : s \ {x} \in G PROVE s \in G
    <2> SUFFICES ASSUME NEW x \in s PROVE g[s] = f[x] + g[s \ {x}]
      OBVIOUS
    <2> DEFINE y == Pick(s)
    <2>1. y \in s /\ g[s] = f[y] + g[s \ {y}]
      BY <1>a
    <2> HIDE DEF y
    <2>2. CASE x = y
      BY <2>1, <2>2
    <2>3. CASE x # y
      <3> DEFINE u == (s \ {y}) \ {x}
      <3>1. u = (s \ {x}) \ {y} /\ u \in SUBSET S
        OBVIOUS
      <3>2. s \ {y} \in G /\ s \ {x} \in G /\ x \in s \ {y} /\ y \in s \ {x}
        BY <1>1, <2>1, <2>3
      <3>3. g[s \ {y}] = f[x] + g[u] /\ g[s \ {x}] = f[y] + g[u]
        BY <3>1, <3>2
      <3>4. f[x] \in Int /\ f[y] \in Int /\ g[u] \in Int
        BY <1>d, <2>1, <3>1 DEF IntOn
      <3> HIDE DEF u
      <3> QED
        BY <2>1, <3>3, <3>4
    <2> QED
      BY <2>2, <2>3
  <1> HIDE DEF G
  <1>2. \A s \in SUBSET S : s \in G
    BY <1>1, SubsetInduction
  <1> QED
    BY <1>d, <1>2 DEF G

\* What a sum is: nothing for no element, one summand more for one element more,
\* and the same for functions that agree.
LEMMA SumEmpty ==
    ASSUME NEW f
    PROVE  SumFunctionOnSet(f, {}) = 0
  <1>1. PICK g : IsSum(g, f, {}) /\ SumFunctionOnSet(f, {}) = g[{}]
    BY SumIs, FS_EmptySet
  <1> QED
    BY <1>1 DEF IsSum

LEMMA SumAdd ==
    ASSUME NEW f, NEW S, IsFiniteSet(S), NEW x, x \notin S, IntOn(f, S \cup {x})
    PROVE  /\ SumFunctionOnSet(f, S) \in Int
           /\ SumFunctionOnSet(f, S \cup {x}) = f[x] + SumFunctionOnSet(f, S)
  <1> DEFINE T == S \cup {x}
  <1>1. IsFiniteSet(T)
    BY FS_AddElement
  <1>2. PICK g : IsSum(g, f, T) /\ SumFunctionOnSet(f, T) = g[T]
    BY <1>1, SumIs
  <1>3. PICK h : IsSum(h, f, S) /\ SumFunctionOnSet(f, S) = h[S]
    BY SumIs
  <1>4. S \in SUBSET T
    OBVIOUS
  <1>5. T \ {x} = S /\ x \in T
    OBVIOUS
  <1>6. IntOn(f, T)
    OBVIOUS
  <1> HIDE DEF T
  <1>7. g[S] = h[S]
    BY <1>1, <1>2, <1>3, <1>4, SumUnique
  <1>8. g[T] = f[x] + g[S] /\ g[S] \in Int
    <2>1. \A s \in SUBSET T : g[s] \in Int /\ \A y \in s : g[s] = f[y] + g[s \ {y}]
      BY <1>1, <1>2, <1>6, SumSplit
    <2>2. T \in SUBSET T
      OBVIOUS
    <2>3. g[T] = f[x] + g[T \ {x}]
      BY <2>1, <2>2, <1>5
    <2> QED
      BY <2>1, <2>3, <1>4, <1>5
  <1> QED
    BY <1>2, <1>3, <1>7, <1>8 DEF T

LEMMA SumAgree ==
    ASSUME NEW f, NEW e, NEW S, IsFiniteSet(S), \A x \in S : f[x] = e[x]
    PROVE  SumFunctionOnSet(f, S) = SumFunctionOnSet(e, S)
  <1>1. PICK g : IsSum(g, f, S) /\ SumFunctionOnSet(f, S) = g[S]
    BY SumIs
  <1>2. PICK h : IsSum(h, e, S) /\ SumFunctionOnSet(e, S) = h[S]
    BY SumIs
  <1> QED
    BY <1>1, <1>2, SumUnique

\* A sum may be taken over the names of the summands instead.
LEMMA SumRenamed ==
    ASSUME NEW S, IsFiniteSet(S), NEW m,
           \A x, y \in S : m[x] = m[y] => x = y,
           NEW f, NEW e, IntOn(f, S), \A x \in S : e[m[x]] = f[x]
    PROVE  SumFunctionOnSet(f, S) = SumFunctionOnSet(e, { m[x] : x \in S })
  <1> DEFINE Im(T) == { m[x] : x \in T }
             G == { T \in SUBSET S : /\ IsFiniteSet(Im(T))
                                     /\ SumFunctionOnSet(f, T) = SumFunctionOnSet(e, Im(T)) }
  <1>1. ASSUME NEW T \in SUBSET S, \A x \in T : T \ {x} \in G PROVE T \in G
    <2>1. CASE T = {}
      <3>1. Im(T) = {}
        BY <2>1
      <3> QED
        BY <2>1, <3>1, SumEmpty, FS_EmptySet
    <2>2. CASE T # {}
      <3>1. PICK x \in T : TRUE
        BY <2>2
      <3> DEFINE U == T \ {x}
      <3>2. U \in G /\ U \cup {x} = T /\ x \notin U /\ U \in SUBSET S
        BY <1>1, <3>1
      <3>3. Im(T) = Im(U) \cup {m[x]} /\ m[x] \notin Im(U)
        BY <3>1
      <3>4. IsFiniteSet(U)
        BY <3>2, FS_Subset
      <3> HIDE DEF U
      <3>5. IsFiniteSet(Im(U)) /\ SumFunctionOnSet(f, U) = SumFunctionOnSet(e, Im(U))
        BY <3>2
      <3>6. IntOn(e, Im(U) \cup {m[x]})
        BY <3>2 DEF IntOn
      <3>7. SumFunctionOnSet(f, T) = f[x] + SumFunctionOnSet(f, U)
        <4>1. IntOn(f, U \cup {x})
          BY <3>2 DEF IntOn
        <4>2. SumFunctionOnSet(f, U \cup {x}) = f[x] + SumFunctionOnSet(f, U)
          BY <4>1, <3>2, <3>4, SumAdd
        <4> QED
          BY <4>2, <3>2
      <3>8. e[m[x]] = f[x]
        BY <3>1
      <3> HIDE DEF Im
      <3>9. SumFunctionOnSet(e, Im(U) \cup {m[x]}) = e[m[x]] + SumFunctionOnSet(e, Im(U))
        BY <3>3, <3>5, <3>6, SumAdd
      <3>10. IsFiniteSet(Im(T))
        BY <3>3, <3>5, FS_AddElement
      <3>11. SumFunctionOnSet(f, T) = SumFunctionOnSet(e, Im(T))
        BY <3>3, <3>5, <3>7, <3>8, <3>9
      <3> QED
        BY <3>10, <3>11
    <2> QED
      BY <2>1, <2>2
  <1>2. S \in G
    <2> HIDE DEF G
    <2>1. \A T \in SUBSET S : T \in G
      BY <1>1, SubsetInduction
    <2> QED
      BY <2>1
  <1> QED
    BY <1>2

LEMMA SumInt ==
    ASSUME NEW f, NEW S, IsFiniteSet(S), IntOn(f, S)
    PROVE  SumFunctionOnSet(f, S) \in Int
  <1>1. PICK g : IsSum(g, f, S) /\ SumFunctionOnSet(f, S) = g[S]
    BY SumIs
  <1>2. S \in SUBSET S
    OBVIOUS
  <1> QED
    BY <1>1, <1>2, SumSplit

\* The sum over what is left of a set.
LEMMA SumDifference ==
    ASSUME NEW f, NEW S, IsFiniteSet(S), IntOn(f, S), NEW T \in SUBSET S
    PROVE  SumFunctionOnSet(f, S) - SumFunctionOnSet(f, T) = SumFunctionOnSet(f, S \ T)
  <1> DEFINE R == S \ T
             G == { U \in SUBSET T : SumFunctionOnSet(f, R \cup U)
                                       = SumFunctionOnSet(f, R) + SumFunctionOnSet(f, U) }
  <1>1. /\ R \in SUBSET S /\ R \cup T = S /\ R \cap T = {}
        /\ \A U \in SUBSET S : IsFiniteSet(U) /\ SumFunctionOnSet(f, U) \in Int
    <2>1. \A U \in SUBSET S : IsFiniteSet(U) /\ IntOn(f, U)
      BY FS_Subset DEF IntOn
    <2> QED
      BY <2>1, SumInt
  <1> HIDE DEF R
  <1>2. ASSUME NEW U \in SUBSET T, \A x \in U : U \ {x} \in G PROVE U \in G
    <2>1. CASE U = {}
      <3>1. R \cup U = R /\ SumFunctionOnSet(f, U) = 0 /\ SumFunctionOnSet(f, R) \in Int
        BY <1>1, <2>1, SumEmpty
      <3>2. SumFunctionOnSet(f, R \cup U) = SumFunctionOnSet(f, R) + SumFunctionOnSet(f, U)
        <4>1. SumFunctionOnSet(f, R \cup U) = SumFunctionOnSet(f, R)
          BY <3>1
        <4>2. SumFunctionOnSet(f, R) + SumFunctionOnSet(f, U) = SumFunctionOnSet(f, R)
          BY <3>1
        <4> QED
          BY <4>1, <4>2
      <3> QED
        BY <3>2
    <2>2. CASE U # {}
      <3>1. PICK x \in U : TRUE
        BY <2>2
      <3> DEFINE V == U \ {x}
      <3>2. V \in SUBSET T /\ V \cup {x} = U /\ x \notin V /\ (R \cup V) \cup {x} = R \cup U
            /\ x \notin R \cup V /\ R \cup V \in SUBSET S /\ V \in SUBSET S
        BY <1>1, <3>1
      <3>3. SumFunctionOnSet(f, R \cup V) = SumFunctionOnSet(f, R) + SumFunctionOnSet(f, V)
        BY <1>2, <3>1
      <3> HIDE DEF V
      <3>4. IntOn(f, V \cup {x}) /\ IntOn(f, (R \cup V) \cup {x}) /\ f[x] \in Int
        BY <1>1, <3>1, <3>2 DEF IntOn
      <3>5. SumFunctionOnSet(f, V \cup {x}) = f[x] + SumFunctionOnSet(f, V)
        BY <1>1, <3>2, <3>4, SumAdd
      <3>6. SumFunctionOnSet(f, (R \cup V) \cup {x}) = f[x] + SumFunctionOnSet(f, R \cup V)
        BY <1>1, <3>2, <3>4, SumAdd
      <3>7. /\ SumFunctionOnSet(f, R) \in Int /\ SumFunctionOnSet(f, V) \in Int
            /\ SumFunctionOnSet(f, R \cup V) \in Int
        BY <1>1, <3>2
      <3>8. SumFunctionOnSet(f, R \cup U) = SumFunctionOnSet(f, R) + SumFunctionOnSet(f, U)
        <4>1. SumFunctionOnSet(f, R \cup U) = f[x] + SumFunctionOnSet(f, R \cup V)
          BY <3>2, <3>6
        <4>2. SumFunctionOnSet(f, U) = f[x] + SumFunctionOnSet(f, V)
          BY <3>2, <3>5
        <4> QED
          BY <3>3, <3>4, <3>7, <4>1, <4>2
      <3> QED
        BY <3>8
    <2> QED
      BY <2>1, <2>2
  <1>3. T \in G
    <2>1. IsFiniteSet(T)
      BY <1>1
    <2> HIDE DEF G
    <2>2. \A U \in SUBSET T : U \in G
      BY <1>2, <2>1, SubsetInduction
    <2> QED
      BY <2>2
  <1>4. SumFunctionOnSet(f, R \cup T) = SumFunctionOnSet(f, R) + SumFunctionOnSet(f, T)
    BY <1>3
  <1>5. /\ SumFunctionOnSet(f, R) \in Int /\ SumFunctionOnSet(f, T) \in Int
        /\ SumFunctionOnSet(f, R \cup T) = SumFunctionOnSet(f, S)
    BY <1>1
  <1>6. SumFunctionOnSet(f, S) - SumFunctionOnSet(f, T) = SumFunctionOnSet(f, R)
    BY <1>4, <1>5
  <1> QED
    BY <1>6 DEF R
===============================================================================
