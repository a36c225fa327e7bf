---------------------------- MODULE FiniteLemmas ----------------------------
(***************************************************************************)
(* What the proofs of the lists on a page need of natural numbers, finite  *)
(* sets and sequences: induction, functions defined from one number to the *)
(* next, and the enumeration of a finite set along an order.               *)
(***************************************************************************)
EXTENDS Integers, Sequences, WellFoundedInduction, FiniteSetTheorems, TLAPS

-----------------------------------------------------------------------------
(* Induction. *)

\* A set of natural numbers has a least one.
LEMMA Least ==
    ASSUME NEW T \in SUBSET Nat, T # {}
    PROVE  \E m \in T : \A n \in T : m <= n
<1> DEFINE U == {0..t : t \in T}
<1>1. U \subseteq FiniteSubsetsOf(Nat)
  <2> SUFFICES ASSUME NEW t \in T PROVE 0..t \in FiniteSubsetsOf(Nat)
    OBVIOUS
  <2>1. IsFiniteSet(0..t)
    BY FS_Interval
  <2> QED
    BY <2>1 DEF FiniteSubsetsOf
<1>2. U # {}
  OBVIOUS
<1>3. IsWellFoundedOn(StrictSubsetOrdering(Nat), FiniteSubsetsOf(Nat))
  BY FS_StrictSubsetOrderingWellFounded
<1> HIDE DEF U
<1>4. PICK x \in U : \A y \in U : ~(<<y, x>> \in StrictSubsetOrdering(Nat))
  BY <1>1, <1>2, <1>3, WFMin
<1>5. PICK m \in T : x = 0..m
  BY DEF U
<1>6. ASSUME NEW n \in T, n < m PROVE FALSE
  <2>1. 0..n \in U /\ 0..n \subseteq 0..m /\ m \in 0..m /\ m \notin 0..n
    BY <1>6 DEF U
  <2>2. <<0..n, 0..m>> \in StrictSubsetOrdering(Nat)
    BY <2>1 DEF StrictSubsetOrdering
  <2> QED
    BY <1>4, <1>5, <2>1, <2>2
<1> QED
  BY <1>6

\* Induction up to a bound, for a set instead of a predicate.
LEMMA InductionUpTo ==
    ASSUME NEW N \in Nat, NEW T, 0 \in T, \A n \in 1..N : n - 1 \in T => n \in T
    PROVE  \A n \in 0..N : n \in T
<1> DEFINE U == {n \in 0..N : n \notin T}
<1> SUFFICES ASSUME U # {} PROVE FALSE
  OBVIOUS
<1>1. U \in SUBSET Nat
  OBVIOUS
<1> HIDE DEF U
<1>2. PICK m \in U : \A n \in U : m <= n
  BY <1>1, Least
<1>3. m \in 1..N /\ m \notin T
  BY <1>2 DEF U
<1>4. m - 1 \in 0..N /\ ~(m <= m - 1)
  BY <1>3
<1>5. m - 1 \in T
  BY <1>2, <1>4 DEF U
<1> QED
  BY <1>3, <1>5

Iteration(f, S, N, base, step) ==
    /\ f \in [0..N -> S]
    /\ f[0] = base
    /\ \A n \in 1..N : f[n] = step[n][f[n - 1]]

\* A function may be defined at every number from its value at the one before.
LEMMA IterationExists ==
    ASSUME NEW S, NEW N \in Nat, NEW base \in S, NEW step \in [1..N -> [S -> S]]
    PROVE  \E f : Iteration(f, S, N, base, step)
<1> DEFINE T == {n \in 0..N : \E f : Iteration(f, S, n, base, step)}
<1>1. 0 \in T
  <2>1. Iteration([n \in 0..0 |-> base], S, 0, base, step)
    BY DEF Iteration
  <2> QED
    BY <2>1
<1>2. ASSUME NEW n \in 1..N, n - 1 \in T
      PROVE  n \in T
  <2>1. PICK f : Iteration(f, S, n - 1, base, step)
    BY <1>2
  <2>2. /\ n \in Nat /\ n - 1 \in 0..(n - 1) /\ n \in 0..N
        /\ \A m \in 0..n : m # n => m \in 0..(n - 1)
        /\ \A m \in 1..n : m # n => m \in 1..(n - 1) /\ m \in 1..N /\ m - 1 \in 0..(n - 1)
        /\ \A m \in 1..n : m - 1 # n /\ m - 1 \in 0..n
    OBVIOUS
  <2>3. f \in [0..(n - 1) -> S] /\ f[0] = base /\ \A m \in 1..(n - 1) : f[m] = step[m][f[m - 1]]
    BY <2>1 DEF Iteration
  <2>4. step[n] \in [S -> S] /\ f[n - 1] \in S
    BY <2>2, <2>3
  <2> DEFINE g == [m \in 0..n |-> IF m = n THEN step[n][f[n - 1]] ELSE f[m]]
  <2>5. g \in [0..n -> S]
    BY <2>2, <2>3, <2>4
  <2>6. g[0] = base
    BY <2>2, <2>3
  <2>7. ASSUME NEW m \in 1..n
        PROVE  g[m] = step[m][g[m - 1]]
    <3>1. m \in 0..n /\ m - 1 \in 0..n /\ m - 1 # n
      BY <2>2
    <3>2. g[m - 1] = f[m - 1]
      BY <3>1
    <3>3. CASE m = n
      BY <3>1, <3>2, <3>3
    <3>4. CASE m # n
      <4>1. g[m] = f[m] /\ m \in 1..(n - 1)
        BY <2>2, <3>1, <3>4
      <4> QED
        BY <2>3, <3>2, <4>1
    <3> QED
      BY <3>3, <3>4
  <2> HIDE DEF g
  <2>8. Iteration(g, S, n, base, step)
    BY <2>5, <2>6, <2>7 DEF Iteration
  <2> QED
    BY <2>2, <2>8
<1> HIDE DEF T
<1>3. \A n \in 0..N : n \in T
  BY <1>1, <1>2, InductionUpTo
<1>4. N \in T
  BY <1>3
<1> QED
  BY <1>4 DEF T

-----------------------------------------------------------------------------
(* A finite set can be enumerated along a linear order, and in one way only. *)

Linear(R, D) ==
    /\ \A x \in D : <<x, x>> \notin R
    /\ \A x, y, z \in D : <<x, y>> \in R /\ <<y, z>> \in R => <<x, z>> \in R
    /\ \A x, y \in D : x = y \/ <<x, y>> \in R \/ <<y, x>> \in R

Along(R, s) == \A m, n \in DOMAIN s : m < n => <<s[m], s[n]>> \in R

Enumerates(s, R, D) == s \in [1..Cardinality(D) -> D] /\ Along(R, s)

Below(R, D, x) == {y \in D : <<y, x>> \in R}

LEMMA BelowCounts ==
    ASSUME NEW D, IsFiniteSet(D), NEW R, Linear(R, D), NEW x \in D
    PROVE  /\ IsFiniteSet(Below(R, D, x))
           /\ Cardinality(Below(R, D, x)) + 1 \in 1..Cardinality(D)
           /\ \A y \in D : <<x, y>> \in R => Cardinality(Below(R, D, x)) < Cardinality(Below(R, D, y))
<1>1. Cardinality(D) \in Nat
  BY FS_CardinalityType
<1>2. ASSUME NEW S \in SUBSET D
      PROVE  /\ IsFiniteSet(S) /\ Cardinality(S) \in Nat
             /\ \A T \in SUBSET S : T # S => Cardinality(T) < Cardinality(S)
  <2>1. IsFiniteSet(S) /\ Cardinality(S) \in Nat
    BY FS_Subset, FS_CardinalityType
  <2>2. ASSUME NEW T \in SUBSET S, T # S
        PROVE  Cardinality(T) < Cardinality(S)
    <3>1. IsFiniteSet(T) /\ Cardinality(T) <= Cardinality(S) /\ Cardinality(S) # Cardinality(T)
      BY <2>1, <2>2, FS_Subset
    <3>2. Cardinality(T) \in Nat
      BY <3>1, FS_CardinalityType
    <3> QED
      BY <2>1, <3>1, <3>2
  <2> QED
    BY <2>1, <2>2
<1>3. Below(R, D, x) \subseteq D /\ Below(R, D, x) # D
  BY DEF Below, Linear
<1>4. Cardinality(Below(R, D, x)) \in Nat /\ Cardinality(Below(R, D, x)) < Cardinality(D)
  BY <1>2, <1>3
<1>5. ASSUME NEW y \in D, <<x, y>> \in R
      PROVE  Cardinality(Below(R, D, x)) < Cardinality(Below(R, D, y))
  <2>1. Below(R, D, x) \subseteq Below(R, D, y) /\ x \in Below(R, D, y) /\ x \notin Below(R, D, x)
    BY <1>5 DEF Below, Linear
  <2>2. Below(R, D, y) \subseteq D
    BY DEF Below
  <2> QED
    BY <1>2, <2>1, <2>2
<1>6. IsFiniteSet(Below(R, D, x))
  BY <1>2, <1>3
<1> QED
  BY <1>1, <1>4, <1>5, <1>6

LEMMA EnumerationExists ==
    ASSUME NEW D, IsFiniteSet(D), NEW R, Linear(R, D)
    PROVE  \E s : Enumerates(s, R, D)
<1> DEFINE n == Cardinality(D)
           rank == [x \in D |-> Cardinality(Below(R, D, x)) + 1]
<1>1. n \in Nat /\ IsFiniteSet(1..n) /\ Cardinality(1..n) = n
  BY FS_CardinalityType, FS_Interval
<1>2. rank \in [D -> 1..n]
  BY BelowCounts
<1>3. ASSUME NEW x \in D, NEW y \in D, <<x, y>> \in R
      PROVE  rank[x] < rank[y]
  <2>1. rank[x] = Cardinality(Below(R, D, x)) + 1 /\ rank[y] = Cardinality(Below(R, D, y)) + 1
    OBVIOUS
  <2>2. rank[x] \in Nat /\ rank[y] \in Nat
    BY <1>2
  <2>3. Cardinality(Below(R, D, x)) < Cardinality(Below(R, D, y))
    BY <1>3, BelowCounts
  <2>4. Cardinality(Below(R, D, x)) \in Nat /\ Cardinality(Below(R, D, y)) \in Nat
    BY BelowCounts, FS_CardinalityType
  <2> HIDE DEF rank
  <2> QED
    BY <2>1, <2>3, <2>4
<1> HIDE DEF rank, n
<1>4. \A x, y \in D : rank[x] = rank[y] => x = y
  <2> SUFFICES ASSUME NEW x \in D, NEW y \in D, rank[x] = rank[y], x # y
               PROVE  FALSE
    OBVIOUS
  <2>1. rank[x] \in Nat /\ rank[y] \in Nat
    BY <1>1, <1>2
  <2>2. <<x, y>> \in R \/ <<y, x>> \in R
    BY DEF Linear
  <2> QED
    BY <1>3, <2>1, <2>2
<1>5. rank \in Injection(D, 1..n)
  BY <1>2, <1>4 DEF Injection, IsInjective
<1>6. rank \in Surjection(D, 1..n)
  BY <1>1, <1>5, FS_Injection DEF n
<1>7. \A k \in 1..n : \E x \in D : rank[x] = k
  BY <1>6 DEF Surjection
<1> DEFINE s == [k \in 1..n |-> CHOOSE x \in D : rank[x] = k]
<1>8. \A k \in 1..n : s[k] \in D /\ rank[s[k]] = k
  BY <1>7
<1>9. s \in [1..n -> D] /\ DOMAIN s = 1..n
  BY <1>8
<1> HIDE DEF s
<1>10. ASSUME NEW m \in 1..n, NEW k \in 1..n, m < k
       PROVE  <<s[m], s[k]>> \in R
  <2>1. s[m] \in D /\ s[k] \in D /\ rank[s[m]] = m /\ rank[s[k]] = k
    BY <1>8
  <2>2. m \in Nat /\ k \in Nat /\ ~(k < m) /\ m # k
    BY <1>1, <1>10
  <2>3. ~(<<s[k], s[m]>> \in R)
    BY <1>3, <2>1, <2>2
  <2>4. s[m] # s[k]
    BY <2>1, <2>2
  <2> QED
    BY <2>1, <2>3, <2>4 DEF Linear
<1>11. Along(R, s)
  BY <1>9, <1>10 DEF Along
<1> QED
  BY <1>9, <1>11 DEF n, Enumerates

\* An enumeration meets every element, each once, and each at the place its rank names.
LEMMA EnumerationRanks ==
    ASSUME NEW D, IsFiniteSet(D), NEW R, Linear(R, D),
           NEW s, Enumerates(s, R, D)
    PROVE  /\ \A m, n \in DOMAIN s : s[m] = s[n] => m = n
           /\ \A x \in D : \E n \in DOMAIN s : s[n] = x
           /\ \A n \in DOMAIN s : Cardinality(Below(R, D, s[n])) = n - 1
<1> DEFINE c == Cardinality(D)
<1>0. s \in [1..c -> D] /\ Along(R, s)
  BY DEF Enumerates
<1>1. c \in Nat /\ IsFiniteSet(1..c) /\ Cardinality(1..c) = c /\ DOMAIN s = 1..c
  BY <1>0, FS_CardinalityType, FS_Interval
<1>2. \A m, n \in 1..c : s[m] = s[n] => m = n
  <2> SUFFICES ASSUME NEW m \in 1..c, NEW n \in 1..c, s[m] = s[n], m # n
               PROVE  FALSE
    OBVIOUS
  <2>1. m < n \/ n < m
    BY <1>1
  <2>2. s[m] \in D /\ s[n] \in D
    BY <1>0
  <2> QED
    BY <1>0, <1>1, <2>1, <2>2 DEF Along, Linear
<1>3. s \in Injection(1..c, D)
  BY <1>0, <1>2 DEF Injection, IsInjective
<1>4. s \in Surjection(1..c, D)
  BY <1>1, <1>3, FS_Injection
<1>5. \A x \in D : \E n \in 1..c : s[n] = x
  BY <1>4 DEF Surjection
<1>6. ASSUME NEW n \in 1..c
      PROVE  Cardinality(Below(R, D, s[n])) = n - 1
  <2> DEFINE B == Below(R, D, s[n])
             f == [m \in 1..(n - 1) |-> s[m]]
  <2>1. n \in Nat /\ n - 1 \in Int /\ 1..(n - 1) \subseteq 1..c
    BY <1>1
  <2>2. IsFiniteSet(1..(n - 1)) /\ Cardinality(1..(n - 1)) = n - 1
    BY <2>1, FS_Interval
  <2>3. \A m \in 1..(n - 1) : s[m] \in B
    <3> SUFFICES ASSUME NEW m \in 1..(n - 1)
                 PROVE  s[m] \in B
      OBVIOUS
    <3>1. m \in 1..c /\ m < n
      BY <2>1
    <3> QED
      BY <1>0, <1>1, <3>1 DEF Along, Below
  <2>4. \A x \in B : \E m \in 1..(n - 1) : s[m] = x
    <3> SUFFICES ASSUME NEW x \in B
                 PROVE  \E m \in 1..(n - 1) : s[m] = x
      OBVIOUS
    <3>1. x \in D /\ <<x, s[n]>> \in R
      BY DEF Below
    <3>2. PICK m \in 1..c : s[m] = x
      BY <1>5, <3>1
    <3>3. s[n] \in D /\ m # n
      BY <1>0, <3>1, <3>2 DEF Linear
    <3>4. ~(n < m)
      BY <1>0, <1>1, <3>1, <3>2, <3>3 DEF Along, Linear
    <3>5. m \in 1..(n - 1)
      BY <1>1, <3>3, <3>4
    <3> QED
      BY <3>2, <3>5
  <2>5. f \in Surjection(1..(n - 1), B)
    BY <2>3, <2>4 DEF Surjection
  <2>6. f \in Injection(1..(n - 1), B)
    BY <1>2, <2>1, <2>3 DEF Injection, IsInjective
  <2>7. ExistsBijection(1..(n - 1), B)
    BY <2>5, <2>6 DEF ExistsBijection, Bijection
  <2> QED
    BY <2>2, <2>7, FS_Bijection
<1> QED
  BY <1>1, <1>2, <1>5, <1>6

LEMMA EnumerationUnique ==
    ASSUME NEW D, IsFiniteSet(D), NEW R, Linear(R, D),
           NEW s, Enumerates(s, R, D), NEW r, Enumerates(r, R, D)
    PROVE  s = r
<1>0. /\ s \in [1..Cardinality(D) -> D] /\ DOMAIN s = 1..Cardinality(D)
      /\ r \in [1..Cardinality(D) -> D] /\ DOMAIN r = 1..Cardinality(D)
  BY DEF Enumerates
<1>1. SUFFICES \A n \in 1..Cardinality(D) : s[n] = r[n]
  <2>1. s = [n \in 1..Cardinality(D) |-> s[n]] /\ r = [n \in 1..Cardinality(D) |-> r[n]]
    BY <1>0
  <2> QED
    BY <2>1, Zenon
<1>2. \A k \in DOMAIN s : Cardinality(Below(R, D, s[k])) = k - 1
  BY EnumerationRanks
<1>3. \A k \in DOMAIN r : Cardinality(Below(R, D, r[k])) = k - 1
  BY EnumerationRanks
<1> SUFFICES ASSUME NEW n \in 1..Cardinality(D), s[n] # r[n]
             PROVE  FALSE
  OBVIOUS
<1>4. s[n] \in D /\ r[n] \in D
  BY <1>0
<1>5. /\ Cardinality(Below(R, D, s[n])) = n - 1
      /\ Cardinality(Below(R, D, r[n])) = n - 1
  BY <1>0, <1>2, <1>3
<1>6. n - 1 \in Int
  BY FS_CardinalityType
<1>7. /\ <<s[n], r[n]>> \in R => Cardinality(Below(R, D, s[n])) < Cardinality(Below(R, D, r[n]))
      /\ <<r[n], s[n]>> \in R => Cardinality(Below(R, D, r[n])) < Cardinality(Below(R, D, s[n]))
  BY <1>4, BelowCounts
<1>8. <<s[n], r[n]>> \in R \/ <<r[n], s[n]>> \in R
  BY <1>4 DEF Linear
<1> QED
  BY <1>5, <1>6, <1>7, <1>8

=============================================================================
