------------------------------- MODULE Induction ------------------------------
(***************************************************************************)
(* Induction and recursion on numbers, stated for sets and functions: the  *)
(* library's theorems take operators, which the provers cannot instantiate.*)
(***************************************************************************)
EXTENDS Integers, FiniteSetsExt, FiniteSetTheorems, WellFoundedInduction, TLAPS

\* A set of numbers up to k has a smallest one: of the intervals up to its members
\* one contains no other.
LEMMA MinIsThere ==
    ASSUME NEW k \in Nat, NEW K \in SUBSET (1 .. k), K # {}
    PROVE  Min(K) \in K /\ \A y \in K : Min(K) <= y
<1> DEFINE Below(i) == 1 .. i
           T == {Below(i) : i \in K}
           R == StrictSubsetOrdering(1 .. k)
           F == FiniteSubsetsOf(1 .. k)
<1>1. T \subseteq F
  <2>1. ASSUME NEW i \in K PROVE Below(i) \in F
    <3>1. IsFiniteSet(Below(i))
      BY FS_Interval
    <3>2. QED
      BY <3>1 DEF FiniteSubsetsOf
  <2>2. QED
    BY <2>1
<1>2. IsWellFoundedOn(R, F)
  BY FS_StrictSubsetOrderingWellFounded
<1>3. T # {}
  OBVIOUS
<1>4. \E t \in T : \A u \in T : ~ (<<u, t>> \in R)
  <2> HIDE DEF T, R, F
  <2>1. QED
    BY <1>1, <1>2, <1>3, WFMin
<1>5. PICK x \in K : \A u \in T : ~ (<<u, Below(x)>> \in R)
  BY <1>4
<1>6. ASSUME NEW y \in K PROVE x <= y
  <2> SUFFICES ASSUME y < x
               PROVE  FALSE
    OBVIOUS
  <2>1. Below(y) \subseteq Below(x) /\ x \in Below(x) /\ x \notin Below(y)
    OBVIOUS
  <2>2. Below(y) \in SUBSET (1 .. k) /\ Below(x) \in SUBSET (1 .. k)
    OBVIOUS
  <2> HIDE DEF Below
  <2>3. <<Below(y), Below(x)>> \in R
    BY <2>1, <2>2 DEF StrictSubsetOrdering
  <2>4. QED
    BY <1>5, <2>3
<1>7. QED
  BY <1>6 DEF Min

\* And a largest one.
LEMMA MaxIsThere ==
    ASSUME NEW k \in Nat, NEW K \in SUBSET (1 .. k), K # {}
    PROVE  Max(K) \in K /\ \A y \in K : Max(K) >= y
<1> DEFINE Mirror(i) == k + 1 - i
           M == {Mirror(i) : i \in K}
<1>1. M \in SUBSET (1 .. k) /\ M # {}
  <2>1. \A i \in K : Mirror(i) \in 1 .. k
    OBVIOUS
  <2>2. QED
    BY <2>1
<1>2. Min(M) \in M /\ \A y \in M : Min(M) <= y
  <2> HIDE DEF M
  <2>1. QED
    BY <1>1, MinIsThere
<1>3. PICK x \in K : Min(M) = Mirror(x)
  BY <1>2
<1>4. \A y \in K : x >= y
  <2>1. ASSUME NEW y \in K PROVE Mirror(x) <= Mirror(y)
    BY <1>2, <1>3
  <2>2. QED
    BY <2>1
<1>5. QED
  BY <1>4 DEF Max

\* Induction: a set with 0 that has the successor of each of its numbers has all
\* numbers.
LEMMA AllNumbers ==
    ASSUME NEW K, 0 \in K, \A n \in Nat : n \in K => n + 1 \in K
    PROVE  \A n \in Nat : n \in K
<1> SUFFICES ASSUME NEW n \in Nat, n \notin K
             PROVE  FALSE
  OBVIOUS
<1> DEFINE Out == {i \in 1 .. n : i \notin K}
<1>1. n # 0 /\ n \in Out /\ Out \in SUBSET (1 .. n)
  OBVIOUS
<1> HIDE DEF Out
<1>2. Min(Out) \in Out /\ \A y \in Out : Min(Out) <= y
  BY <1>1, MinIsThere
<1>3. PICK m \in 1 .. n : m \notin K /\ \A y \in Out : m <= y
  BY <1>2 DEF Out
<1>4. m - 1 \in K
  <2>1. CASE m = 1
    BY <2>1
  <2>2. CASE m # 1
    <3>1. m - 1 \in 1 .. n /\ ~(m <= m - 1)
      BY <2>2
    <3>2. QED
      BY <1>3, <3>1 DEF Out
  <2>3. QED
    BY <2>1, <2>2
<1>5. m - 1 \in Nat /\ (m - 1) + 1 = m
  OBVIOUS
<1>6. QED
  BY <1>3, <1>4, <1>5

\* f starts with a and goes on as h says.
Goes(f, S, a, h) == f \in [Nat -> S] /\ f[0] = a /\ \A n \in Nat : f[n + 1] = h[n][f[n]]

\* Recursion: a function on numbers is given by its first value and by what makes
\* each value out of the one before it.
LEMMA Recursion ==
    ASSUME NEW S, NEW a \in S, NEW h \in [Nat -> [S -> S]]
    PROVE  \E f : Goes(f, S, a, h)
<1> DEFINE Upto(g, n) == /\ g \in [0 .. n -> S] /\ g[0] = a
                         /\ \A i \in 0 .. n - 1 : g[i + 1] = h[i][g[i]]
           K == {n \in Nat : \E g : Upto(g, n)}
<1>1. \A n \in Nat : \E g : Upto(g, n)
  <2>1. 0 \in K
    <3>1. Upto([i \in 0 .. 0 |-> a], 0)
      <4>1. [i \in 0 .. 0 |-> a] \in [0 .. 0 -> S] /\ [i \in 0 .. 0 |-> a][0] = a
        OBVIOUS
      <4>2. QED
        BY <4>1
    <3>2. QED
      BY <3>1
  <2>2. ASSUME NEW n \in Nat, n \in K PROVE n + 1 \in K
    <3>1. PICK g : Upto(g, n)
      BY <2>2
    <3> DEFINE k == [i \in 0 .. n + 1 |-> IF i = n + 1 THEN h[n][g[n]] ELSE g[i]]
    <3>2. k \in [0 .. n + 1 -> S]
      BY <3>1
    <3>3. k[0] = a /\ \A i \in 0 .. n : k[i] = g[i]
      BY <3>1
    <3>4. ASSUME NEW i \in 0 .. n PROVE k[i + 1] = h[i][k[i]]
      <4>1. CASE i = n
        <5>1. k[n + 1] = h[n][g[n]]
          OBVIOUS
        <5>2. k[n] = g[n]
          BY <3>3
        <5>3. QED
          BY <4>1, <5>1, <5>2
      <4>2. CASE i # n
        <5>1. i \in 0 .. n - 1 /\ i + 1 \in 0 .. n /\ i \in 0 .. n
          BY <4>2
        <5>2. g[i + 1] = h[i][g[i]]
          BY <3>1, <5>1
        <5>3. QED
          BY <3>3, <5>1, <5>2
      <4>3. QED
        BY <4>1, <4>2
    <3> HIDE DEF k
    <3>5. Upto(k, n + 1)
      BY <3>2, <3>3, <3>4
    <3>6. QED
      BY <3>5
  <2> HIDE DEF K
  <2>3. \A n \in Nat : n \in K
    BY <2>1, <2>2, AllNumbers
  <2>4. QED
    BY <2>3 DEF K
<1>2. ASSUME NEW n \in Nat, NEW m \in Nat, NEW g, NEW k, Upto(g, n), Upto(k, m), n <= m
      PROVE  g[n] = k[n]
  <2> DEFINE E == {i \in Nat : i <= n => g[i] = k[i]}
  <2>1. 0 \in E
    BY <1>2
  <2>2. ASSUME NEW i \in Nat, i \in E PROVE i + 1 \in E
    <3> SUFFICES ASSUME i + 1 <= n
                 PROVE  g[i + 1] = k[i + 1]
      OBVIOUS
    <3>1. i \in 0 .. n - 1 /\ i \in 0 .. m - 1 /\ g[i] = k[i]
      BY <1>2, <2>2
    <3>2. QED
      BY <1>2, <3>1
  <2> HIDE DEF E
  <2>3. n \in E
    BY <2>1, <2>2, AllNumbers
  <2>4. QED
    BY <2>3 DEF E
<1> DEFINE G(n) == CHOOSE g : Upto(g, n)
           f == [n \in Nat |-> G(n)[n]]
<1>3. \A n \in Nat : Upto(G(n), n)
  BY <1>1
<1> HIDE DEF G
<1>4. f \in [Nat -> S] /\ f[0] = a
  BY <1>3
<1>5. ASSUME NEW n \in Nat PROVE f[n + 1] = h[n][f[n]]
  <2>1. G(n + 1)[n + 1] = h[n][G(n + 1)[n]]
    BY <1>3
  <2>2. G(n)[n] = G(n + 1)[n]
    <3>1. Upto(G(n), n) /\ Upto(G(n + 1), n + 1)
      BY <1>3
    <3> HIDE DEF Upto
    <3>2. QED
      BY <1>2, <3>1
  <2>3. QED
    BY <2>1, <2>2
<1>6. Goes(f, S, a, h)
  <2> HIDE DEF f
  <2>1. QED
    BY <1>4, <1>5 DEF Goes
<1>7. QED
  BY <1>6
=============================================================================
