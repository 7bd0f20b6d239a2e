-------------------------- MODULE InductionFacts --------------------------
(***************************************************************************)
(* Induction and recursion over numbers, and ranks in a finite order, as   *)
(* facts about sets: without an operator for a parameter, they can be      *)
(* cited where the provers do not take the library's theorems.             *)
(***************************************************************************)
EXTENDS Integers, FiniteSets, FiniteSetTheorems, WellFoundedInduction, TLAPS

\* A set of numbers with a member has a least one: from the well-foundedness of the inclusion of finite
\* sets, of the intervals below them.
LEMMA LeastNat ==
  ASSUME NEW T \in SUBSET Nat, NEW n0 \in T
  PROVE  \E m \in T : \A k \in T : m <= k
  <1> DEFINE Below(n) == 0..(n - 1)
             R == StrictSubsetOrdering(Nat)
             U == {Below(n) : n \in T}
  <1>1. \A n \in Nat : Below(n) \in FiniteSubsetsOf(Nat)
    BY FS_Interval DEF FiniteSubsetsOf
  <1>2. U \subseteq FiniteSubsetsOf(Nat) /\ U # {}
    BY <1>1
  <1>3. PICK x \in U : \A y \in U : <<y, x>> \notin R
    BY <1>2, FS_StrictSubsetOrderingWellFounded, WFMin
  <1>4. PICK m \in T : x = Below(m)
    OBVIOUS
  <1>5. SUFFICES ASSUME NEW k \in T, k < m PROVE FALSE
    BY <1>4
  <1>6. Below(k) \subseteq Below(m) /\ Below(k) # Below(m) /\ k \in Below(m) /\ k \notin Below(k)
    BY <1>5
  <1>7. <<Below(k), Below(m)>> \in R
    BY <1>6, <1>1 DEF StrictSubsetOrdering
  <1> QED BY <1>3, <1>4, <1>7

\* A set of numbers with 0 and, of each number in it, the next, is all of them.
LEMMA NatSetInduction ==
  ASSUME NEW T \in SUBSET Nat, 0 \in T, \A n \in T : n + 1 \in T
  PROVE  T = Nat
  <1> SUFFICES ASSUME NEW n \in Nat, n \notin T PROVE FALSE
    OBVIOUS
  <1>1. PICK m \in Nat \ T : \A k \in Nat \ T : m <= k
    BY LeastNat
  <1>2. m # 0 /\ m - 1 \in Nat /\ m - 1 \notin Nat \ T
    BY <1>1
  <1> QED BY <1>2

\* What begins with c and goes on by the steps, up to N.
Recursion(N, X, c, step) ==
  {h \in [0..N -> X] : \A i \in 0..N : h[i] = IF i = 0 THEN c ELSE step[<<h[i - 1], i>>]}

\* A function defined by recursion over an interval exists.
LEMMA RecursionExists ==
  ASSUME NEW N \in Nat, NEW X, NEW c \in X, NEW step \in [X \X (1..N) -> X]
  PROVE  \E h : h \in Recursion(N, X, c, step)
  <1> DEFINE Good(n, h) == /\ h \in [0..n -> X]
                           /\ \A i \in 0..n : h[i] = IF i = 0 THEN c ELSE step[<<h[i - 1], i>>]
             T == {n \in Nat : n <= N => \E h : Good(n, h)}
  <1>1. 0 \in T
    <2>1. Good(0, [i \in 0..0 |-> c])
      OBVIOUS
    <2> QED BY <2>1
  <1>2. ASSUME NEW n \in T PROVE n + 1 \in T
    <2> SUFFICES ASSUME n + 1 <= N PROVE \E h : Good(n + 1, h)
      OBVIOUS
    <2>1. PICK h : Good(n, h)
      OBVIOUS
    <2> DEFINE g == [i \in 0..(n + 1) |-> IF i = n + 1 THEN step[<<h[n], n + 1>>] ELSE h[i]]
    <2>2. h[n] \in X /\ n + 1 \in 1..N
      BY <2>1
    <2>3. step[<<h[n], n + 1>>] \in X
      BY <2>2
    <2>4. g \in [0..(n + 1) -> X]
      BY <2>1, <2>3
    <2>5. ASSUME NEW i \in 0..(n + 1) PROVE g[i] = IF i = 0 THEN c ELSE step[<<g[i - 1], i>>]
      <3>1. CASE i = n + 1
        <4>1. i # 0 /\ i - 1 = n /\ i - 1 \in 0..(n + 1) /\ i - 1 # n + 1
          BY <3>1
        <4>2. g[i] = step[<<h[n], n + 1>>] /\ g[i - 1] = h[n]
          BY <3>1, <4>1
        <4>3. step[<<g[i - 1], i>>] = g[i]
          BY <4>2, <3>1
        <4> QED BY <4>1, <4>3
      <3>2. CASE i # n + 1
        <4>1. i \in 0..n /\ g[i] = h[i] /\ (i # 0 => i - 1 \in 0..n /\ g[i - 1] = h[i - 1])
          BY <3>2
        <4> QED BY <4>1, <2>1
      <3> QED BY <3>1, <3>2
    <2> QED BY <2>4, <2>5
  <1>3. T = Nat
    <2> HIDE DEF T
    <2> QED BY <1>1, <1>2, NatSetInduction DEF T
  <1>4. \E h : Good(N, h)
    BY <1>3
  <1> QED BY <1>4 DEF Recursion

\* A set of the numbers up to N with 0 and, of each below N in it, the next, is all of them.
LEMMA IntervalInduction ==
  ASSUME NEW N \in Nat, NEW T \in SUBSET (0..N), 0 \in T, \A i \in 0..(N - 1) : i \in T => i + 1 \in T
  PROVE  T = 0..N
  <1> DEFINE U == {n \in Nat : n <= N => n \in T}
  <1>1. U = Nat
    <2>1. 0 \in U /\ \A n \in U : n + 1 \in U
      OBVIOUS
    <2> QED BY <2>1, NatSetInduction
  <1>2. ASSUME NEW n \in 0..N PROVE n \in T
    <2>1. n \in U
      BY <1>1
    <2> QED BY <2>1
  <1> QED BY <1>2

\* The place of i among the members of S in the order R.
Rank(S, R, i) == Cardinality({j \in S : <<j, i>> \in R}) + 1

\* R orders S: no member is before itself, and of two members one is before the other.
Orders(R, S) ==
  /\ \A i \in S : <<i, i>> \notin R
  /\ \A i, j, k \in S : <<i, j>> \in R /\ <<j, k>> \in R => <<i, k>> \in R
  /\ \A i, j \in S : i = j \/ <<i, j>> \in R \/ <<j, i>> \in R

\* What is before has the lower rank.
LEMMA RankOrder ==
  ASSUME NEW S, IsFiniteSet(S), NEW R, Orders(R, S), NEW i \in S, NEW j \in S, <<i, j>> \in R
  PROVE  Rank(S, R, i) < Rank(S, R, j)
  <1> DEFINE B(k) == {l \in S : <<l, k>> \in R}
  <1>1. IsFiniteSet(B(i)) /\ IsFiniteSet(B(j)) /\ B(j) \subseteq S
    BY FS_Subset
  <1>2. B(i) \subseteq B(j) /\ i \in B(j) /\ i \notin B(i)
    BY DEF Orders
  <1>3. Cardinality(B(i)) <= Cardinality(B(j)) /\ Cardinality(B(i)) # Cardinality(B(j))
    BY <1>1, <1>2, FS_Subset
  <1>4. Cardinality(B(i)) \in Nat /\ Cardinality(B(j)) \in Nat
    BY <1>1, FS_CardinalityType
  <1> QED BY <1>3, <1>4 DEF Rank

\* The ranks are the places 1..n, each of one member.
Places(S, R, n) ==
  /\ \A i \in S : Rank(S, R, i) \in 1..n
  /\ \A i, j \in S : Rank(S, R, i) = Rank(S, R, j) => i = j
  /\ \A k \in 1..n : \E i \in S : Rank(S, R, i) = k

\* In an order of a finite set the ranks are the places from 1 on, each taken once.
LEMMA RankIsPlace ==
  ASSUME NEW S, IsFiniteSet(S), NEW R, Orders(R, S)
  PROVE  Cardinality(S) \in Nat /\ Places(S, R, Cardinality(S))
  <1> DEFINE B(k) == {l \in S : <<l, k>> \in R}
             place == [i \in S |-> Rank(S, R, i)]
  <1>1. Cardinality(S) \in Nat
    BY FS_CardinalityType
  <1>2. ASSUME NEW i \in S PROVE Rank(S, R, i) \in 1..Cardinality(S)
    <2>1. IsFiniteSet(B(i)) /\ Cardinality(B(i)) <= Cardinality(S) /\ Cardinality(B(i)) # Cardinality(S)
      <3>1. B(i) \in SUBSET S /\ i \notin B(i)
        BY DEF Orders
      <3> QED BY <3>1, FS_Subset
    <2>2. Cardinality(B(i)) \in Nat
      BY <2>1, FS_CardinalityType
    <2> QED BY <2>1, <2>2, <1>1 DEF Rank
  <1>3. ASSUME NEW i \in S, NEW j \in S, Rank(S, R, i) = Rank(S, R, j) PROVE i = j
    <2>1. Rank(S, R, i) \in Int
      BY <1>2
    <2>2. i = j \/ <<i, j>> \in R \/ <<j, i>> \in R
      BY DEF Orders
    <2>3. <<i, j>> \in R => Rank(S, R, i) < Rank(S, R, j)
      BY RankOrder
    <2>4. <<j, i>> \in R => Rank(S, R, j) < Rank(S, R, i)
      BY RankOrder
    <2> QED BY <2>1, <1>3, <2>2, <2>3, <2>4
  <1>4. place \in Injection(S, 1..Cardinality(S))
    BY <1>2, <1>3 DEF Injection, IsInjective
  <1>5. IsFiniteSet(1..Cardinality(S)) /\ Cardinality(1..Cardinality(S)) = Cardinality(S)
    BY <1>1, FS_Interval
  <1>6. place \in Surjection(S, 1..Cardinality(S))
    <2> HIDE DEF place
    <2> QED BY <1>4, <1>5, FS_Injection
  <1>7. ASSUME NEW k \in 1..Cardinality(S) PROVE \E i \in S : Rank(S, R, i) = k
    BY <1>6 DEF Surjection
  <1> QED BY <1>1, <1>2, <1>3, <1>7 DEF Places
=============================================================================
