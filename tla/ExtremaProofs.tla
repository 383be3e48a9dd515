---------------------------- MODULE ExtremaProofs ---------------------------
(***************************************************************************)
(* Facts about the largest and the smallest element of a set, induction    *)
(* upward over the numbers in a set, and recursive functions on 0..n.      *)
(***************************************************************************)
EXTENDS Integers, FiniteSetsExt, TLAPS, WellFoundedInduction

\* A set of integers that is bounded has a largest element.
LEMMA MaxIn ==
    ASSUME NEW n \in Int, NEW S \in SUBSET Int, S # {}, \A x \in S : x <= n
    PROVE  Max(S) \in S /\ \A y \in S : Max(S) >= y
<1> DEFINE T == {n - x : x \in S}
<1>1. T \subseteq Nat /\ T # {}
  <2>1. \A x \in S : n - x \in Nat
    OBVIOUS
  <2>2. PICK x \in S : TRUE
    OBVIOUS
  <2> QED
    BY <2>1, <2>2, Zenon
<1>2. PICK t \in T : \A u \in T : ~(<<u, t>> \in OpToRel(<, Nat))
  <2> HIDE DEF T
  <2> QED
    BY <1>1, NatLessThanWellFounded, WFMin
<1>3. PICK m \in S : t = n - m
  OBVIOUS
<1>4. \A y \in S : m >= y
  <2> SUFFICES ASSUME NEW y \in S, m < y PROVE FALSE
    OBVIOUS
  <2>1. n - y \in T /\ n - y < t /\ n - y \in Nat /\ t \in Nat
    BY <1>1, <1>3
  <2>2. <<n - y, t>> \in OpToRel(<, Nat)
    BY <2>1 DEF OpToRel
  <2> QED
    BY <1>2, <2>1, <2>2
<1> QED
  BY <1>4 DEF Max

\* The smaller of two.
LEMMA MinTwo ==
    ASSUME NEW a \in Int, NEW b \in Int
    PROVE  Min({a, b}) \in {a, b} /\ Min({a, b}) <= a /\ Min({a, b}) <= b
<1>1. \E x \in {a, b} : \A y \in {a, b} : x <= y
  BY SMT
<1> QED
  BY <1>1 DEF Min

\* What is at least as large as every element is the largest.
LEMMA MaxIs ==
    ASSUME NEW S \in SUBSET Int, NEW m \in S, \A y \in S : m >= y
    PROVE  Max(S) = m
<1>1. S # {} /\ m \in Int /\ \A x \in S : x <= m
  OBVIOUS
<1>2. Max(S) \in S /\ \A y \in S : Max(S) >= y
  BY <1>1, MaxIn
<1>3. Max(S) \in Int /\ m >= Max(S) /\ Max(S) >= m
  BY <1>2
<1> HIDE DEF Max
<1> QED
  BY <1>1, <1>3

\* A set of natural numbers has a least element, which CHOOSE picks.
LEMMA LeastIn ==
    ASSUME NEW S \in SUBSET Nat, S # {}
    PROVE  LET m == CHOOSE o \in S : \A p \in S : o <= p IN m \in S /\ \A p \in S : m <= p
<1>1. PICK m \in S : \A p \in S : ~(<<p, m>> \in OpToRel(<, Nat))
  BY NatLessThanWellFounded, WFMin
<1>2. \A p \in S : m <= p
  <2> SUFFICES ASSUME NEW p \in S, p < m PROVE FALSE
    OBVIOUS
  <2>1. <<p, m>> \in OpToRel(<, Nat)
    BY DEF OpToRel
  <2> QED
    BY <1>1, <2>1
<1> QED
  BY <1>2

\* A set of natural numbers that is not empty has a smallest element.
LEMMA MinIn ==
    ASSUME NEW S \in SUBSET Nat, S # {}
    PROVE  Min(S) \in S /\ \A x \in S : Min(S) <= x
BY LeastIn DEF Min

\* What is at most every element is the smallest.
LEMMA MinIs ==
    ASSUME NEW S \in SUBSET Nat, NEW m \in S, \A y \in S : m <= y
    PROVE  Min(S) = m
<1>1. S # {}
  OBVIOUS
<1>2. Min(S) \in S /\ \A y \in S : Min(S) <= y
  BY <1>1, MinIn
<1>3. Min(S) \in Nat /\ m \in Nat /\ Min(S) <= m /\ m <= Min(S)
  BY <1>2
<1> QED
  BY <1>3

-----------------------------------------------------------------------------
\* Induction upward, over the numbers in a set.
LEMMA Upward ==
    ASSUME NEW n \in Nat, NEW P, 0 \in P, \A i \in 0..(n - 1) : i \in P => i + 1 \in P
    PROVE  0..n \subseteq P
<1> DEFINE S == {i \in 0..n : i \notin P}
<1> SUFFICES ASSUME S # {} PROVE FALSE
  OBVIOUS
<1>1. PICK m \in S : \A p \in S : m <= p
  <2>1. S \in SUBSET Nat
    OBVIOUS
  <2> HIDE DEF S
  <2> QED
    BY <2>1, LeastIn
<1>2. m \in 0..n /\ m \notin P /\ m # 0
  OBVIOUS
<1>3. m - 1 \in 0..(n - 1) /\ m - 1 \in 0..n /\ ~ (m <= m - 1)
  BY <1>2
<1>4. m - 1 \in P
  BY <1>1, <1>3
<1>5. (m - 1) + 1 = m
  BY <1>2
<1> QED
  BY <1>2, <1>3, <1>4, <1>5

\* The values of a recursive function on 0..n, of which each comes from the one before.
Iterates(g, n, S, c, step) ==
    g \in [0..n -> S] /\ g[0] = c /\ \A i \in 1..n : g[i] = step[i][g[i - 1]]

LEMMA Recursion ==
    ASSUME NEW n \in Nat, NEW S, NEW c \in S, NEW step \in [1..n -> [S -> S]]
    PROVE  \E g : Iterates(g, n, S, c, step)
<1> DEFINE Good(k, g) == g[0] = c /\ \A i \in 1..k : g[i] = step[i][g[i - 1]]
           P == {k \in 0..n : \E g \in [0..k -> S] : Good(k, g)}
<1>1. 0 \in P
  <2> DEFINE g == [i \in 0..0 |-> c]
  <2>1. g \in [0..0 -> S] /\ g[0] = c /\ 1..0 = {} /\ 0 \in 0..n
    OBVIOUS
  <2> HIDE DEF g
  <2> QED
    BY <2>1
<1>2. ASSUME NEW k \in 0..(n - 1), k \in P PROVE k + 1 \in P
  <2>1. PICK g \in [0..k -> S] : Good(k, g)
    BY <1>2
  <2> DEFINE x == step[k + 1][g[k]]
             h == [i \in 0..(k + 1) |-> IF i = k + 1 THEN x ELSE g[i]]
  <2>2. k \in Nat /\ k + 1 \in 1..n /\ g[k] \in S
    BY <1>2
  <2>3. x \in S
    BY <2>2
  <2> HIDE DEF x
  <2>4. h \in [0..(k + 1) -> S]
    BY <2>2, <2>3
  <2>5. h[0] = c
    BY <2>1, <2>2
  <2>6. ASSUME NEW i \in 1..(k + 1) PROVE h[i] = step[i][h[i - 1]]
    <3>1. CASE i = k + 1
      <4>1. h[i] = x /\ h[i - 1] = g[k] /\ i - 1 = k
        BY <2>2, <3>1
      <4> QED
        BY <3>1, <4>1 DEF x
    <3>2. CASE i # k + 1
      <4>1. i \in 1..k /\ i \in 0..(k + 1) /\ i - 1 \in 0..(k + 1) /\ i - 1 # k + 1
        BY <2>2, <3>2
      <4>2. h[i] = g[i] /\ h[i - 1] = g[i - 1]
        BY <3>2, <4>1
      <4> QED
        BY <2>1, <4>1, <4>2
    <3> QED
      BY <3>1, <3>2
  <2> HIDE DEF h
  <2> QED
    BY <2>2, <2>4, <2>5, <2>6
<1> HIDE DEF P
<1>3. 0..n \subseteq P
  BY <1>1, <1>2, Upward
<1>4. n \in P
  BY <1>3
<1>5. PICK g \in [0..n -> S] : Good(n, g)
  BY <1>4 DEF P
<1>6. Iterates(g, n, S, c, step)
  BY <1>5 DEF Iterates
<1> QED
  BY <1>6
=============================================================================
