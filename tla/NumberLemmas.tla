----------------------------- MODULE NumberLemmas -----------------------------
(***************************************************************************)
(* Numbers: induction, recursive functions and division.  The library's    *)
(* theorems on induction take the property as an operator; these take the  *)
(* set of the numbers that have it.                                        *)
(***************************************************************************)
EXTENDS Integers, WellFoundedInduction, TLAPS

\* A set of numbers has a least one.
LEMMA LeastNumber == ASSUME NEW T \in SUBSET Nat, T # {}
                     PROVE  \E m \in T : \A k \in T : m <= k
<1>1. PICK x \in T : \A y \in T : ~ (<<y, x>> \in OpToRel(<, Nat))
  BY NatLessThanWellFounded, WFMin
<1>2. \A y \in T : ~(y < x)
  BY <1>1 DEF OpToRel
<1> QED BY <1>2

\* A set of numbers with 0, and with the next of each below a bound, has all up to it.
LEMMA Induction ==
  ASSUME NEW N \in Nat, NEW T, 0 \in T,
         \A k \in 0 .. (N - 1) : k \in T => k + 1 \in T
  PROVE  \A k \in 0 .. N : k \in T
<1> SUFFICES ASSUME NEW k \in 0 .. N, k \notin T PROVE FALSE
  OBVIOUS
<1> DEFINE Bad == {i \in 0 .. N : i \notin T}
<1>1. PICK m \in Bad : \A i \in Bad : m <= i
  <2>1. Bad \in SUBSET Nat /\ Bad # {}
    OBVIOUS
  <2> HIDE DEF Bad
  <2> QED BY <2>1, LeastNumber
<1>2. m # 0 /\ m \in 1 .. N
  BY <1>1
<1>3. m - 1 \in T
  BY <1>1, <1>2
<1> QED BY <1>1, <1>2, <1>3

\* A set of numbers below a bound has a greatest one.
LEMMA GreatestNumber ==
  ASSUME NEW N \in Nat, NEW T \in SUBSET (0 .. N), T # {}
  PROVE  \E m \in T : \A k \in T : k <= m
<1> DEFINE D == {k \in 0 .. N : N - k \in T}
<1>1. PICK x \in T : TRUE
  OBVIOUS
<1>2. N - x \in D
  BY <1>1
<1>3. PICK d \in D : \A e \in D : d <= e
  <2>1. D \in SUBSET Nat
    OBVIOUS
  <2> HIDE DEF D
  <2> QED BY <1>2, <2>1, LeastNumber
<1>4. \A k \in T : N - k \in D
  OBVIOUS
<1> QED BY <1>3, <1>4

\* f has the first value, and a step leads from each of its values to the next.
Recurs(f, n, V, first, step) ==
  f \in [0 .. n -> V] /\ f[0] = first /\ \A i \in 1 .. n : f[i] = step[i][f[i - 1]]

\* A function on 0 .. n may be defined by its first value and the steps.
LEMMA Recursion ==
  ASSUME NEW n \in Nat, NEW V, NEW first \in V, NEW step \in [1 .. n -> [V -> V]]
  PROVE  \E f : Recurs(f, n, V, first, step)
<1> DEFINE Is(f, k) == /\ f \in [0 .. k -> V] /\ f[0] = first
                       /\ \A i \in 1 .. k : f[i] = step[i][f[i - 1]]
           T == {k \in 0 .. n : \E f : Is(f, k)}
<1>1. 0 \in T
  <2>1. Is([i \in 0 .. 0 |-> first], 0)
    OBVIOUS
  <2> HIDE DEF Is
  <2> QED BY <2>1
<1>2. ASSUME NEW k \in 0 .. (n - 1), k \in T PROVE k + 1 \in T
  <2>1. PICK f : Is(f, k)
    BY <1>2
  <2> DEFINE v == step[k + 1][f[k]]
             g == [i \in 0 .. (k + 1) |-> IF i <= k THEN f[i] ELSE v]
  <2>2. v \in V
    BY <2>1
  <2> HIDE DEF v
  <2>3. g \in [0 .. (k + 1) -> V] /\ g[0] = first
    BY <2>1, <2>2
  <2>4. ASSUME NEW i \in 1 .. (k + 1) PROVE g[i] = step[i][g[i - 1]]
    <3>1. CASE i <= k
      <4>1. g[i] = f[i] /\ g[i - 1] = f[i - 1] /\ f[i] = step[i][f[i - 1]]
        BY <2>1, <3>1
      <4> QED BY <4>1
    <3>2. CASE i = k + 1
      <4>1. g[i] = v /\ g[i - 1] = f[k]
        BY <3>2
      <4> QED BY <3>2, <4>1 DEF v
    <3> QED BY <3>1, <3>2
  <2>5. Is(g, k + 1)
    <3> HIDE DEF g
    <3> QED BY <2>3, <2>4
  <2> HIDE DEF g, Is
  <2> QED BY <2>5
<1>3. n \in T
  <2>1. \A k \in 0 .. (n - 1) : k \in T => k + 1 \in T
    <3> HIDE DEF T
    <3> QED BY <1>2
  <2>2. \A k \in 0 .. n : k \in T
    <3> HIDE DEF T
    <3> QED BY <1>1, <2>1, Induction
  <2> QED BY <2>2
<1> QED BY <1>3 DEF Recurs

-----------------------------------------------------------------------------
\* A number is its quotient's multiple and the remainder.
LEMMA QuotientAndRemainder ==
  ASSUME NEW n \in Nat \ {0}, NEW x \in Nat
  PROVE  x \div n \in Nat /\ x = n * (x \div n) + (x % n) /\ x % n \in 0 .. (n - 1)
OBVIOUS

\* A number is a multiple and its remainder.
LEMMA Division ==
  ASSUME NEW n \in Nat \ {0}, NEW x \in Nat
  PROVE  \E k \in Nat : x = n * k + (x % n) /\ x % n \in 0 .. (n - 1)
BY QuotientAndRemainder

\* The remainder is the only one.
LEMMA Remainder ==
  ASSUME NEW n \in Nat \ {0}, NEW k \in Int, NEW r \in 0 .. (n - 1)
  PROVE  (n * k + r) % n = r
OBVIOUS

\* A quotient is what its number has of the divisor.
LEMMA Quotient ==
  ASSUME NEW n \in Nat \ {0}, NEW k \in Nat, NEW r \in 0 .. (n - 1)
  PROVE  (n * k + r) \div n = k
OBVIOUS

\* Dividing by a product is dividing by one factor, then by the other.
LEMMA QuotientOfQuotient ==
  ASSUME NEW p \in Nat \ {0}, NEW r \in Nat \ {0}, NEW v \in Nat
  PROVE  v \div (p * r) = (v \div p) \div r
<1> DEFINE q == v \div p
           k == q \div r
           a == v % p
           b == q % r
<1>1. q \in Nat /\ a \in 0 .. (p - 1) /\ v = p * q + a
  BY QuotientAndRemainder
<1>2. k \in Nat /\ b \in 0 .. (r - 1) /\ q = r * k + b
  <2> HIDE DEF q
  <2> QED BY <1>1, QuotientAndRemainder
<1> HIDE DEF q, k, a, b
<1>3. v = (p * r) * k + (p * b + a)
  BY <1>1, <1>2
<1>4. p * b + a \in 0 .. (p * r - 1) /\ p * r \in Nat \ {0}
  <2>1. \A x \in 0 .. (r - 1) : p * x >= 0 /\ p * x <= p * (r - 1)
    OBVIOUS
  <2>2. p * (r - 1) = p * r - p
    OBVIOUS
  <2> QED BY <1>1, <1>2, <2>1, <2>2
<1> DEFINE m == p * r
           c == p * b + a
<1> HIDE DEF m, c
<1>5. (m * k + c) \div m = k
  BY <1>2, <1>4, Quotient DEF m, c
<1>6. v \div m = k
  BY <1>3, <1>5 DEF m, c
<1> QED BY <1>6 DEF m, k, q

\* A number is even or odd.
LEMMA EvenOrOdd ==
  ASSUME NEW q \in Nat PROVE \E t \in Nat : q = 2 * t + (q % 2) /\ q % 2 \in 0 .. 1
<1>1. q \div 2 \in Nat /\ q = 2 * (q \div 2) + (q % 2) /\ q % 2 \in 0 .. 1
  OBVIOUS
<1> QED BY <1>1

=============================================================================
