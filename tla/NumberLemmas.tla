---------------------------- MODULE NumberLemmas ----------------------------
(***************************************************************************)
(* Facts about natural numbers, and about functions that are defined by    *)
(* recursion over them, that the proofs about several components use.      *)
(***************************************************************************)
EXTENDS Integers, WellFoundedInduction, TLAPS

\* A set of natural numbers that is not empty has a least element.
LEMMA LeastExists ==
  ASSUME NEW S \in SUBSET Nat, S # {}
  PROVE  \E x \in S : \A y \in S : x <= y
<1> DEFINE R == OpToRel(<, Nat)
<1>1. IsWellFoundedOn(R, Nat)
  BY NatLessThanWellFounded
<1> HIDE DEF R
<1>2. PICK x \in S : \A y \in S : ~(<<y, x>> \in R)
  BY <1>1, WFMin
<1>3. \A y \in S : ~(y < x)
  BY <1>2 DEF R, OpToRel
<1>4. QED BY <1>3

\* A set that holds the first number, and each one whose predecessor it holds, holds all.
LEMMA Induction ==
  ASSUME NEW N \in Nat, NEW T, 0 \in T, \A k \in 1..N : k - 1 \in T => k \in T
  PROVE  0..N \subseteq T
<1> DEFINE Bad == (0..N) \ T
<1>1. Bad \in SUBSET Nat
  OBVIOUS
<1>2. SUFFICES ASSUME Bad # {} PROVE FALSE
  OBVIOUS
<1> HIDE DEF Bad
<1>3. PICK n \in Bad : \A k \in Bad : n <= k
  BY <1>1, <1>2, LeastExists
<1>4. n \in 1..N /\ n - 1 \notin Bad
  BY <1>3 DEF Bad
<1>5. n - 1 \in T
  BY <1>4 DEF Bad
<1>6. QED BY <1>4, <1>5 DEF Bad

\* f has the value s at 0, and g gives each value up to N from its place and the one before.
Follows(f, N, s, g) == f[0] = s /\ \A k \in 1..N : f[k] = g[<<k, f[k - 1]>>]

\* A function that is given by its first value, and by each value from the one before, exists.
LEMMA RecursionExists ==
  ASSUME NEW S, NEW s \in S, NEW N \in Nat, NEW g \in [(1..N) \X S -> S]
  PROVE  \E f \in [0..N -> S] : Follows(f, N, s, g)
<1> DEFINE Good(n) == \E f \in [0..n -> S] : f[0] = s /\ \A k \in 1..n : f[k] = g[<<k, f[k - 1]>>]
           T == {n \in 0..N : Good(n)}
<1>1. Good(0)
  <2>1. [k \in 0..0 |-> s] \in [0..0 -> S]
    OBVIOUS
  <2>2. [k \in 0..0 |-> s][0] = s /\ 1..0 = {}
    OBVIOUS
  <2>3. QED BY <2>1, <2>2
<1>2. ASSUME NEW n \in 1..N, Good(n - 1)
      PROVE  Good(n)
  <2>1. PICK f \in [0..(n - 1) -> S] : f[0] = s /\ \A k \in 1..(n - 1) : f[k] = g[<<k, f[k - 1]>>]
    BY <1>2
  <2> DEFINE v == g[<<n, f[n - 1]>>]
             e == [k \in 0..n |-> IF k = n THEN v ELSE f[k]]
  <2>2. f[n - 1] \in S /\ v \in S
    OBVIOUS
  <2>3. e \in [0..n -> S]
    BY <2>2
  <2>4. e[0] = s
    BY <2>1
  <2>5. \A k \in 0..(n - 1) : e[k] = f[k]
    OBVIOUS
  <2>6. e[n] = v
    OBVIOUS
  <2> HIDE DEF e
  <2>7. \A k \in 1..(n - 1) : e[k] = g[<<k, e[k - 1]>>]
    BY <2>1, <2>5
  <2>8. e[n] = g[<<n, e[n - 1]>>]
    BY <2>5, <2>6
  <2>9. \A k \in 1..n : k = n \/ k \in 1..(n - 1)
    OBVIOUS
  <2>10. QED BY <2>3, <2>4, <2>7, <2>8, <2>9
<1> HIDE DEF Good
<1>3. 0 \in T
  BY <1>1
<1>4. \A k \in 1..N : k - 1 \in T => k \in T
  BY <1>2
<1> HIDE DEF T
<1>5. 0..N \subseteq T
  BY <1>3, <1>4, Induction
<1>6. Good(N)
  BY <1>5 DEF T
<1>7. QED BY <1>6 DEF Good, Follows

\* The quotient rounded up, times the divisor, is not less than the dividend.
LEMMA RoundedUp ==
  ASSUME NEW n \in Nat, NEW m \in Nat \ {0}
  PROVE  /\ (n + m - 1) \div m \in Nat
         /\ ((n + m - 1) \div m) * m >= n
<1> DEFINE k == n + m - 1
           q == k \div m
<1>1. k \in Nat
  OBVIOUS
<1> HIDE DEF k
<1>2. k = m * q + (k % m) /\ k % m \in 0..(m - 1) /\ q \in Nat
  BY <1>1
<1> HIDE DEF q
<1>3. q * m = m * q /\ q * m \in Nat
  BY <1>2
<1>4. q * m >= k - (m - 1)
  BY <1>1, <1>2, <1>3
<1>5. q \in Nat /\ q * m >= n
  BY <1>2, <1>3, <1>4 DEF k
<1>6. QED BY <1>5 DEF q, k

\* A number is the quotient times the divisor, and the rest, and only so.
LEMMA Division ==
  ASSUME NEW n \in Nat, NEW m \in Nat \ {0}
  PROVE  /\ n \div m \in Nat /\ n % m \in 0..(m - 1)
         /\ n = m * (n \div m) + (n % m)
OBVIOUS

LEMMA DivisionUnique ==
  ASSUME NEW n \in Nat, NEW m \in Nat \ {0}, NEW q \in Nat, NEW r \in 0..(m - 1), n = m * q + r
  PROVE  n \div m = q /\ n % m = r
OBVIOUS

=============================================================================
