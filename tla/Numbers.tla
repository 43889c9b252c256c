------------------------------ MODULE Numbers -------------------------------
(***************************************************************************)
(* Facts about natural numbers that several proofs use.                    *)
(***************************************************************************)
EXTENDS Integers, WellFoundedInduction, TLAPS

(* Every set of natural numbers has a least one.                           *)
LEMMA LeastNat ==
  ASSUME NEW T, T \subseteq Nat, T # {}
  PROVE  \E x \in T : \A y \in T : x <= y
  <1>1. \E x \in T : \A y \in T : ~ (<<y, x>> \in OpToRel(<, Nat))
    BY NatLessThanWellFounded, WFMin, Zenon
  <1>2. PICK x \in T : \A y \in T : ~ (<<y, x>> \in OpToRel(<, Nat))
    BY <1>1
  <1>3. \A y \in T : ~ (y < x)
    BY <1>2, Zenon DEF OpToRel
  <1>4. \A y \in T : x <= y
    BY <1>3
  <1> QED BY <1>4

(* Products keep the order, and a quotient times its divisor fits.         *)
LEMMA TimesMonotonic ==
  ASSUME NEW a \in Nat, NEW b \in Nat, NEW f \in Nat, a <= b
  PROVE  a * f <= b * f
  <1>1. (b - a) * f >= 0
    OBVIOUS
  <1>2. (b - a) * f = b * f - a * f
    OBVIOUS
  <1>3. a * f \in Int /\ b * f \in Int
    OBVIOUS
  <1> QED BY <1>1, <1>2, <1>3

(* A number at most a quotient can be multiplied with the divisor.         *)
LEMMA QuotientFits ==
  ASSUME NEW a \in Nat, NEW s \in Nat, NEW f \in Nat \ {0}, a <= s \div f
  PROVE  a * f <= s
  <1>1. s \div f \in Nat /\ (s \div f) * f <= s
    OBVIOUS
  <1>2. a * f <= (s \div f) * f
    BY <1>1, TimesMonotonic
  <1>3. a * f \in Int /\ (s \div f) * f \in Int
    BY <1>1
  <1> QED BY <1>1, <1>2, <1>3

(* Division keeps the order, so a smaller quotient comes from less.        *)
LEMMA QuotientOrder ==
  ASSUME NEW a \in Nat, NEW s \in Nat, NEW f \in Nat \ {0}, a \div f < s \div f
  PROVE  a <= s
  <1>1. a \div f \in Nat /\ s \div f \in Nat
    OBVIOUS
  <1>2. (s \div f) * f <= s /\ (s \div f) * f \in Int
    BY <1>1
  <1>3. a < (a \div f + 1) * f /\ (a \div f + 1) * f \in Int
    BY <1>1
  <1>4. (a \div f + 1) * f <= (s \div f) * f
    BY <1>1, TimesMonotonic
  <1> QED BY <1>2, <1>3, <1>4

(* A number that differs from a residue by a multiple has that residue.    *)
LEMMA Residue ==
  ASSUME NEW n \in Nat \ {0}, NEW s \in 0 .. n - 1, NEW q \in Int, NEW x \in Int,
         x = s + n * q
  PROVE  x % n = s
  <1>. DEFINE d == x \div n
              r == x % n
  <1>1. d \in Int /\ r \in 0 .. n - 1 /\ x = n * d + r
    OBVIOUS
  <1>. HIDE DEF d, r
  <1>2. n * (q - d) = r - s
    <2>1. n * (q - d) = n * q - n * d
      BY <1>1
    <2> QED BY <1>1, <2>1
  <1>3. ~(q - d >= 1)
    <2>1. ASSUME q - d >= 1 PROVE n * (q - d) >= n
      BY <1>1, <2>1
    <2> QED BY <1>1, <1>2, <2>1
  <1>4. ~(q - d <= -1)
    <2>1. ASSUME q - d <= -1 PROVE n * (q - d) <= -n
      BY <1>1, <2>1
    <2> QED BY <1>1, <1>2, <2>1
  <1>5. q - d = 0
    BY <1>1, <1>3, <1>4
  <1>6. r = s
    BY <1>1, <1>2, <1>5
  <1> QED BY <1>6 DEF r

(* Probing n slots from number m on comes to slot s.                       *)
Reached(n, m, s) == \E o \in 0 .. n - 1 : (m + o) % n = s

(* Every slot is on the way of every number, from wherever it starts.      *)
LEMMA EverySlotProbed ==
  ASSUME NEW n \in Nat \ {0}, NEW m \in Nat, NEW s \in 0 .. n - 1
  PROVE  Reached(n, m, s)
  <1>. DEFINE o == (s - m) % n
              q == (s - m) \div n
  <1>1. o \in 0 .. n - 1 /\ q \in Int /\ s - m = n * q + o
    OBVIOUS
  <1>. HIDE DEF o, q
  <1>2. n * q \in Int /\ n * (0 - q) = 0 - n * q
    BY <1>1
  <1>3. m + o = s + n * (0 - q)
    BY <1>1, <1>2
  <1>. DEFINE x == m + o
  <1>4. x \in Int /\ 0 - q \in Int /\ x = s + n * (0 - q)
    BY <1>1, <1>3
  <1>. HIDE DEF x
  <1>5. x % n = s
    BY <1>4, Residue
  <1> QED BY <1>1, <1>5 DEF x, Reached
-----------------------------------------------------------------------------
(* h is what the recursion from a with the steps g computes up to n.       *)
Computes(h, n, a, g) ==
  /\ h[0] = a
  /\ \A k \in 1 .. n : h[k] = g[<<k, h[k - 1]>>]

LEMMA RecursionUnique ==
  ASSUME NEW a, NEW g, NEW n \in Nat, NEW h, NEW f,
         Computes(h, n, a, g), Computes(f, n, a, g)
  PROVE  \A k \in 0 .. n : h[k] = f[k]
  <1>. DEFINE T == {k \in 0 .. n : h[k] # f[k]}
  <1>1. SUFFICES ASSUME T # {} PROVE FALSE
    OBVIOUS
  <1>2. PICK k \in T : \A j \in T : k <= j
    <2>1. T \subseteq Nat
      OBVIOUS
    <2> QED BY <1>1, <2>1, LeastNat
  <1>3. k # 0
    BY <1>2 DEF Computes
  <1>4. k \in 1 .. n /\ k - 1 \in 0 .. n /\ k - 1 \notin T
    BY <1>2, <1>3
  <1>5. h[k - 1] = f[k - 1]
    BY <1>4
  <1>6. h[k] = g[<<k, h[k - 1]>>] /\ f[k] = g[<<k, f[k - 1]>>]
    BY <1>4 DEF Computes
  <1> QED BY <1>2, <1>5, <1>6

(* f is the function on D that this recursion defines.                     *)
Recursion(f, D, a, g) ==
  f = [k \in D |-> IF k = 0 THEN a ELSE g[<<k, f[k - 1]>>]]

(* A recursion over the natural numbers whose steps stay in S has a        *)
(* solution, and it stays in S.                                            *)
LEMMA RecursionExists ==
  ASSUME NEW S, NEW a \in S, NEW g \in [Nat \X S -> S]
  PROVE  \E f \in [Nat -> S] : Recursion(f, Nat, a, g)
  <1>. DEFINE Part(n) == {h \in [0 .. n -> S] : Computes(h, n, a, g)}
              T == {n \in Nat : Part(n) = {}}
  <1>1. T = {}
    <2>1. SUFFICES ASSUME T # {} PROVE FALSE
      OBVIOUS
    <2>2. PICK n \in T : \A m \in T : n <= m
      BY <2>1, LeastNat
    <2>3. n # 0
      <3>1. [k \in 0 .. 0 |-> a] \in Part(0)
        BY DEF Computes
      <3> QED BY <2>2, <3>1
    <2>4. PICK h \in Part(n - 1) : TRUE
      BY <2>2, <2>3
    <2>5. [k \in 0 .. n |-> IF k = n THEN g[<<n, h[n - 1]>>] ELSE h[k]] \in Part(n)
      <3>1. h \in [0 .. n - 1 -> S] /\ Computes(h, n - 1, a, g)
        BY <2>4
      <3>2. g[<<n, h[n - 1]>>] \in S
        BY <2>3, <3>1
      <3> DEFINE e == [k \in 0 .. n |-> IF k = n THEN g[<<n, h[n - 1]>>] ELSE h[k]]
      <3>3. e \in [0 .. n -> S]
        BY <3>1, <3>2
      <3>4. Computes(e, n, a, g)
        <4>1. e[0] = a
          BY <2>3, <3>1 DEF Computes
        <4>2. ASSUME NEW k \in 1 .. n PROVE e[k] = g[<<k, e[k - 1]>>]
          <5>1. CASE k = n
            BY <2>3, <5>1
          <5>2. CASE k # n
            <6>1. k \in 1 .. n - 1 /\ k - 1 \in 0 .. n - 1 /\ k \in 0 .. n /\ k - 1 \in 0 .. n /\ k - 1 # n
              BY <5>2
            <6>2. h[k] = g[<<k, h[k - 1]>>]
              BY <3>1, <6>1 DEF Computes
            <6> QED BY <6>1, <6>2, <5>2
          <5> QED BY <5>1, <5>2
        <4>3. \A k \in 1 .. n : e[k] = g[<<k, e[k - 1]>>]
          BY <4>2
        <4> HIDE DEF e
        <4> QED BY <4>1, <4>3 DEF Computes
      <3> QED BY <3>3, <3>4
    <2> QED BY <2>2, <2>5
  <1>. DEFINE H(n) == CHOOSE h \in Part(n) : TRUE
  <1>2. ASSUME NEW n \in Nat PROVE H(n) \in [0 .. n -> S] /\ Computes(H(n), n, a, g)
    <2>1. Part(n) # {}
      BY <1>1
    <2> QED BY <2>1
  <1>. HIDE DEF H
  <1>. DEFINE f == [n \in Nat |-> H(n)[n]]
  <1>3. f \in [Nat -> S]
    BY <1>2
  <1>4. ASSUME NEW k \in Nat PROVE f[k] = IF k = 0 THEN a ELSE g[<<k, f[k - 1]>>]
    <2>1. CASE k = 0
      BY <1>2, <2>1 DEF Computes
    <2>2. CASE k # 0
      <3>1. k - 1 \in Nat /\ k \in 1 .. k /\ k - 1 \in 0 .. k - 1
        BY <2>2
      <3>2. H(k)[k] = g[<<k, H(k)[k - 1]>>]
        BY <1>2, <3>1 DEF Computes
      <3>3. Computes(H(k), k - 1, a, g)
        BY <1>2, <3>1 DEF Computes
      <3>4. H(k)[k - 1] = H(k - 1)[k - 1]
        BY <1>2, <3>1, <3>3, RecursionUnique
      <3> QED BY <2>2, <3>1, <3>2, <3>4
    <2> QED BY <2>1, <2>2
  <1>5. f = [k \in Nat |-> IF k = 0 THEN a ELSE g[<<k, f[k - 1]>>]]
    BY <1>4
  <1> QED BY <1>3, <1>5 DEF Recursion

(* The same up to some number                                              *)
LEMMA RecursionUpTo ==
  ASSUME NEW S, NEW a \in S, NEW n \in Nat, NEW g \in [Nat \X S -> S]
  PROVE  \E f \in [0 .. n -> S] : Recursion(f, 0 .. n, a, g)
  <1>1. PICK f \in [Nat -> S] : Recursion(f, Nat, a, g)
    BY RecursionExists
  <1>. DEFINE h == [k \in 0 .. n |-> f[k]]
  <1>2. h \in [0 .. n -> S]
    BY <1>1
  <1>3. ASSUME NEW k \in 0 .. n PROVE h[k] = IF k = 0 THEN a ELSE g[<<k, h[k - 1]>>]
    BY <1>1 DEF Recursion
  <1> QED BY <1>2, <1>3 DEF Recursion
=============================================================================
