------------------------------- MODULE DataLemmas -------------------------------
(***************************************************************************)
(* Facts about numbers, remainders and bags that the proofs of several     *)
(* components use.                                                         *)
(***************************************************************************)
EXTENDS Integers, Bags, FiniteSetTheorems, TLAPS

\* A set of natural numbers that is not empty has a least element: induction
\* over numbers, without an operator for the induction hypothesis.
LEMMA Least ==
    ASSUME NEW T \in SUBSET Nat, T # {}
    PROVE  \E x \in T : \A y \in T : x <= y
<1> DEFINE Fam == {0 .. n - 1 : n \in T}
<1>1. Fam \subseteq FiniteSubsetsOf(Nat)
  <2>1. \A n \in T : 0 .. n - 1 \in SUBSET Nat /\ IsFiniteSet(0 .. n - 1)
    BY FS_Interval
  <2> QED
    BY <2>1 DEF FiniteSubsetsOf
<1>2. PICK U \in Fam : \A V \in Fam : <<V, U>> \notin StrictSubsetOrdering(Nat)
  <2>1. Fam # {}
    OBVIOUS
  <2> QED
    BY <1>1, <2>1, FS_StrictSubsetOrderingWellFounded, WFMin
<1>3. PICK x \in T : U = 0 .. x - 1
  BY <1>2
<1>4. ASSUME NEW y \in T, y < x PROVE FALSE
  <2> DEFINE V == 0 .. y - 1
  <2>1. V \in Fam /\ V \subseteq U /\ V # U /\ U \in SUBSET Nat /\ V \in SUBSET Nat
    <3>1. y \in U /\ y \notin V
      BY <1>3, <1>4
    <3> QED
      BY <1>3, <1>4, <3>1
  <2>2. <<V, U>> \in StrictSubsetOrdering(Nat)
    BY <2>1 DEF StrictSubsetOrdering
  <2> QED
    BY <1>2, <2>1, <2>2
<1> QED
  BY <1>4

\* What holds of 0 and goes on from each number to the next holds up to N.
LEMMA UpTo ==
    ASSUME NEW N \in Nat, NEW T, 0 \in T, \A n \in 1 .. N : n - 1 \in T => n \in T
    PROVE  \A n \in 0 .. N : n \in T
<1> DEFINE Bad == {n \in 0 .. N : n \notin T}
<1>1. ASSUME Bad # {} PROVE FALSE
  <2>1. PICK k \in Bad : \A x \in Bad : k <= x
    <3>1. Bad \in SUBSET Nat
      OBVIOUS
    <3> HIDE DEF Bad
    <3> QED
      BY <1>1, <3>1, Least
  <2>2. k \in 1 .. N /\ k - 1 \in 0 .. N /\ ~ (k <= k - 1)
    BY <2>1
  <2> QED
    BY <2>1, <2>2
<1> QED
  BY <1>1

\* What a step function makes of a first value, N times, exists: recursion over
\* numbers, the step being a function instead of an operator.
Iterates(f, N, b, g) == f[0] = b /\ \A n \in 1 .. N : f[n] = g[<<f[n - 1], n>>]

\* Any step function can be iterated, as often as one likes.
LEMMA Recursion ==
    ASSUME NEW S, NEW N \in Nat, NEW b \in S, NEW g \in [S \X (1 .. N) -> S]
    PROVE  \E f \in [0 .. N -> S] : Iterates(f, N, b, g)
<1> DEFINE Is(f, k) == /\ f \in [0 .. k -> S] /\ f[0] = b
                       /\ \A n \in 1 .. k : f[n] = g[<<f[n - 1], n>>]
           Bad == {k \in Nat : k <= N /\ ~ \E f : Is(f, k)}
<1>1. ASSUME Bad # {} PROVE FALSE
  <2>1. PICK k \in Bad : \A x \in Bad : k <= x
    BY <1>1, Least
  <2>2. k \in Nat /\ k <= N /\ ~ \E f : Is(f, k)
    BY <2>1
  <2>3. k # 0
    <3> DEFINE f == [n \in 0 .. 0 |-> b]
    <3>1. Is(f, 0)
      OBVIOUS
    <3> HIDE DEF f
    <3> QED
      BY <2>2, <3>1
  <2>4. PICK f : Is(f, k - 1)
    <3>1. k - 1 \in Nat /\ k - 1 <= N /\ ~ (k <= k - 1)
      BY <2>2, <2>3
    <3>2. k - 1 \notin Bad
      BY <2>1, <3>1
    <3> QED
      BY <3>1, <3>2
  <2>5. k - 1 \in 0 .. k - 1 /\ k \in 1 .. N /\ k \notin 0 .. k - 1
    BY <2>2, <2>3
  <2> DEFINE v == g[<<f[k - 1], k>>]
             h == [n \in 0 .. k |-> IF n = k THEN v ELSE f[n]]
  <2>6. v \in S
    <3>1. <<f[k - 1], k>> \in S \X (1 .. N)
      BY <2>4, <2>5
    <3> QED
      BY <3>1
  <2> HIDE DEF v
  <2>7. h \in [0 .. k -> S]
    <3>1. ASSUME NEW n \in 0 .. k, n # k PROVE f[n] \in S
      <4>1. n \in 0 .. k - 1
        BY <2>2, <3>1
      <4> QED
        BY <2>4, <4>1
    <3> QED
      BY <2>6, <3>1
  <2>8. h[0] = b
    <3>1. 0 \in 0 .. k
      BY <2>2
    <3> QED
      BY <2>3, <2>4, <3>1
  <2>9. ASSUME NEW n \in 1 .. k PROVE h[n] = g[<<h[n - 1], n>>]
    <3>1. n \in 0 .. k /\ n - 1 \in 0 .. k /\ n - 1 # k
      BY <2>2
    <3>2. CASE n = k
      BY <3>1, <3>2 DEF v
    <3>3. CASE n # k
      <4>1. n \in 1 .. k - 1
        BY <2>2, <3>3
      <4> QED
        BY <2>4, <3>1, <3>3, <4>1
    <3> QED
      BY <3>2, <3>3
  <2>10. Is(h, k)
    BY <2>7, <2>8, <2>9
  <2> HIDE DEF h
  <2> QED
    BY <2>2, <2>10
<1>2. N \notin Bad
  BY <1>1
<1>3. \E f : Is(f, N)
  BY <1>2
<1>4. PICK f : Is(f, N)
  BY <1>3
<1>5. f \in [0 .. N -> S] /\ Iterates(f, N, b, g)
  BY <1>4 DEF Iterates
<1> QED
  BY <1>5

\* The remainder is what the division leaves.
LEMMA ModUnique ==
    ASSUME NEW m \in Nat \ {0}, NEW a \in Int, NEW q \in Int, NEW r \in 0 .. m - 1,
           a = m * q + r
    PROVE  a % m = r
  OBVIOUS

\* A remainder may be taken before an addition ...
LEMMA ModShift ==
    ASSUME NEW m \in Nat \ {0}, NEW a \in Int, NEW b \in Int
    PROVE  ((a % m) + b) % m = (a + b) % m
<1> DEFINE c == (a % m) + b
<1>1. a = m * (a \div m) + (a % m) /\ a % m \in 0 .. m - 1 /\ a \div m \in Int
  OBVIOUS
<1>2. c = m * (c \div m) + (c % m) /\ c % m \in 0 .. m - 1 /\ c \div m \in Int
  BY <1>1
<1>3. a + b = m * ((a \div m) + (c \div m)) + (c % m)
  BY <1>1, <1>2
<1>4. (a + b) % m = c % m
  <2> HIDE DEF c
  <2>1. (a \div m) + (c \div m) \in Int /\ a + b \in Int
    BY <1>1, <1>2
  <2> QED
    BY <1>2, <1>3, <2>1, ModUnique
<1> QED
  BY <1>4

\* ... and before a subtraction, as (a + m - b) % m does it in C.
LEMMA ModDiff ==
    ASSUME NEW m \in Nat \ {0}, NEW a \in Int, NEW b \in Int
    PROVE  /\ (a - (b % m)) % m = (a - b) % m
           /\ (a + m - (b % m)) % m = (a - b) % m
<1> DEFINE c == a - b
<1>1. b = m * (b \div m) + (b % m) /\ b % m \in 0 .. m - 1 /\ b \div m \in Int
  OBVIOUS
<1>2. c = m * (c \div m) + (c % m) /\ c % m \in 0 .. m - 1 /\ c \div m \in Int
  OBVIOUS
<1>3. /\ a - (b % m) = m * ((c \div m) + (b \div m)) + (c % m)
      /\ a + m - (b % m) = m * ((c \div m) + (b \div m) + 1) + (c % m)
  BY <1>1, <1>2
<1>4. (a - (b % m)) % m = c % m /\ (a + m - (b % m)) % m = c % m
  <2>1. /\ (c \div m) + (b \div m) \in Int /\ (c \div m) + (b \div m) + 1 \in Int
        /\ a - (b % m) \in Int /\ a + m - (b % m) \in Int
    BY <1>1, <1>2
  <2> HIDE DEF c
  <2> QED
    BY <1>2, <1>3, <2>1, ModUnique
<1> QED
  BY <1>4

\* Numbers less than m apart have different remainders.
LEMMA ModInjective ==
    ASSUME NEW m \in Nat \ {0}, NEW a \in Int, NEW b \in Int,
           a % m = b % m, a - b \in -m + 1 .. m - 1
    PROVE  a = b
<1>1. a = m * (a \div m) + (a % m) /\ b = m * (b \div m) + (a % m)
  OBVIOUS
<1>2. a - b = m * ((a \div m) - (b \div m))
  BY <1>1
<1> DEFINE d == (a \div m) - (b \div m)
<1>3. d \in Int
  OBVIOUS
<1>4. CASE d >= 1
  <2>1. m * d >= m
     BY <1>3, <1>4
  <2> QED BY <2>1, <1>2
<1>5. CASE d <= -1
  <2>1. m * d <= -m
     BY <1>3, <1>5
  <2> QED BY <2>1, <1>2
<1>6. CASE d = 0
   BY <1>2, <1>6
<1> QED BY <1>3, <1>4, <1>5, <1>6

\* Once round changes nothing.
LEMMA ModRound ==
    ASSUME NEW m \in Nat \ {0}, NEW x \in Int
    PROVE  (x + m) % m = x % m
<1> DEFINE y == x + m
           k == (x \div m) + 1
           r == x % m
<1>1. y \in Int /\ k \in Int /\ r \in 0 .. m - 1 /\ y = m * k + r
  OBVIOUS
<1> HIDE DEF y, k, r
<1>2. y % m = r
  BY <1>1, ModUnique
<1> QED
  BY <1>2 DEF y, r

\* The remainder of what is less than once round.
LEMMA ModSmall ==
    ASSUME NEW m \in Nat \ {0}, NEW a \in -m .. m - 1
    PROVE  a % m = IF a < 0 THEN a + m ELSE a
  OBVIOUS

-----------------------------------------------------------------------------
\* One copy of each element of S is put in a bag.
LEMMA BagAdd ==
    ASSUME NEW B, IsABag(B), NEW S
    PROVE  /\ IsABag(B (+) SetToBag(S))
           /\ BagToSet(B (+) SetToBag(S)) = BagToSet(B) \cup S
           /\ \A e \in BagToSet(B) \cup S :
                 (B (+) SetToBag(S))[e] = (IF e \in BagToSet(B) THEN B[e] ELSE 0)
                                          + (IF e \in S THEN 1 ELSE 0)
  BY DEF IsABag, BagToSet, SetToBag, (+)

\* One copy of x is taken out of a bag.
LEMMA BagRemove ==
    ASSUME NEW B, IsABag(B), NEW x \in BagToSet(B)
    PROVE  /\ IsABag(B (-) SetToBag({x}))
           /\ BagToSet(B (-) SetToBag({x})) \subseteq BagToSet(B)
           /\ x \in BagToSet(B (-) SetToBag({x})) => B[x] > 1
           /\ \A e \in BagToSet(B (-) SetToBag({x})) :
                 (B (-) SetToBag({x}))[e] <= B[e]
  BY DEF IsABag, BagToSet, SetToBag, (-)
=============================================================================
