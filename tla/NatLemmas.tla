----------------------------- MODULE NatLemmas -----------------------------
(***************************************************************************)
(* Facts about natural numbers that the proofs about data need: division   *)
(* with remainder, multiples, and least elements.  A statement about all   *)
(* the values of a recursive function is proved with the latter: a         *)
(* smallest argument at which it fails cannot exist.                       *)
(***************************************************************************)
EXTENDS Integers, WellFoundedInduction, TLAPS

(* A non-empty set of natural numbers has a least element.                 *)
LEMMA LeastNat ==
  ASSUME NEW T \in SUBSET Nat, T # {}
  PROVE  \E m \in T : \A n \in T : m <= n
<1> DEFINE R == {ss \in Nat \X Nat : ss[1] < ss[2]}
<1>1. IsWellFoundedOn(R, Nat)
  BY NatLessThanWellFounded, Zenon DEF OpToRel
<1>2. \E m \in T : \A n \in T : ~(<<n, m>> \in R)
  BY <1>1, WFMin
<1>3. \A m, n \in T : ~(<<n, m>> \in R) => m <= n
  OBVIOUS
<1> QED
  BY <1>2, <1>3

(* Quotient and remainder.                                                 *)
LEMMA DivMod ==
  ASSUME NEW h \in Nat, NEW c \in Nat \ {0}
  PROVE  /\ h \div c \in Int
         /\ h % c \in 0 .. c - 1
         /\ h = (h \div c) * c + (h % c)
  OBVIOUS

(* The remainder is the one that the division leaves.                      *)
LEMMA ModUnique ==
  ASSUME NEW c \in Nat \ {0}, NEW q \in Int, NEW r \in 0 .. c - 1
  PROVE  (q * c + r) % c = r
  OBVIOUS

(* c consecutive numbers have different remainders,                        *)
LEMMA ModInjective ==
  ASSUME NEW h \in Nat, NEW c \in Nat \ {0}, NEW d \in 0 .. c - 1, NEW e \in 0 .. c - 1,
         (h + d) % c = (h + e) % c
  PROVE  d = e
<1> DEFINE r == (h + d) % c
           p == (h + d) \div c
           q == (h + e) \div c
<1>1. h + d \in Nat /\ h + e \in Nat
  OBVIOUS
<1>2. r \in 0 .. c - 1 /\ p \in Int /\ q \in Int /\ h + d = p * c + r /\ h + e = q * c + r
  BY <1>1, DivMod
<1> HIDE DEF r, p, q
<1>3. d - e = (p - q) * c
  BY <1>2
<1>4. p - q \in Int /\ d - e < c /\ e - d < c
  BY <1>2
<1> QED
  BY <1>3, <1>4

(* and every remainder is among theirs.                                    *)
LEMMA ModSurjective ==
  ASSUME NEW h \in Nat, NEW c \in Nat \ {0}, NEW s \in 0 .. c - 1
  PROVE  \E d \in 0 .. c - 1 : (h + d) % c = s
<1> DEFINE r == h % c
           q == h \div c
<1>1. r \in 0 .. c - 1 /\ q \in Int /\ h = q * c + r
  BY DivMod
<1> HIDE DEF r, q
<1>2. CASE r <= s
  <2>1. s - r \in 0 .. c - 1 /\ h + (s - r) = q * c + s
    BY <1>1, <1>2
  <2> QED
    BY <1>1, <2>1, ModUnique
<1>3. CASE s < r
  <2>1. s - r + c \in 0 .. c - 1 /\ h + (s - r + c) = (q + 1) * c + s /\ q + 1 \in Int
    BY <1>1, <1>3
  <2>2. (h + (s - r + c)) % c = s
    BY <2>1, ModUnique
  <2> QED
    BY <2>1, <2>2
<1> QED
  BY <1>1, <1>2, <1>3

(* Induction up to a bound.                                                *)
LEMMA UpTo ==
  ASSUME NEW n \in Nat, NEW T, 0 \in T, \A k \in 1 .. n : k - 1 \in T => k \in T
  PROVE  0 .. n \subseteq T
<1> SUFFICES ASSUME (0 .. n) \ T # {} PROVE FALSE
  OBVIOUS
<1>1. (0 .. n) \ T \in SUBSET Nat
  OBVIOUS
<1>2. PICK m \in (0 .. n) \ T : \A k \in (0 .. n) \ T : m <= k
  BY <1>1, LeastNat
<1>3. m \in 1 .. n /\ m - 1 \in 0 .. n /\ m - 1 < m
  BY <1>2
<1> QED
  BY <1>2, <1>3

(* f starts at z and goes on by g.                                         *)
Steps(f, n, z, g) == f[0] = z /\ \A k \in 1 .. n : f[k] = g[<<k, f[k - 1]>>]

(* A function that a recursion defines step by step exists.                *)
LEMMA RecursionExists ==
  ASSUME NEW n \in Nat, NEW S, NEW z \in S, NEW g \in [(1 .. n) \X S -> S]
  PROVE  \E f \in [0 .. n -> S] : Steps(f, n, z, g)
<1> DEFINE Goes(f, m) == f[0] = z /\ \A k \in 1 .. m : f[k] = g[<<k, f[k - 1]>>]
           T == {m \in 0 .. n : \E f \in [0 .. m -> S] : Goes(f, m)}
<1>1. 0 \in T
  <2> DEFINE f == [k \in 0 .. 0 |-> z]
  <2>1. f \in [0 .. 0 -> S] /\ f[0] = z /\ 1 .. 0 = {} /\ 0 \in 0 .. n
    OBVIOUS
  <2> QED
    BY <2>1
<1>2. ASSUME NEW m \in 1 .. n, m - 1 \in T PROVE m \in T
  <2>1. PICK f \in [0 .. m - 1 -> S] : Goes(f, m - 1)
    BY <1>2
  <2> DEFINE h == [k \in 0 .. m |-> IF k = m THEN g[<<m, f[m - 1]>>] ELSE f[k]]
  <2>2. m - 1 \in 0 .. m - 1 /\ f[m - 1] \in S /\ g[<<m, f[m - 1]>>] \in S
    OBVIOUS
  <2>3. h \in [0 .. m -> S]
    BY <2>2
  <2>4. h[m] = g[<<m, f[m - 1]>>] /\ \A k \in 0 .. m - 1 : h[k] = f[k]
    OBVIOUS
  <2> HIDE DEF h
  <2>5. h[0] = z
    BY <2>1, <2>4
  <2>6. ASSUME NEW k \in 1 .. m PROVE h[k] = g[<<k, h[k - 1]>>]
    <3>1. k - 1 \in 0 .. m - 1 /\ h[k - 1] = f[k - 1]
      BY <2>4
    <3>2. CASE k = m
      BY <2>4, <3>1, <3>2
    <3>3. CASE k # m
      <4>1. k \in 1 .. m - 1 /\ k \in 0 .. m - 1
        BY <3>3
      <4> QED
        BY <2>1, <2>4, <3>1, <4>1
    <3> QED
      BY <3>2, <3>3
  <2>7. Goes(h, m)
    BY <2>5, <2>6
  <2> HIDE DEF Goes
  <2> QED
    BY <2>3, <2>7
<1> HIDE DEF T
<1>3. n \in T
  BY <1>1, <1>2, UpTo
<1> QED
  BY <1>3 DEF T, Steps

(* No remainder: a multiple.                                               *)
LEMMA MultipleIff ==
  ASSUME NEW x \in Nat, NEW a \in Nat \ {0}
  PROVE  x % a = 0 <=> \E q \in Nat : x = q * a
<1>1. ASSUME x % a = 0 PROVE \E q \in Nat : x = q * a
  <2>1. x \div a \in Int /\ x = (x \div a) * a
    BY <1>1, DivMod
  <2>2. x \div a \in Nat
    OBVIOUS
  <2> QED
    BY <2>1, <2>2
<1>2. ASSUME NEW q \in Nat, x = q * a PROVE x % a = 0
  <2>1. (q * a + 0) % a = 0
    BY ModUnique
  <2>2. q * a + 0 = x
    BY <1>2
  <2> QED
    BY <2>1, <2>2
<1> QED
  BY <1>1, <1>2

(* Sums of multiples are multiples,                                        *)
LEMMA SumOfMultiples ==
  ASSUME NEW a \in Nat \ {0}, NEW x \in Nat, NEW y \in Nat, x % a = 0, y % a = 0
  PROVE  (x + y) % a = 0
<1>1. PICK p \in Nat : x = p * a
  BY MultipleIff
<1>2. PICK q \in Nat : y = q * a
  BY MultipleIff
<1>3. x + y = (p + q) * a /\ p + q \in Nat /\ x + y \in Nat
  BY <1>1, <1>2
<1> QED
  BY <1>3, MultipleIff

(* and so are multiples of multiples.                                      *)
LEMMA MultipleOfMultiple ==
  ASSUME NEW a \in Nat \ {0}, NEW b \in Nat \ {0}, NEW x \in Nat, x % a = 0, a % b = 0
  PROVE  x % b = 0
<1>1. PICK p \in Nat : x = p * a
  BY MultipleIff
<1>2. PICK q \in Nat : a = q * b
  BY MultipleIff
<1>3. x = (p * q) * b /\ p * q \in Nat
  BY <1>1, <1>2
<1> QED
  BY <1>3, MultipleIff

(* What util.h's ALIGN computes for an alignment a: the next multiple.     *)
NextMultiple(x, a) == ((x + a - 1) \div a) * a

(* It is a multiple, not below x and less than a above it;                 *)
LEMMA NextMultipleIs ==
  ASSUME NEW x \in Nat, NEW a \in Nat \ {0}
  PROVE  /\ NextMultiple(x, a) \in Nat
         /\ x <= NextMultiple(x, a) /\ NextMultiple(x, a) < x + a
         /\ NextMultiple(x, a) % a = 0
<1> DEFINE q == (x + a - 1) \div a
           r == (x + a - 1) % a
<1>1. x + a - 1 \in Nat
  OBVIOUS
<1>2. q \in Int /\ r \in 0 .. a - 1 /\ x + a - 1 = q * a + r
  BY <1>1, DivMod
<1>3. q \in Nat
  BY <1>1
<1>4. NextMultiple(x, a) = q * a
  BY DEF NextMultiple
<1> HIDE DEF q, r
<1>5. q * a \in Nat
  BY <1>3
<1>6. x <= q * a /\ q * a < x + a
  BY <1>2, <1>5
<1> QED
  BY <1>3, <1>4, <1>5, <1>6, MultipleIff

(* there is only one there;                                                *)
LEMMA NearMultiples ==
  ASSUME NEW a \in Nat \ {0}, NEW y \in Nat, NEW z \in Nat, y % a = 0, z % a = 0,
         y < z + a, z < y + a
  PROVE  y = z
<1>1. PICK p \in Nat : y = p * a
  BY MultipleIff
<1>2. PICK q \in Nat : z = q * a
  BY MultipleIff
<1>3. (p - q) * a = y - z /\ p - q \in Int
  BY <1>1, <1>2
<1>4. (p - q) * a < a /\ (q - p) * a < a
  BY <1>1, <1>2, <1>3
<1>5. p = q
  BY <1>4
<1> QED
  BY <1>1, <1>2, <1>5

(* it can be counted from any multiple,                                    *)
LEMMA NextMultipleFrom ==
  ASSUME NEW a \in Nat \ {0}, NEW x \in Nat, NEW y \in Nat, x % a = 0
  PROVE  NextMultiple(x + y, a) = x + NextMultiple(y, a)
<1>1. /\ NextMultiple(y, a) \in Nat /\ y <= NextMultiple(y, a)
      /\ NextMultiple(y, a) < y + a /\ NextMultiple(y, a) % a = 0
  BY NextMultipleIs
<1>2. /\ x + y \in Nat /\ NextMultiple(x + y, a) \in Nat /\ x + y <= NextMultiple(x + y, a)
      /\ NextMultiple(x + y, a) < x + y + a /\ NextMultiple(x + y, a) % a = 0
  BY NextMultipleIs
<1>3. (x + NextMultiple(y, a)) % a = 0
  BY <1>1, SumOfMultiples
<1> QED
  BY <1>1, <1>2, <1>3, NearMultiples

(* and a multiple is its own.                                              *)
LEMMA NextOfMultiple ==
  ASSUME NEW a \in Nat \ {0}, NEW x \in Nat, x % a = 0
  PROVE  NextMultiple(x, a) = x
<1>1. /\ NextMultiple(x, a) \in Nat /\ x <= NextMultiple(x, a)
      /\ NextMultiple(x, a) < x + a /\ NextMultiple(x, a) % a = 0
  BY NextMultipleIs
<1>2. x < NextMultiple(x, a) + a
  BY <1>1
<1> QED
  BY <1>1, <1>2, NearMultiples
=============================================================================
