---------------------------- MODULE ProofBasics ----------------------------
(***************************************************************************)
(* Facts about numbers that the proofs of several components rest on.      *)
(***************************************************************************)
EXTENDS Integers, TLAPS, WellFoundedInduction

(* A set of natural numbers that is not empty has a least element.  Loops  *)
(* that look for the first slot, descriptor or event that fits are CHOOSE  *)
(* expressions in the models, and this is why they have a value.           *)
LEMMA LeastNat ==
    ASSUME NEW T, T \subseteq Nat, T # {}
    PROVE  \E x \in T : \A y \in T : x <= y
<1>1. IsWellFoundedOn(OpToRel(<, Nat), Nat)
  BY NatLessThanWellFounded
<1>2. PICK x \in T : \A y \in T : ~(<<y, x>> \in OpToRel(<, Nat))
  BY <1>1, WFMin
<1>3. \A y \in T : ~(y < x)
  BY <1>2, Zenon DEF OpToRel
<1> QED
  BY <1>3

(* Multiplication is monotonic.                                            *)
LEMMA MulMono ==
    ASSUME NEW n \in Nat, NEW a \in Nat, NEW b \in Nat, a <= b
    PROVE  n * a \in Nat /\ n * b \in Nat /\ n * a <= n * b
<1>1. PICK c \in Nat : b = a + c
  <2>1. b - a \in Nat /\ b = a + (b - a)
    OBVIOUS
  <2> QED
    BY <2>1
<1>2. n * b = n * a + n * c /\ n * c \in Nat /\ n * a \in Nat
  BY <1>1
<1> QED
  BY <1>2

(* The laws of multiplication that linear arithmetic does not know.        *)
LEMMA MulSucc ==
    ASSUME NEW n \in Nat, NEW a \in Int
    PROVE  /\ n * (a + 1) = n * a + n /\ n * a \in Int
           /\ n * 0 = 0 /\ n * 1 = n /\ a * n = n * a
OBVIOUS

(* The remainder is in its range, also of a negative number.               *)
LEMMA ModRange ==
    ASSUME NEW a \in Int, NEW n \in Nat \ {0}
    PROVE  a % n \in 0 .. n - 1
OBVIOUS

(* Small numbers are their own remainder.                                  *)
LEMMA ModSmall ==
    ASSUME NEW n \in Nat \ {0}, NEW a \in 0 .. n - 1
    PROVE  a % n = a
OBVIOUS

(* Quotient and remainder are determined by their defining equation.       *)
LEMMA DivModUnique ==
    ASSUME NEW n \in Nat \ {0}, NEW q \in Nat, NEW r \in 0 .. n - 1,
           NEW p \in Nat, NEW s \in 0 .. n - 1, n * q + r = n * p + s
    PROVE  q = p /\ r = s
<1>1. n * q \in Nat /\ n * p \in Nat
  BY MulMono
<1>2. ASSUME q < p PROVE FALSE
  <2>1. n * (q + 1) <= n * p /\ n * (q + 1) = n * q + n
    BY <1>2, MulMono, MulSucc
  <2> QED
    BY <1>1, <2>1
<1>3. ASSUME p < q PROVE FALSE
  <2>1. n * (p + 1) <= n * q /\ n * (p + 1) = n * p + n
    BY <1>3, MulMono, MulSucc
  <2> QED
    BY <1>1, <2>1
<1>4. q = p
  BY <1>2, <1>3
<1> QED
  BY <1>1, <1>4

LEMMA DivModDef ==
    ASSUME NEW n \in Nat \ {0}, NEW t \in Nat
    PROVE  /\ t \div n \in Nat /\ t % n \in 0 .. n - 1
           /\ n * (t \div n) + (t % n) = t
OBVIOUS

(* Counting up by one either moves the remainder or carries.               *)
LEMMA DivModStep ==
    ASSUME NEW n \in Nat \ {0}, NEW t \in Nat
    PROVE  \/ /\ (t + 1) \div n = t \div n /\ (t + 1) % n = (t % n) + 1
           \/ /\ (t + 1) \div n = (t \div n) + 1 /\ (t + 1) % n = 0 /\ t % n = n - 1
<1> DEFINE q == t \div n
           r == t % n
           p == (t + 1) \div n
           s == (t + 1) % n
<1>1. q \in Nat /\ r \in 0 .. n - 1 /\ n * q + r = t
  BY DivModDef
<1>2. p \in Nat /\ s \in 0 .. n - 1 /\ n * p + s = t + 1
  <2>1. t + 1 \in Nat
    OBVIOUS
  <2> QED
    BY <2>1, DivModDef
<1> HIDE DEF q, r, p, s
<1>a. n * q \in Nat /\ n * p \in Nat
  BY <1>1, <1>2, MulMono
<1>3. CASE r + 1 < n
  <2>1. r + 1 \in 0 .. n - 1 /\ n * q + (r + 1) = n * p + s
    BY <1>1, <1>2, <1>3, <1>a
  <2>2. q = p /\ r + 1 = s
    BY <1>1, <1>2, <2>1, DivModUnique
  <2> QED
    BY <2>2 DEF q, r, p, s
<1>4. CASE r + 1 >= n
  <2>1. r = n - 1 /\ n * (q + 1) = n * q + n /\ q + 1 \in Nat /\ 0 \in 0 .. n - 1
    BY <1>1, <1>4, MulSucc
  <2>2. n * (q + 1) + 0 = n * p + s
    BY <1>1, <1>2, <1>a, <2>1
  <2>3. q + 1 = p /\ 0 = s
    BY <1>1, <1>2, <2>1, <2>2, DivModUnique
  <2> QED
    BY <2>1, <2>3 DEF q, r, p, s
<1> QED
  BY <1>1, <1>3, <1>4

(* Dividing by two or more makes a positive number smaller.                *)
LEMMA DivSmaller ==
    ASSUME NEW n \in Nat, n >= 2, NEW t \in Nat
    PROVE  t \div n <= t /\ (t > 0 => t \div n < t)
<1> DEFINE q == t \div n
<1>1. q \in Nat /\ n * q <= t
  BY DivModDef
<1> HIDE DEF q
<1>2. 2 * q <= n * q
  <2>1. q * 2 <= q * n
    BY <1>1, MulMono
  <2> QED BY <1>1, <2>1
<1> QED
  BY <1>1, <1>2 DEF q

(* The remainder of a number given as a multiple and a rest.               *)
LEMMA RemainderIs ==
    ASSUME NEW n \in Nat \ {0}, NEW q \in Nat, NEW s \in 0 .. n - 1, NEW t, t = n * q + s
    PROVE  t % n = s
<1> DEFINE p == t \div n
           r == t % n
<1>1. t \in Nat
  BY MulMono
<1>2. p \in Nat /\ r \in 0 .. n - 1 /\ n * p + r = t
  BY <1>1, DivModDef
<1> HIDE DEF p, r
<1>3. n * q + s = n * p + r
  BY <1>2
<1>4. s = r
  BY <1>2, <1>3, DivModUnique
<1> QED
  BY <1>4 DEF r
=============================================================================
