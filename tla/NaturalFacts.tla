---------------------------- MODULE NaturalFacts ----------------------------
(***************************************************************************)
(* Facts about natural numbers that the proofs of several modules use: the *)
(* well-ordering of the naturals and induction, both stated for sets, and  *)
(* the remainder one lap either side of its modulus.                       *)
(***************************************************************************)
EXTENDS Integers, TLAPS

LOCAL INSTANCE WellFoundedInduction

\* A nonempty set of naturals has a least element.
LEMMA LeastNat ==
    ASSUME NEW T \in SUBSET Nat, T # {}
    PROVE  \E x \in T : \A y \in T : x <= y
<1>1. \E x \in T : \A y \in T : ~ (<<y, x>> \in OpToRel(<, Nat))
  BY NatLessThanWellFounded, WFMin, Zenon
<1>2. PICK x \in T : \A y \in T : ~ (<<y, x>> \in OpToRel(<, Nat))
  BY <1>1
<1>3. \A y \in T : <<y, x>> \in OpToRel(<, Nat) <=> y < x
  BY SMT DEF OpToRel
<1>4. \A y \in T : ~ (y < x)
  BY <1>2, <1>3, Zenon
<1>5. \A y \in T : x <= y
  BY <1>4, SMT
<1> QED BY <1>5

\* Induction, for membership in a set.
LEMMA SetInduction ==
    ASSUME NEW T, 0 \in T, \A n \in Nat : n \in T => n + 1 \in T
    PROVE  Nat \subseteq T
<1> SUFFICES ASSUME Nat \ T # {} PROVE FALSE
  OBVIOUS
<1>1. PICK m \in Nat \ T : \A y \in Nat \ T : m <= y
  BY LeastNat, Zenon
<1>2. m # 0
  OBVIOUS
<1>3. m - 1 \in Nat /\ m - 1 \in T
  BY <1>1, <1>2
<1> QED BY <1>3

\* The remainder of a number within one lap, and within the next.
LEMMA ModSmall ==
    ASSUME NEW n \in Nat \ {0}, NEW a \in 0 .. n - 1
    PROVE  a % n = a
OBVIOUS

LEMMA ModWrap ==
    ASSUME NEW n \in Nat \ {0}, NEW a \in n .. 2 * n - 1
    PROVE  a % n = a - n
OBVIOUS

\* Quotient and remainder.
LEMMA DivFacts ==
    ASSUME NEW a \in Int, NEW n \in Nat \ {0}
    PROVE  /\ a \div n \in Int /\ a % n \in 0 .. n - 1 /\ a = n * (a \div n) + (a % n)
OBVIOUS

\* Multiplying by a positive number.
LEMMA MulMono ==
    ASSUME NEW n \in Nat \ {0}, NEW u \in Int, u > 0
    PROVE  n * u >= n
OBVIOUS

\* A number has one remainder.
LEMMA QuotientUnique ==
    ASSUME NEW n \in Nat \ {0}, NEW u \in Int, NEW v \in Int,
           NEW r \in 0 .. n - 1, NEW s \in 0 .. n - 1,
           n * u + r = n * v + s
    PROVE  r = s
<1>1. n * (u - v) = s - r /\ n * (v - u) = r - s
  OBVIOUS
<1>2. CASE u > v
  <2>1. n * (u - v) >= n
    BY <1>2, MulMono
  <2> QED BY <1>1, <2>1
<1>3. CASE v > u
  <2>1. n * (v - u) >= n
    BY <1>3, MulMono
  <2> QED BY <1>1, <2>1
<1>4. CASE u = v
  BY <1>4, <1>1
<1> QED BY <1>2, <1>3, <1>4

\* Whole laps do not change the remainder.
LEMMA ModShift ==
    ASSUME NEW a \in Int, NEW n \in Nat \ {0}, NEW t \in Int
    PROVE  (a + n * t) % n = a % n
<1>1. a \div n \in Int /\ a % n \in 0 .. n - 1 /\ a = n * (a \div n) + (a % n)
  BY DivFacts
<1>2. a + n * t \in Int
  OBVIOUS
<1>3. /\ (a + n * t) \div n \in Int /\ (a + n * t) % n \in 0 .. n - 1
      /\ a + n * t = n * ((a + n * t) \div n) + ((a + n * t) % n)
  BY <1>2, DivFacts
<1>4. n * ((a \div n) + t) + (a % n) = n * ((a + n * t) \div n) + ((a + n * t) % n)
  BY <1>1, <1>3
<1>5. (a \div n) + t \in Int
  BY <1>1
<1> QED BY <1>1, <1>3, <1>4, <1>5, QuotientUnique, Zenon
=============================================================================
