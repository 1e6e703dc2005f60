----------------------------- MODULE ModLemmas -----------------------------
(***************************************************************************)
(* Arithmetic modulo a variable: what the rings of the kernel need to know *)
(* about counters that wrap around and index an array.                     *)
(*                                                                         *)
(* Rem and Mul keep % and * out of the provers' sight: with a variable     *)
(* modulus both are nonlinear, and a step that does not need to see inside *)
(* them is easy only as long as it cannot.                                 *)
(***************************************************************************)
EXTENDS Integers, TLAPS

Rem(x, K) == x % K
Mul(x, y) == x * y
-----------------------------------------------------------------------------
\* A number below the modulus is its own remainder.
LEMMA RemSmall ==
  \A M \in Nat \ {0} : \A x \in 0 .. M - 1 : x % M = x
  OBVIOUS

\* A counter that has passed the modulus once starts again.
LEMMA RemOver ==
  \A M \in Nat \ {0} : \A x \in M .. 2 * M - 1 : x % M = x - M
  OBVIOUS

\* The difference of two counters, the first of which has wrapped around.
LEMMA RemNeg ==
  \A M \in Nat \ {0} : \A x \in -M .. -1 : x % M = x + M
  OBVIOUS

\* Products, as far as they are needed.
LEMMA MulType == \A x, y \in Int : Mul(x, y) \in Int
  BY DEF Mul

LEMMA MulAdd == \A x, y, z \in Int : Mul(x, y + z) = Mul(x, y) + Mul(x, z)
  BY DEF Mul

LEMMA MulOne == \A x \in Int : Mul(x, 1) = x
  BY DEF Mul

\* A remainder is determined by any decomposition ...
LEMMA RemUniqueRaw ==
  ASSUME NEW K \in Nat \ {0}, NEW q \in Int, NEW r \in 0 .. K - 1
  PROVE  (K * q + r) % K = r
  OBVIOUS

LEMMA RemUnique ==
  ASSUME NEW K \in Nat \ {0}, NEW x \in Int, NEW q \in Int,
         NEW r \in 0 .. K - 1, x = Mul(K, q) + r
  PROVE  Rem(x, K) = r
  BY RemUniqueRaw DEF Mul, Rem

\* ... and there is one.
LEMMA DivMod ==
  ASSUME NEW K \in Nat \ {0}, NEW x \in Nat,
         NEW d \in Int, d = x \div K, NEW m \in Int, m = x % K
  PROVE  x = K * d + m /\ m \in 0 .. K - 1
  OBVIOUS

LEMMA RemExists ==
  ASSUME NEW K \in Nat \ {0}, NEW x \in Nat
  PROVE  \E q \in Int, r \in 0 .. K - 1 : x = Mul(K, q) + r /\ Rem(x, K) = r
<1>1. x \div K \in Int
  OBVIOUS
<1>2. x % K \in Int
  OBVIOUS
<1>3. PICK d \in Int, m \in Int : d = x \div K /\ m = x % K
  BY <1>1, <1>2
<1>4. x = K * d + m /\ m \in 0 .. K - 1
  BY <1>3, DivMod
<1>5. x = Mul(K, d) + m
  BY <1>4 DEF Mul
<1>6. Rem(x, K) = m
  BY <1>3 DEF Rem
<1> QED
  BY <1>4, <1>5, <1>6

\* Adding a multiple of K does not change the remainder.
LEMMA RemPeriod ==
  ASSUME NEW K \in Nat \ {0}, NEW M \in Nat, Rem(M, K) = 0, NEW x \in Nat
  PROVE  Rem(x + M, K) = Rem(x, K)
<1>1. PICK q \in Int, m \in 0 .. K - 1 : x = Mul(K, q) + m /\ Rem(x, K) = m
  BY RemExists
<1>2. PICK r \in Int : M = Mul(K, r)
  BY RemExists, MulType
<1>3. Mul(K, q) \in Int
  BY MulType
<1>4. Mul(K, r) \in Int
  BY MulType
<1>5. Mul(K, q + r) = Mul(K, q) + Mul(K, r)
  BY MulAdd
<1>6. x + M = Mul(K, q + r) + m
  BY <1>1, <1>2, <1>3, <1>4, <1>5
<1>7. Rem(x + M, K) = m
  BY <1>6, RemUnique
<1> QED
  BY <1>1, <1>7

\* Fewer than K successive numbers have different remainders.
LEMMA RemDistinct ==
  ASSUME NEW K \in Nat \ {0}, NEW x \in Nat, NEW j \in 1 .. K - 1
  PROVE  Rem(x + j, K) # Rem(x, K)
<1>1. PICK q \in Int, m \in 0 .. K - 1 : x = Mul(K, q) + m /\ Rem(x, K) = m
  BY RemExists
<1>2. Mul(K, q) \in Int
  BY MulType
<1>3. CASE m + j < K
  <2>1. x + j = Mul(K, q) + (m + j)
    BY <1>1, <1>2
  <2>2. Rem(x + j, K) = m + j
    BY <2>1, <1>3, RemUnique
  <2> QED
    BY <2>2, <1>1
<1>4. CASE m + j >= K
  <2>1. Mul(K, q + 1) = Mul(K, q) + K
    BY MulAdd, MulOne
  <2>2. x + j = Mul(K, q + 1) + (m + j - K)
    BY <1>1, <1>2, <2>1
  <2>3. Rem(x + j, K) = m + j - K
    BY <2>2, <1>4, RemUnique
  <2> QED
    BY <2>3, <1>1
<1> QED
  BY <1>3, <1>4
=============================================================================
