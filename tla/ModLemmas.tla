----------------------------- MODULE ModLemmas -----------------------------
(***************************************************************************)
(* Facts about i % n for every n, used for indices that run around a ring  *)
(* or a table, and the least and greatest elements of sets of numbers.     *)
(***************************************************************************)
EXTENDS Integers, TLAPS, WellFoundedInduction

\* A remainder is an index of the ring.
LEMMA ModInRange ==
  ASSUME NEW n \in Nat, n > 0, NEW i \in Int
  PROVE  i % n \in 0 .. n - 1
  OBVIOUS

\* Division with remainder.
LEMMA DivMod ==
  ASSUME NEW n \in Nat, n > 0, NEW a \in Int
  PROVE  \E q \in Int : a = n * q + (a % n)
<1>1. a \div n \in Int /\ a = n * (a \div n) + (a % n)
  OBVIOUS
<1>2. QED
  BY <1>1

\* Zero is the only multiple of n between -n and n.
LEMMA SmallMultiple ==
  ASSUME NEW n \in Nat, n > 0, NEW q \in Int, NEW r \in Int,
         n * q = r, r < n, r > -n
  PROVE  r = 0
<1>1. CASE q <= -1
  <2>1. n * q <= -n
    BY <1>1
  <2>2. QED
    BY <2>1
<1>2. CASE q >= 1
  <2>1. n * q >= n
    BY <1>2
  <2>2. QED
    BY <2>1
<1>3. QED
  BY <1>1, <1>2

\* The remainder is unique.
LEMMA ModUnique ==
  ASSUME NEW n \in Nat, n > 0, NEW q \in Int, NEW r \in 0 .. n - 1
  PROVE  (n * q + r) % n = r
<1> DEFINE a == n * q + r
           m == a % n
<1>1. a \in Int
  OBVIOUS
<1>2. PICK p \in Int : a = n * p + m
  <2> HIDE DEF a
  <2>1. QED
    BY <1>1, DivMod
<1>3. m \in 0 .. n - 1
  BY ModInRange
<1>4. n * (p - q) = r - m
  <2>1. n * (p - q) = n * p - n * q
    OBVIOUS
  <2>2. n * p + m = n * q + r
    BY <1>2
  <2>3. n * p \in Int /\ n * q \in Int
    OBVIOUS
  <2> HIDE DEF m
  <2>4. QED
    BY <1>3, <2>1, <2>2, <2>3
<1> HIDE DEF m, a
<1>5. r - m = 0
  BY <1>3, <1>4, SmallMultiple
<1>6. r = m
  BY <1>3, <1>5
<1>7. QED
  BY <1>6 DEF m, a

\* Numbers less than n apart have different remainders.
LEMMA ModDistinct ==
  ASSUME NEW n \in Nat, n > 0, NEW a \in Int, NEW b \in Int, a < b, b < a + n
  PROVE  a % n # b % n
<1> DEFINE m == a % n
<1> SUFFICES ASSUME m = b % n PROVE FALSE
  OBVIOUS
<1>1. PICK p \in Int : a = n * p + m
  BY DivMod
<1>2. PICK q \in Int : b = n * q + m
  BY DivMod
<1>3. m \in Int
  BY ModInRange
<1> HIDE DEF m
<1>4. n * (q - p) = b - a
  <2>1. n * (q - p) = n * q - n * p
    OBVIOUS
  <2>2. n * p \in Int /\ n * q \in Int
    OBVIOUS
  <2>3. QED
    BY <1>1, <1>2, <1>3, <2>1, <2>2
<1>5. b - a = 0
  BY <1>4, SmallMultiple
<1>6. QED
  BY <1>5

\* The remainder of the successor.
LEMMA ModSucc ==
  ASSUME NEW n \in Nat, n > 1, NEW a \in Nat
  PROVE  /\ a % n = n - 1 => (a + 1) % n = 0
         /\ a % n # n - 1 => (a + 1) % n = (a % n) + 1
<1> DEFINE m == a % n
<1>1. n > 0 /\ a \in Int
  OBVIOUS
<1>2. PICK q \in Int : a = n * q + m
  BY <1>1, DivMod
<1>3. m \in 0 .. n - 1
  BY ModInRange
<1>4. \A r \in 0 .. n - 1, p \in Int : (n * p + r) % n = r
  BY <1>1, ModUnique
<1>5. n * q \in Int /\ n * (q + 1) = n * q + n
  OBVIOUS
<1> HIDE DEF m
<1>6. CASE m = n - 1
  <2>1. a + 1 = n * (q + 1) + 0
    BY <1>2, <1>5, <1>6
  <2>2. (n * (q + 1) + 0) % n = 0
    BY <1>1, ModUnique
  <2>3. QED
    BY <1>6, <2>1, <2>2 DEF m
<1>7. CASE m # n - 1
  <2>1. a + 1 = n * q + (m + 1)
    BY <1>2, <1>3, <1>5
  <2>2. m + 1 \in 0 .. n - 1
    BY <1>3, <1>7
  <2>3. (n * q + (m + 1)) % n = m + 1
    BY <1>4, <2>2
  <2>4. QED
    BY <1>7, <2>1, <2>3 DEF m
<1>8. QED
  BY <1>6, <1>7

\* An index that is advanced around the ring counts modulo its size.
LEMMA ModStep ==
  ASSUME NEW n \in Nat, n > 1, NEW a \in Nat
  PROVE  ((a % n) + 1) % n = (a + 1) % n
<1>1. a % n \in 0 .. n - 1
  BY ModInRange
<1>2. (a % n) \in Nat /\ (a % n) % n = a % n
  <2>1. (n * 0 + (a % n)) % n = a % n
    BY <1>1, ModUnique
  <2>2. QED
    BY <1>1, <2>1
<1>3. QED
  BY <1>2, ModSucc, ZenonT(60)

\* n consecutive numbers have every remainder.
LEMMA ModWindow ==
  ASSUME NEW n \in Nat, n > 0, NEW lo \in Nat, NEW s \in 0 .. n - 1
  PROVE  \E j \in lo .. lo + n - 1 : j % n = s
<1> DEFINE m == lo % n
<1>1. PICK q \in Int : lo = n * q + m
  BY DivMod
<1>2. m \in 0 .. n - 1
  BY ModInRange
<1>3. n * q \in Int /\ n * (q + 1) = n * q + n
  OBVIOUS
<1> HIDE DEF m
<1>4. CASE s >= m
  <2>1. n * q + s \in lo .. lo + n - 1
    BY <1>1, <1>2, <1>3, <1>4
  <2>2. (n * q + s) % n = s
    BY ModUnique
  <2>3. QED
    BY <2>1, <2>2
<1>5. CASE s < m
  <2>1. n * (q + 1) + s \in lo .. lo + n - 1
    BY <1>1, <1>2, <1>3, <1>5
  <2>2. q + 1 \in Int
    OBVIOUS
  <2>3. (n * (q + 1) + s) % n = s
    BY <2>2, ModUnique
  <2>4. QED
    BY <2>1, <2>3
<1>6. QED
  BY <1>2, <1>4, <1>5

\* Once around the ring is no move.
LEMMA ModPeriod ==
  ASSUME NEW n \in Nat, n > 0, NEW a \in Int, NEW b \in Int, b = a + n
  PROVE  b % n = a % n
<1> DEFINE m == a % n
<1>1. PICK q \in Int : a = n * q + m
  BY DivMod
<1>2. m \in 0 .. n - 1
  BY ModInRange
<1> HIDE DEF m
<1>3. b = n * (q + 1) + m /\ q + 1 \in Int
  BY <1>1, <1>2
<1>4. PICK p \in Int : p = q + 1
  BY <1>3
<1>5. (n * p + m) % n = m
  BY <1>2, ModUnique
<1>6. QED
  BY <1>3, <1>4, <1>5 DEF m

\* A number below n is its own remainder.
LEMMA ModSmall ==
  ASSUME NEW n \in Nat, n > 0, NEW r \in 0 .. n - 1
  PROVE  r % n = r
<1>1. (n * 0 + r) % n = r
  BY ModUnique
<1>2. QED
  BY <1>1

\* Two numbers with one remainder, the second one larger, are n apart.
LEMMA ModApart ==
  ASSUME NEW n \in Nat, n > 0, NEW a \in Int, NEW b \in Int, a < b, a % n = b % n
  PROVE  a + n <= b
  BY ModDistinct

(* A set of naturals has a least element: the provers' form of induction. *)
LEMMA LeastElement ==
  ASSUME NEW T, T \subseteq Nat, T # {}
  PROVE  \E x \in T : \A y \in T : x <= y
<1> DEFINE R == OpToRel(<, Nat)
<1>1. IsWellFoundedOn(R, Nat)
  BY NatLessThanWellFounded
<1>2. \A x, y \in Nat : y < x => <<y, x>> \in R
  BY DEF OpToRel
<1> HIDE DEF R
<1>3. PICK x \in T : \A y \in T : ~ (<<y, x>> \in R)
  BY <1>1, WFMin
<1>4. ASSUME NEW y \in T, y < x PROVE FALSE
  <2>1. x \in Nat /\ y \in Nat
    OBVIOUS
  <2>2. <<y, x>> \in R
    BY <1>2, <1>4, <2>1
  <2>3. QED
    BY <1>3, <2>2
<1>5. \A y \in T : x \in Nat /\ y \in Nat
  OBVIOUS
<1>6. QED
  BY <1>4, <1>5

(* A bounded set of naturals has a greatest element. *)
LEMMA GreatestElement ==
  ASSUME NEW T, NEW m \in Nat, T \subseteq 0..m, T # {}
  PROVE  \E x \in T : \A y \in T : y <= x
<1> DEFINE U == {n \in 0..m : m - n \in T}
<1>1. PICK t \in T : TRUE
  OBVIOUS
<1>2. U \subseteq Nat /\ m - t \in U
  BY <1>1
<1> HIDE DEF U
<1>3. PICK u \in U : \A v \in U : u <= v
  BY <1>2, LeastElement
<1>4. \A y \in T : m - y \in U
  BY DEF U
<1>5. u \in 0..m /\ m - u \in T
  BY <1>3 DEF U
<1>6. \A y \in T : y <= m - u
  BY <1>3, <1>4, <1>5
<1>7. QED
  BY <1>5, <1>6

=============================================================================
