------------------------------- MODULE Modulo -------------------------------
(***************************************************************************)
(* Facts about remainders, for the counters of the ring buffers of pipe.c  *)
(* and console.c: unsigned integers that wrap at a multiple of the size of *)
(* the ring.                                                               *)
(***************************************************************************)
EXTENDS Integers, TLAPS

(* A remainder is determined by the division.                              *)
LEMMA ModIs ==
  ASSUME NEW n \in Nat \ {0}, NEW k \in Int, NEW r \in 0 .. n - 1,
         NEW x \in Int, x = n * k + r
  PROVE  x % n = r
OBVIOUS

(* An integer in terms of its quotient and remainder.                      *)
LEMMA ModParts ==
  ASSUME NEW n \in Nat \ {0}, NEW x \in Int
  PROVE  /\ x % n \in 0 .. n - 1
         /\ x \div n \in Int
         /\ x = n * (x \div n) + (x % n)
<1>1. x % n \in 0 .. n - 1
  OBVIOUS
<1>2. x \div n \in Int
  OBVIOUS
<1>3. x = n * (x \div n) + (x % n)
  OBVIOUS
<1> QED
  BY <1>1, <1>2, <1>3, Zenon

(* The remainder of a number within one modulus of the range.              *)
LEMMA ModOnce ==
  ASSUME NEW n \in Nat \ {0}, NEW x \in 0 .. n - 1
  PROVE  x % n = x /\ (x + n) % n = x /\ (x - n) % n = x
OBVIOUS

(* Adding a multiple of the modulus keeps the remainder.                   *)
LEMMA ModTimes ==
  ASSUME NEW n \in Nat \ {0}, NEW x \in Int, NEW k \in Int
  PROVE  (x + n * k) % n = x % n
<1>1. PICK a \in Int : x = n * a + (x % n)
  BY ModParts, Zenon
<1>2. x % n \in 0 .. n - 1
  BY ModParts, Zenon
<1>3. n * (a + k) = n * a + n * k
  OBVIOUS
<1>4. n * k \in Int /\ n * a \in Int /\ a + k \in Int
  OBVIOUS
<1>5. x + n * k = n * (a + k) + (x % n)
  BY <1>1, <1>2, <1>3, <1>4
<1>6. PICK y \in Int : y = x + n * k
  BY <1>4
<1>7. PICK c \in Int : c = a + k
  BY <1>4
<1>8. PICK r \in 0 .. n - 1 : r = x % n
  BY <1>2
<1>9. y = n * c + r
  BY <1>5, <1>6, <1>7, <1>8, Zenon
<1>10. y % n = r
  BY <1>9, ModIs
<1> QED
  BY <1>6, <1>8, <1>10, Zenon

(* Two numbers less than a modulus apart have different remainders.        *)
LEMMA ModApart ==
  ASSUME NEW n \in Nat \ {0}, NEW x \in Int, NEW d \in 1 .. n - 1
  PROVE  (x + d) % n # x % n
<1> SUFFICES ASSUME (x + d) % n = x % n PROVE FALSE
  OBVIOUS
<1>1. PICK a \in Int : x = n * a + (x % n)
  BY ModParts, Zenon
<1>2. PICK b \in Int : x + d = n * b + ((x + d) % n)
  BY ModParts, x + d \in Int, Zenon
<1>3. x % n \in Int /\ n * a \in Int /\ n * b \in Int
  BY ModParts
<1>4. d = n * b - n * a
  BY <1>1, <1>2, <1>3
<1>5. d = n * (b - a)
  BY <1>4
<1>6. b - a >= 1 => n * (b - a) >= n
  OBVIOUS
<1>7. b - a <= 0 => n * (b - a) <= 0
  OBVIOUS
<1> QED
  BY <1>5, <1>6, <1>7

(* The sum of two counters wraps at most once.                             *)
LEMMA ModSum ==
  ASSUME NEW n \in Nat \ {0}, NEW a \in 0 .. n - 1, NEW b \in 0 .. n - 1
  PROVE  /\ (a + b) % n = (IF a + b < n THEN a + b ELSE a + b - n)
         /\ (a + b) % n \in 0 .. n - 1
<1>1. CASE a + b < n
  <2>1. a + b \in 0 .. n - 1
    BY <1>1
  <2>2. (a + b) % n = a + b
    BY <2>1, ModOnce, Zenon
  <2> QED
    BY <1>1, <2>1, <2>2, Zenon
<1>2. CASE ~(a + b < n)
  <2>1. a + b - n \in 0 .. n - 1 /\ (a + b - n) + n = a + b
    BY <1>2
  <2>2. ((a + b - n) + n) % n = a + b - n
    BY <2>1, ModOnce, Zenon
  <2> QED
    BY <1>2, <2>1, <2>2, Zenon
<1> QED
  BY <1>1, <1>2, Zenon

(* How far a counter is ahead of another one.                              *)
LEMMA ModDistance ==
  ASSUME NEW n \in Nat \ {0}, NEW a \in 0 .. n - 1, NEW b \in 0 .. n - 1
  PROVE  /\ (b - a) % n = (IF a <= b THEN b - a ELSE b - a + n)
         /\ (b - a) % n \in 0 .. n - 1
<1>1. CASE a <= b
  <2>1. b - a \in 0 .. n - 1
    BY <1>1
  <2>2. (b - a) % n = b - a
    BY <2>1, ModOnce, Zenon
  <2> QED
    BY <1>1, <2>1, <2>2, Zenon
<1>2. CASE ~(a <= b)
  <2>1. b - a + n \in 0 .. n - 1 /\ (b - a + n) - n = b - a
    BY <1>2
  <2>2. ((b - a + n) - n) % n = b - a + n
    BY <2>1, ModOnce, Zenon
  <2> QED
    BY <1>2, <2>1, <2>2, Zenon
<1> QED
  BY <1>1, <1>2, Zenon

(* A counter that wraps at a multiple m of n keeps its place in a ring of  *)
(* n cells.                                                                *)
LEMMA ModPlace ==
  ASSUME NEW n \in Nat \ {0}, NEW m \in Nat \ {0}, m % n = 0, NEW x \in Int
  PROVE  (x % m) % n = x % n
<1>1. PICK q \in Int : m = n * q
  <2>1. m \in Int
    OBVIOUS
  <2>2. PICK q \in Int : m = n * q + (m % n)
    BY <2>1, ModParts, Zenon
  <2> QED
    BY <2>2
<1>2. PICK k \in Int : x = m * k + (x % m)
  BY ModParts, Zenon
<1>3. PICK y \in Int : y = x % m
  BY ModParts
<1>4. PICK c \in Int : c = q * k
  OBVIOUS
<1>5. m * k = n * c
  <2>1. (n * q) * k = n * (q * k)
    OBVIOUS
  <2> QED
    BY <1>1, <1>4, <2>1, Zenon
<1>6. x = y + n * c
  <2>1. n * c \in Int
    OBVIOUS
  <2>2. x = n * c + y
    BY <1>2, <1>3, <1>5, Zenon
  <2> QED
    BY <2>1, <2>2
<1>7. (y + n * c) % n = y % n
  BY ModTimes, Zenon
<1> QED
  BY <1>3, <1>6, <1>7, Zenon
=============================================================================
