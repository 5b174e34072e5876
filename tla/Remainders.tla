------------------------------ MODULE Remainders ------------------------------
(***************************************************************************)
(* Remainders of the counters and clocks that wrap, for the proofs about   *)
(* the log ring and the indicators.                                        *)
(***************************************************************************)
EXTENDS Integers, TLAPS

LEMMA Divided ==
  ASSUME NEW n \in Nat \ {0}, NEW a \in Int
  PROVE  \E d \in Int, m \in 0..(n - 1) : m = a % n /\ a = n * d + m
<1>1. PICK d \in Int : d = a \div n
  OBVIOUS
<1>2. PICK m \in 0..(n - 1) : m = a % n
  OBVIOUS
<1>3. a = n * d + m
  <2>1. a - m = n * d
    BY <1>1, <1>2
  <2>2. n * d \in Int
    OBVIOUS
  <2> QED
    BY <2>1, <2>2
<1> QED
  BY <1>2, <1>3

\* A product that is less than its positive factor, either way, is zero.
LEMMA SmallMultiple ==
  ASSUME NEW n \in Nat \ {0}, NEW x \in Int, -n < n * x, n * x < n
  PROVE  x = 0
<1>1. CASE x >= 1
  <2>1. n * x >= n
    BY <1>1
  <2> QED
    BY <2>1
<1>2. CASE x <= -1
  <2>1. n * x <= -n
    BY <1>2
  <2> QED
    BY <2>1
<1> QED
  BY <1>1, <1>2

LEMMA RemainderUnique ==
  ASSUME NEW n \in Nat \ {0}, NEW q \in Int, NEW r \in 0..(n - 1)
  PROVE  (n * q + r) % n = r
<1> DEFINE a == n * q + r
<1>1. n * q \in Int /\ a \in Int
  OBVIOUS
<1>2. PICK d \in Int, m \in 0..(n - 1) : m = a % n /\ a = n * d + m
  BY <1>1, Divided
<1>3. n * (q - d) = m - r
  <2>1. n * (q - d) = n * q - n * d
    BY <1>2
  <2>2. n * q + r = n * d + m
    BY <1>2
  <2>3. n * q \in Int /\ n * d \in Int
    BY <1>2
  <2> QED
    BY <1>2, <2>1, <2>2, <2>3
<1>4. -n < n * (q - d) /\ n * (q - d) < n
  BY <1>2, <1>3
<1>5. q - d = 0
  BY <1>2, <1>4, SmallMultiple
<1>6. m = r
  BY <1>2, <1>3, <1>5
<1> QED
  BY <1>2, <1>6

LEMMA RemainderOfMore ==
  ASSUME NEW n \in Nat \ {0}, NEW a \in Int, NEW k \in Int
  PROVE  (a + n * k) % n = a % n
<1>1. PICK d \in Int, m \in 0..(n - 1) : m = a % n /\ a = n * d + m
  BY Divided
<1>2. a + n * k = n * (d + k) + m
  BY <1>1
<1>3. (n * (d + k) + m) % n = m
  BY <1>1, RemainderUnique
<1> QED
  BY <1>1, <1>2, <1>3

\* Two numbers less than n apart have the same remainder only if they are the same.
LEMMA RemaindersDiffer ==
  ASSUME NEW n \in Nat \ {0}, NEW a \in Int, NEW b \in Int, a < b, b - a < n
  PROVE  a % n # b % n
<1> SUFFICES ASSUME a % n = b % n PROVE FALSE
  OBVIOUS
<1>a. PICK c \in Int, m \in 0..(n - 1) : m = a % n /\ a = n * c + m
  BY Divided
<1>b. PICK d \in Int, l \in 0..(n - 1) : l = b % n /\ b = n * d + l
  BY Divided
<1>1. m = l
  BY <1>a, <1>b
<1>2. n * (d - c) = b - a
  <2>1. n * (d - c) = n * d - n * c /\ n * d \in Int /\ n * c \in Int
    OBVIOUS
  <2> QED
    BY <1>a, <1>b, <1>1, <2>1
<1>3. d - c = 0
  <2>1. -n < n * (d - c) /\ n * (d - c) < n
    BY <1>2
  <2>2. d - c \in Int
    OBVIOUS
  <2> QED
    BY <2>1, <2>2, SmallMultiple
<1>4. n * (d - c) = 0
  BY <1>3
<1> QED
  BY <1>2, <1>4

===============================================================================
