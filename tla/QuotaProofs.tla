----------------------------- MODULE QuotaProofs -----------------------------
(***************************************************************************)
(* Proofs about Quota for doubles of any width and amounts of any size:    *)
(* what rounding keeps and how far it misses, that no share of at most all *)
(* exceeds the maximum or is more than a byte from what was asked for, and *)
(* when a printed value is read back as the same text.                     *)
(***************************************************************************)
EXTENDS Quota, WellFoundedInduction, TLAPS

-----------------------------------------------------------------------------
(* Arithmetic.                                                             *)

\* The greatest of some naturals up to n: the one with the least distance from n.
LEMMA GreatestIs ==
  ASSUME NEW n \in Nat, NEW T \in SUBSET (0 .. n), T # {}
  PROVE  Max(T) \in T /\ \A j \in T : Max(T) >= j
<1> DEFINE D == {n - i : i \in T}
<1>1. D \in SUBSET Nat /\ D # {}
  <2>1. ASSUME NEW i \in T PROVE n - i \in Nat
    BY <2>1
  <2> QED
    BY <2>1
<1>2. PICK d \in D : \A e \in D : ~(<<e, d>> \in OpToRel(<, Nat))
  BY <1>1, NatLessThanWellFounded, WFMin
<1>3. PICK i \in T : d = n - i
  OBVIOUS
<1>4. ASSUME NEW j \in T PROVE i >= j
  <2>1. n - j \in D
    OBVIOUS
  <2>2. ~(<<n - j, d>> \in OpToRel(<, Nat)) /\ <<n - j, d>> \in Nat \X Nat
    BY <1>1, <1>2, <2>1
  <2>3. ~(n - j < d)
    BY <2>2 DEF OpToRel
  <2> QED
    BY <1>3, <2>3
<1> QED
  BY <1>4 DEF Max

\* Multiplication keeps the order, and takes no factor away.
LEMMA TimesMonotone ==
  ASSUME NEW a \in Nat, NEW b \in Nat, NEW c \in Nat, a <= b
  PROVE  a * c <= b * c /\ c * a <= c * b
<1>1. PICK e \in Nat : b = a + e
  <2>1. b - a \in Nat /\ b = a + (b - a)
    OBVIOUS
  <2> QED
    BY <2>1
<1>2. e * c \in Nat /\ c * e \in Nat
  OBVIOUS
<1>3. b * c = a * c + e * c /\ c * b = c * a + c * e
  BY <1>1
<1> QED
  BY <1>2, <1>3

LEMMA TimesCancel ==
  ASSUME NEW a \in Nat, NEW b \in Nat, NEW c \in Nat \ {0}, a * c < b * c
  PROVE  a < b
<1> SUFFICES ASSUME b <= a PROVE FALSE
  OBVIOUS
<1>1. b * c <= a * c
  BY TimesMonotone
<1> QED
  BY <1>1

LEMMA TimesCancelAtMost ==
  ASSUME NEW a \in Nat, NEW b \in Nat, NEW c \in Nat \ {0}, a * c <= b * c
  PROVE  a <= b
<1>1. a * c < (b + 1) * c
  <2>1. (b + 1) * c = b * c + c
    OBVIOUS
  <2> QED
    BY <2>1
<1> QED
  BY <1>1, TimesCancel

\* What division leaves.
LEMMA Divided ==
  ASSUME NEW n \in Nat, NEW u \in Nat \ {0}
  PROVE  /\ n \div u \in Nat /\ n % u \in 0 .. u - 1
         /\ n = (n \div u) * u + (n % u)
<1> QED
  OBVIOUS

\* The quotient is the only one that leaves less than the divisor.
LEMMA Quotient ==
  ASSUME NEW u \in Nat \ {0}, NEW k \in Nat, NEW r \in 0 .. u - 1
  PROVE  (k * u + r) \div u = k /\ (k * u + r) % u = r
<1> DEFINE n == k * u + r
           q == n \div u
           s == n % u
<1>1. n \in Nat
  OBVIOUS
<1>2. q \in Nat /\ s \in 0 .. u - 1 /\ n = q * u + s
  BY <1>1, Divided
<1> HIDE DEF q, s
<1>3. ~(q < k)
  <2> SUFFICES ASSUME q + 1 <= k PROVE FALSE
    BY <1>2
  <2>1. (q + 1) * u <= k * u
    BY <1>2, TimesMonotone
  <2>2. (q + 1) * u = q * u + u
    BY <1>2
  <2> QED
    BY <1>2, <2>1, <2>2
<1>4. ~(k < q)
  <2> SUFFICES ASSUME k + 1 <= q PROVE FALSE
    BY <1>2
  <2>1. (k + 1) * u <= q * u
    BY <1>2, TimesMonotone
  <2>2. (k + 1) * u = k * u + u
    OBVIOUS
  <2> QED
    BY <1>2, <2>1, <2>2
<1>5. q = k
  BY <1>2, <1>3, <1>4
<1>6. s = r
  BY <1>2, <1>5
<1> QED
  BY <1>5, <1>6 DEF q, s

\* A multiple leaves nothing, and what leaves nothing is a multiple.
LEMMA Multiples ==
  ASSUME NEW u \in Nat \ {0}, NEW n \in Nat
  PROVE  n % u = 0 <=> \E k \in Nat : n = k * u
<1>1. ASSUME n % u = 0 PROVE \E k \in Nat : n = k * u
  <2>1. n \div u \in Nat /\ n = (n \div u) * u
    BY <1>1, Divided
  <2> QED
    BY <2>1
<1>2. ASSUME NEW k \in Nat, n = k * u PROVE n % u = 0
  <2>1. (k * u + 0) % u = 0
    BY Quotient
  <2>2. k * u + 0 = n
    BY <1>2
  <2> QED
    BY <2>1, <2>2
<1> QED
  BY <1>1, <1>2

-----------------------------------------------------------------------------
(* Rounding.                                                               *)

\* The last bit is one of the weights, has the first one above it unless it is
\* the finest, and is the heaviest of these.
LEMMA LastBitIs ==
  ASSUME NEW n \in Nat, NEW d \in Nat \ {0}
  PROVE  /\ LastBit(n, d) \in Weight
         /\ LastBit(n, d) = 1 \/ LastBit(n, d) * Exactly * d <= n
         /\ \A w \in Weight : w = 1 \/ w * Exactly * d <= n => w <= LastBit(n, d)
<1> DEFINE T == {w \in Weight : w = 1 \/ w * Exactly * d <= n}
<1>1. ASSUME NEW w \in T PROVE w \in 0 .. n + 1
  <2>1. w \in Nat /\ Exactly \in Nat \ {0} /\ Exactly * d \in Nat \ {0}
    BY DoubleAssumption
  <2>2. CASE w = 1
    BY <2>2
  <2>3. CASE w # 1
    <3>1. w * Exactly * d <= n /\ w * Exactly * d = w * (Exactly * d)
      BY <1>1, <2>1, <2>3
    <3>2. w * 1 <= w * (Exactly * d)
      BY <2>1, TimesMonotone
    <3> QED
      BY <2>1, <3>1, <3>2
  <2> QED
    BY <2>2, <2>3
<1>2. T \in SUBSET (0 .. n + 1) /\ 1 \in T /\ n + 1 \in Nat
  <2>1. T \in SUBSET (0 .. n + 1)
    BY <1>1
  <2>2. 1 \in T
    BY DoubleAssumption
  <2> QED
    BY <2>1, <2>2
<1>3. Max(T) \in T /\ \A j \in T : Max(T) >= j
  BY <1>2, GreatestIs
<1>4. LastBit(n, d) = Max(T)
  BY DEF LastBit
<1>5. \A w \in Weight : w \in Nat
  BY DoubleAssumption
<1> QED
  BY <1>3, <1>4, <1>5

\* Rounding takes one of the two multiples of the last bit L next to n / d, q and
\* q + 1 times L: the nearer one, the even one if they are equally far.
IsRounding(n, d, L, q, r, k) ==
  /\ k = q \/ k = q + 1
  /\ L = LastBit(n, d) /\ L \in Weight
  /\ n = q * (L * d) + r /\ r < L * d
  /\ Fl(n, d) = L * k
  /\ k = q + 1 <=> 2 * r > L * d \/ (2 * r = L * d /\ q % 2 = 1)

LEMMA Rounded ==
  ASSUME NEW n \in Nat, NEW d \in Nat \ {0}
  PROVE  \E L \in Nat \ {0}, q \in Nat, r \in Nat, k \in Nat :
           IsRounding(n, d, L, q, r, k)
<1> DEFINE L == LastBit(n, d)
           u == L * d
           q == n \div u
           r == n % u
<1>1. L \in Nat \ {0} /\ L \in Weight
  BY LastBitIs, DoubleAssumption
<1> HIDE DEF L
<1>2. u \in Nat \ {0}
  BY <1>1
<1>3. q \in Nat /\ r \in 0 .. u - 1 /\ n = q * u + r
  BY <1>2, Divided
<1>4. Fl(n, d) = L * IF 2 * r > u \/ (2 * r = u /\ q % 2 = 1) THEN q + 1 ELSE q
  BY DEF Fl, L
<1> HIDE DEF u, q, r
<1>5. PICK k \in Nat : k = IF 2 * r > u \/ (2 * r = u /\ q % 2 = 1) THEN q + 1 ELSE q
  BY <1>3
<1>6. /\ k = q \/ k = q + 1
      /\ k = q + 1 <=> 2 * r > u \/ (2 * r = u /\ q % 2 = 1)
  BY <1>3, <1>5
<1>7. Fl(n, d) = L * k /\ u = L * d
  BY <1>4, <1>5 DEF u
<1>8. n = q * (L * d) + r /\ r < L * d /\ r \in Nat
  BY <1>2, <1>3, <1>7
<1>9. L = LastBit(n, d)
  BY DEF L
<1>10. IsRounding(n, d, L, q, r, k)
  BY <1>1, <1>6, <1>7, <1>8, <1>9 DEF IsRounding
<1> QED
  BY <1>1, <1>3, <1>8, <1>10

LEMMA RoundedType ==
  ASSUME NEW n \in Nat, NEW d \in Nat \ {0}
  PROVE  Fl(n, d) \in Nat
<1>1. PICK L \in Nat \ {0}, q \in Nat, r \in Nat, k \in Nat :
        IsRounding(n, d, L, q, r, k)
  BY Rounded
<1> QED
  BY <1>1 DEF IsRounding

\* n / d is not rounded up beyond a multiple of the last bit.
LEMMA RoundedUp ==
  ASSUME NEW n \in Nat, NEW d \in Nat \ {0}, NEW m \in Nat,
         n <= m * d, m % LastBit(n, d) = 0
  PROVE  Fl(n, d) <= m
<1>0. PICK L \in Nat \ {0}, q \in Nat, r \in Nat, k \in Nat :
        IsRounding(n, d, L, q, r, k)
  BY Rounded
<1>1. /\ k = q \/ k = q + 1
      /\ L = LastBit(n, d)
      /\ n = q * (L * d) + r /\ r < L * d
      /\ Fl(n, d) = L * k
      /\ r = 0 => k = q
  <2>1. ASSUME r = 0 PROVE ~(2 * r > L * d) /\ ~(2 * r = L * d)
    <3>1. L * d > 0
      OBVIOUS
    <3> QED
      BY <2>1, <3>1
  <2> QED
    BY <1>0, <2>1 DEF IsRounding
<1>2. PICK c \in Nat : m = c * L
  BY <1>1, Multiples
<1>3. L * d \in Nat \ {0} /\ m * d = c * (L * d)
  BY <1>2
<1>4. q <= c
  <2> SUFFICES ASSUME c + 1 <= q PROVE FALSE
    OBVIOUS
  <2>1. (c + 1) * (L * d) <= q * (L * d)
    BY <1>3, TimesMonotone
  <2>2. (c + 1) * (L * d) = c * (L * d) + L * d
    BY <1>3
  <2>3. c * (L * d) \in Nat /\ q * (L * d) \in Nat
    BY <1>3
  <2> QED
    BY <1>1, <1>3, <2>1, <2>2, <2>3
<1>5. k <= c
  <2>1. CASE q = c
    <3>1. q * (L * d) + r <= q * (L * d) /\ q * (L * d) \in Nat
      BY <1>1, <1>3, <2>1
    <3>2. r = 0
      BY <3>1
    <3> QED
      BY <1>1, <2>1, <3>2
  <2>2. CASE q # c
    BY <1>1, <1>4, <2>2
  <2> QED
    BY <2>1, <2>2
<1>6. L * k <= L * c
  BY <1>5, TimesMonotone
<1>7. L * c = m
  BY <1>2
<1> QED
  BY <1>1, <1>6, <1>7

\* Nor down below one.
LEMMA RoundedDown ==
  ASSUME NEW n \in Nat, NEW d \in Nat \ {0}, NEW m \in Nat,
         m * d <= n, m % LastBit(n, d) = 0
  PROVE  Fl(n, d) >= m
<1>0. PICK L \in Nat \ {0}, q \in Nat, r \in Nat, k \in Nat :
        IsRounding(n, d, L, q, r, k)
  BY Rounded
<1>1. /\ k = q \/ k = q + 1
      /\ L = LastBit(n, d)
      /\ n = q * (L * d) + r /\ r < L * d
      /\ Fl(n, d) = L * k
  BY <1>0 DEF IsRounding
<1>2. PICK c \in Nat : m = c * L
  BY <1>1, Multiples
<1>3. L * d \in Nat \ {0} /\ m * d = c * (L * d)
  BY <1>2
<1>4. c <= q
  <2> SUFFICES ASSUME q + 1 <= c PROVE FALSE
    OBVIOUS
  <2>1. (q + 1) * (L * d) <= c * (L * d)
    BY <1>3, TimesMonotone
  <2>2. (q + 1) * (L * d) = q * (L * d) + L * d
    BY <1>3
  <2>3. c * (L * d) \in Nat /\ q * (L * d) \in Nat
    BY <1>3
  <2> QED
    BY <1>1, <1>3, <2>1, <2>2, <2>3
<1>5. L * c <= L * k
  <2>1. c <= k
    BY <1>1, <1>4
  <2> QED
    BY <2>1, TimesMonotone
<1>6. L * c = m
  BY <1>2
<1> QED
  BY <1>1, <1>5, <1>6

-----------------------------------------------------------------------------
(* Doubles.                                                                *)

\* A multiple of what its own last bit weighs.
Representable(m) == m % LastBit(m, 1) = 0

\* A weight divides the heavier ones, and what they divide.
LEMMA Divides ==
  ASSUME NEW v \in Weight, NEW w \in Weight, v <= w
  PROVE  /\ \E c \in Nat \ {0} : w = c * v
         /\ \A m \in Nat : m % w = 0 => m % v = 0
<1>1. v \in Nat \ {0} /\ w \in Nat \ {0} /\ w % v = 0
  BY DoubleAssumption
<1>2. PICK c \in Nat : w = c * v
  BY <1>1, Multiples
<1>3. c # 0
  BY <1>1, <1>2
<1>4. ASSUME NEW m \in Nat, m % w = 0 PROVE m % v = 0
  <2>1. PICK b \in Nat : m = b * w
    BY <1>1, <1>4, Multiples
  <2>2. b * c \in Nat /\ m = (b * c) * v
    BY <1>1, <1>2, <2>1
  <2> QED
    BY <1>1, <2>2, Multiples
<1> QED
  BY <1>2, <1>3, <1>4

\* What is rounded is a double: rounding it again changes nothing.
LEMMA RoundedRepresentable ==
  ASSUME NEW n \in Nat, NEW d \in Nat \ {0}
  PROVE  Representable(Fl(n, d))
<1>0. PICK L \in Nat \ {0}, q \in Nat, r \in Nat, k \in Nat :
        IsRounding(n, d, L, q, r, k)
  BY Rounded
<1>1. /\ k = q \/ k = q + 1
      /\ L = LastBit(n, d) /\ L \in Weight
      /\ n = q * (L * d) + r /\ r < L * d
      /\ Fl(n, d) = L * k
  BY <1>0 DEF IsRounding
<1>2. PICK x \in Nat : x = L * k
  OBVIOUS
<1>3. PICK M : M = LastBit(x, 1)
  OBVIOUS
<1>4. M \in Weight /\ M \in Nat \ {0} /\ (M = 1 \/ M * Exactly * 1 <= x)
  BY <1>3, LastBitIs, DoubleAssumption
<1>5. x % L = 0
  BY <1>2, Multiples
<1>6. CASE M <= L
  <2>1. x % M = 0
    BY <1>1, <1>4, <1>5, <1>6, Divides
  <2> QED
    BY <1>1, <1>2, <1>3, <2>1 DEF Representable
<1>7. CASE M > L
  <2>0. L <= M
    BY <1>4, <1>7
  <2>1. PICK c \in Nat \ {0} : M = c * L
    BY <1>1, <1>4, <2>0, Divides
  <2>2. Exactly \in Nat \ {0} /\ M * Exactly <= x
    BY <1>4, <1>7, DoubleAssumption
  \* n / d is less than M can have above it ...
  <2>3. n < M * Exactly * d
    <3>1. \A w \in Weight : w = 1 \/ w * Exactly * d <= n => w <= L
      BY <1>1, LastBitIs
    <3>2. ~(M * Exactly * d <= n)
      BY <1>4, <1>7, <3>1
    <3> QED
      BY <1>4, <2>2, <3>2
  <2>4. q < c * Exactly
    <3>1. L * d \in Nat \ {0} /\ c * Exactly \in Nat /\ q * (L * d) \in Nat
      BY <2>2
    <3>2. M * Exactly * d = (c * Exactly) * (L * d)
      BY <2>1, <2>2
    <3>3. q * (L * d) < (c * Exactly) * (L * d)
      BY <1>1, <2>3, <3>1, <3>2
    <3> QED
      BY <3>1, <3>3, TimesCancel
  \* ... and what it is rounded to is not.
  <2>5. c * Exactly <= k
    <3>1. c * Exactly \in Nat /\ M * Exactly = L * (c * Exactly)
      BY <2>1, <2>2
    <3>2. L * (c * Exactly) <= L * k
      BY <1>2, <2>2, <3>1
    <3>3. (c * Exactly) * L <= k * L
      BY <3>1, <3>2
    <3> QED
      BY <3>1, <3>3, TimesCancelAtMost
  <2>6. k = c * Exactly
    BY <1>1, <2>2, <2>4, <2>5
  <2>7. x = Exactly * M
    BY <1>2, <2>1, <2>2, <2>6
  <2>8. x % M = 0
    BY <1>4, <2>2, <2>7, Multiples
  <2> QED
    BY <1>1, <1>2, <1>3, <2>8 DEF Representable
<1> QED
  BY <1>4, <1>6, <1>7

\* Rounding does not pass a double.
LEMMA NotAbove ==
  ASSUME NEW n \in Nat, NEW d \in Nat \ {0}, NEW m \in Nat, Representable(m),
         n <= m * d
  PROVE  Fl(n, d) <= m
<1>1. PICK L \in Nat \ {0} : L = LastBit(n, d) /\ L \in Weight
  BY LastBitIs, DoubleAssumption
<1>2. PICK M \in Nat \ {0} : M = LastBit(m, 1) /\ M \in Weight
  BY LastBitIs, DoubleAssumption
<1>3. L <= M
  <2>1. L = 1 \/ L * Exactly * d <= n
    BY <1>1, LastBitIs
  <2>2. CASE L = 1
    BY <2>2
  <2>3. CASE L # 1
    <3>1. Exactly \in Nat \ {0} /\ L * Exactly \in Nat
      BY DoubleAssumption
    <3>2. (L * Exactly) * d <= m * d /\ m * d \in Nat /\ (L * Exactly) * d \in Nat
      BY <2>1, <2>3, <3>1
    <3>3. L * Exactly <= m
      BY <3>1, <3>2, TimesCancelAtMost
    <3>4. L * Exactly * 1 <= m
      BY <3>1, <3>3
    <3> QED
      BY <1>1, <1>2, <3>4, LastBitIs
  <2> QED
    BY <2>1, <2>2, <2>3
<1>4. m % L = 0
  BY <1>1, <1>2, <1>3, Divides DEF Representable
<1> QED
  BY <1>1, <1>4, RoundedUp

LEMMA NotBelow ==
  ASSUME NEW n \in Nat, NEW d \in Nat \ {0}, NEW m \in Nat, Representable(m),
         m * d <= n
  PROVE  Fl(n, d) >= m
<1>0. PICK L \in Nat \ {0}, q \in Nat, r \in Nat, k \in Nat :
        IsRounding(n, d, L, q, r, k)
  BY Rounded
<1>1. /\ k = q \/ k = q + 1
      /\ L = LastBit(n, d) /\ L \in Weight
      /\ n = q * (L * d) + r /\ r < L * d
      /\ Fl(n, d) = L * k
  BY <1>0 DEF IsRounding
<1>2. PICK M \in Nat \ {0} : M = LastBit(m, 1) /\ M \in Weight
  BY LastBitIs, DoubleAssumption
<1>3. Exactly \in Nat \ {0} /\ L * Exactly \in Nat
  BY DoubleAssumption
<1>4. CASE L = 1 \/ L * Exactly <= m
  <2>1. L <= M
    <3>1. L = 1 \/ L * Exactly * 1 <= m
      BY <1>3, <1>4
    <3> QED
      BY <1>1, <1>2, <3>1, LastBitIs
  <2>2. m % L = 0
    BY <1>1, <1>2, <2>1, Divides DEF Representable
  <2> QED
    BY <1>1, <2>2, RoundedDown
<1>5. CASE L # 1 /\ m < L * Exactly
  <2>1. L * Exactly * d <= n
    BY <1>1, <1>5, LastBitIs
  <2>2. Exactly <= k
    <3>1. L * d \in Nat \ {0} /\ q * (L * d) \in Nat /\ (q + 1) * (L * d) = q * (L * d) + L * d
      OBVIOUS
    <3>2. L * Exactly * d = Exactly * (L * d)
      BY <1>3
    <3>3. Exactly * (L * d) < (q + 1) * (L * d)
      BY <1>1, <1>3, <2>1, <3>1, <3>2
    <3>4. Exactly < q + 1
      BY <1>3, <3>1, <3>3, TimesCancel
    <3> QED
      BY <1>1, <1>3, <3>4
  <2>3. L * Exactly <= L * k
    BY <1>3, <2>2, TimesMonotone
  <2> QED
    BY <1>1, <1>3, <1>5, <2>3
<1> QED
  BY <1>3, <1>4, <1>5

\* A double is not rounded.
LEMMA Exact ==
  ASSUME NEW m \in Nat, Representable(m)
  PROVE  Fl(m, 1) = m
<1>1. Fl(m, 1) <= m
  BY NotAbove
<1>2. Fl(m, 1) >= m
  BY NotBelow
<1>3. Fl(m, 1) \in Nat
  BY RoundedType
<1> QED
  BY <1>1, <1>2, <1>3

LEMMA Idempotent ==
  ASSUME NEW n \in Nat, NEW d \in Nat \ {0}
  PROVE  Fl(Fl(n, d), 1) = Fl(n, d)
BY RoundedType, RoundedRepresentable, Exact

\* Where a weight comes into use there is a double.
LEMMA FirstBit ==
  ASSUME NEW w \in Weight
  PROVE  w * Exactly \in Nat /\ Representable(w * Exactly)
<1>1. w \in Nat \ {0} /\ Exactly \in Nat \ {0} /\ w * Exactly \in Nat
  BY DoubleAssumption
<1>2. PICK m \in Nat : m = w * Exactly
  BY <1>1
<1>3. PICK M \in Nat \ {0} : M = LastBit(m, 1) /\ M \in Weight
  BY LastBitIs, DoubleAssumption
<1>4. M <= w
  <2>1. CASE M = 1
    BY <1>1, <2>1
  <2>2. CASE M # 1
    <3>1. M * Exactly * 1 <= m
      BY <1>3, <2>2, LastBitIs
    <3>2. M * Exactly <= w * Exactly
      BY <1>1, <1>2, <3>1
    <3> QED
      BY <1>1, <3>2, TimesCancelAtMost
  <2> QED
    BY <2>1, <2>2
<1>5. m % w = 0
  <2>1. m = Exactly * w
    BY <1>1, <1>2
  <2> QED
    BY <1>1, <2>1, Multiples
<1>6. m % M = 0
  BY <1>3, <1>4, <1>5, Divides
<1> QED
  BY <1>1, <1>2, <1>3, <1>6 DEF Representable

\* Rounding keeps the order: either there is a double between the two numbers, or
\* they are rounded to multiples of the same weight.
LEMMA Monotone ==
  ASSUME NEW n \in Nat, NEW m \in Nat, n <= m
  PROVE  Fl(n, 1) <= Fl(m, 1)
<1>0. 1 \in Nat \ {0}
  OBVIOUS
<1>1. PICK L \in Nat \ {0}, q \in Nat, r \in Nat, k \in Nat :
        IsRounding(n, 1, L, q, r, k)
  BY <1>0, Rounded
<1>2. PICK M \in Nat \ {0}, p \in Nat, s \in Nat, l \in Nat :
        IsRounding(m, 1, M, p, s, l)
  BY <1>0, Rounded
<1>3. /\ k = q \/ k = q + 1
      /\ L = LastBit(n, 1) /\ L \in Weight
      /\ n = q * L + r /\ r < L
      /\ Fl(n, 1) = L * k
      /\ k = q + 1 <=> 2 * r > L \/ (2 * r = L /\ q % 2 = 1)
  <2>1. L * 1 = L
    OBVIOUS
  <2> QED
    BY <1>1, <2>1 DEF IsRounding
<1>4. /\ l = p \/ l = p + 1
      /\ M = LastBit(m, 1) /\ M \in Weight
      /\ m = p * M + s /\ s < M
      /\ Fl(m, 1) = M * l
      /\ l = p + 1 <=> 2 * s > M \/ (2 * s = M /\ p % 2 = 1)
  <2>1. M * 1 = M
    OBVIOUS
  <2> QED
    BY <1>2, <2>1 DEF IsRounding
<1>5. Exactly \in Nat \ {0} /\ L * Exactly \in Nat /\ M * Exactly \in Nat
  BY DoubleAssumption
<1>6. L <= M
  <2>1. L = 1 \/ L * Exactly * 1 <= n
    BY <1>3, LastBitIs
  <2>2. L = 1 \/ L * Exactly * 1 <= m
    BY <1>5, <2>1
  <2> QED
    BY <1>3, <1>4, <2>2, LastBitIs
<1>7. CASE L # M
  <2>1. M # 1 /\ M > L
    BY <1>6, <1>7
  <2>2. M * Exactly * 1 <= m /\ ~(M * Exactly * 1 <= n)
    BY <1>3, <1>4, <2>1, LastBitIs
  <2>3. M * Exactly * 1 <= m /\ n <= M * Exactly * 1
    BY <1>5, <2>2
  <2>4. Fl(n, 1) <= M * Exactly
    BY <1>4, <2>3, FirstBit, NotAbove
  <2>5. Fl(m, 1) >= M * Exactly
    BY <1>4, <2>3, FirstBit, NotBelow
  <2>6. Fl(n, 1) \in Nat /\ Fl(m, 1) \in Nat
    BY RoundedType
  <2> QED
    BY <1>5, <2>4, <2>5, <2>6
<1>8. CASE L = M
  <2>1. q <= p
    <3>1. q * L < (p + 1) * L
      <4>1. (p + 1) * L = p * L + L /\ q * L \in Nat /\ p * L \in Nat
        OBVIOUS
      <4> QED
        BY <1>3, <1>4, <1>8, <4>1
    <3> QED
      BY <3>1, TimesCancel
  <2>2. k <= l
    <3>1. CASE q = p
      <4>1. r <= s
        <5>1. q * L \in Nat /\ q * L + r <= q * L + s
          BY <1>3, <1>4, <1>8, <3>1
        <5> QED
          BY <5>1
      <4> QED
        BY <1>3, <1>4, <1>8, <3>1, <4>1
    <3>2. CASE q # p
      BY <1>3, <1>4, <2>1, <3>2
    <3> QED
      BY <3>1, <3>2
  <2>3. L * k <= L * l
    BY <2>2, TimesMonotone
  <2> QED
    BY <1>3, <1>4, <1>8, <2>3
<1> QED
  BY <1>7, <1>8

-----------------------------------------------------------------------------
(* Amounts and fractions.                                                  *)

LEMMA UnitIs == Unit \in Weight /\ Unit \in Nat \ {0}
BY DoubleAssumption

\* Amounts up to twice Exactly are doubles.
LEMMA SmallAmount ==
  ASSUME NEW b \in Nat, b <= 2 * Exactly
  PROVE  Representable(b * Unit)
<1>1. Unit \in Weight /\ Unit \in Nat \ {0} /\ Exactly \in Nat \ {0}
  BY UnitIs, DoubleAssumption
<1>2. PICK m \in Nat : m = b * Unit
  BY <1>1
<1>3. PICK M \in Nat \ {0} : M = LastBit(m, 1) /\ M \in Weight
  BY LastBitIs, DoubleAssumption
<1>4. m % Unit = 0
  BY <1>1, <1>2, Multiples
<1>5. CASE M <= Unit
  <2>1. m % M = 0
    BY <1>1, <1>3, <1>4, <1>5, Divides
  <2> QED
    BY <1>2, <1>3, <2>1 DEF Representable
<1>6. CASE M > Unit
  <2>1. Unit <= M
    BY <1>1, <1>6
  <2>2. PICK c \in Nat \ {0} : M = c * Unit
    BY <1>1, <1>3, <2>1, Divides
  <2>3. c >= 2
    <3>1. c # 1
      BY <1>1, <1>6, <2>2
    <3> QED
      BY <3>1
  <2>4. M * Exactly * 1 <= m
    BY <1>1, <1>3, <1>6, LastBitIs
  <2>5. c * Exactly <= b
    <3>1. M * Exactly * 1 = (c * Exactly) * Unit /\ c * Exactly \in Nat
      BY <1>1, <2>2
    <3> QED
      BY <1>1, <1>2, <2>4, <3>1, TimesCancelAtMost
  <2>6. c * Exactly = 2 * Exactly
    <3>1. 2 * Exactly <= c * Exactly
      BY <1>1, <2>3, TimesMonotone
    <3> QED
      BY <1>1, <2>5, <3>1
  <2>7. b = c * Exactly
    BY <1>1, <2>5, <2>6
  <2>8. m = Exactly * M
    BY <1>1, <1>2, <2>2, <2>7
  <2>9. m % M = 0
    BY <1>1, <2>8, Multiples
  <2> QED
    BY <1>2, <1>3, <2>9 DEF Representable
<1> QED
  BY <1>1, <1>5, <1>6

\* An amount as a double: a number of bytes still, and not none if it was some.
LEMMA DoubleIs ==
  ASSUME NEW n \in Nat
  PROVE  /\ Double(n) \in Nat
         /\ \E k \in Nat : Double(n) = k * Unit /\ Double(n) \div Unit = k
                           /\ (n # 0 => k # 0)
<1>1. Unit \in Weight /\ Unit \in Nat \ {0} /\ n * Unit \in Nat /\ 1 \in Nat \ {0}
  BY UnitIs
<1>2. PICK x \in Nat : x = Double(n)
  BY <1>1, RoundedType DEF Double
<1>3. PICK L \in Nat \ {0}, q \in Nat, r \in Nat, k \in Nat :
        IsRounding(n * Unit, 1, L, q, r, k)
  BY <1>1, Rounded
<1>4. L = LastBit(n * Unit, 1) /\ L \in Weight /\ x = L * k
  BY <1>2, <1>3 DEF IsRounding, Double
<1>5. x % Unit = 0
  <2>1. CASE L <= Unit
    <3>1. (n * Unit) % Unit = 0
      BY <1>1, Multiples
    <3>2. (n * Unit) % L = 0
      BY <1>1, <1>4, <2>1, <3>1, Divides
    <3>3. Representable(n * Unit)
      BY <1>4, <3>2 DEF Representable
    <3>4. x = n * Unit
      BY <1>1, <1>2, <3>3, Exact DEF Double
    <3> QED
      BY <3>1, <3>4
  <2>2. CASE Unit <= L
    <3>1. x = k * L
      BY <1>4
    <3>2. x % L = 0
      BY <3>1, Multiples
    <3> QED
      BY <1>1, <1>4, <2>2, <3>2, Divides
  <2> QED
    BY <1>1, <2>1, <2>2
<1>6. PICK c \in Nat : x = c * Unit
  BY <1>1, <1>5, Multiples
<1>7. x \div Unit = c
  <2>1. (c * Unit + 0) \div Unit = c
    BY <1>1, Quotient
  <2>2. c * Unit + 0 = x
    BY <1>1, <1>6
  <2> QED
    BY <2>1, <2>2
<1>8. n # 0 => c # 0
  <2> SUFFICES ASSUME n # 0 PROVE x >= Unit
    BY <1>1, <1>6
  <2>1. 1 <= 2 * Exactly
    BY DoubleAssumption
  <2>2. Representable(1 * Unit)
    BY <2>1, SmallAmount
  <2>3. 1 * Unit = Unit /\ Unit * 1 = Unit
    BY <1>1
  <2>4. 1 * Unit <= n * Unit
    BY <1>1, TimesMonotone
  <2>5. Unit * 1 <= n * Unit /\ Representable(Unit)
    BY <2>2, <2>3, <2>4
  <2> QED
    BY <1>1, <1>2, <2>5, NotBelow DEF Double
<1> QED
  BY <1>2, <1>6, <1>7, <1>8

\* A quotient is a double, unless it divides by nothing; one of at most all is at
\* most one.
LEMMA DivideIs ==
  ASSUME NEW n \in Nat, NEW d \in Nat
  PROVE  /\ d = 0 => Divide(n, d) = NotFinite
         /\ d # 0 => /\ Divide(n, d) \in Nat
                     /\ Fl(Divide(n, d), 1) = Divide(n, d)
                     /\ n <= d => Divide(n, d) <= Unit
<1>1. CASE d = 0
  BY <1>1 DEF Divide
<1>2. CASE d # 0
  <2>1. PICK D \in Nat : Double(d) = D * Unit /\ Double(d) \div Unit = D /\ D # 0
    BY <1>2, DoubleIs
  <2>2. Double(n) \in Nat /\ D \in Nat \ {0} /\ Divide(n, d) = Fl(Double(n), D)
    BY <1>2, <2>1, DoubleIs DEF Divide
  <2>3. Divide(n, d) \in Nat /\ Fl(Divide(n, d), 1) = Divide(n, d)
    BY <2>2, RoundedType, Idempotent
  <2>4. ASSUME n <= d PROVE Divide(n, d) <= Unit
    <3>1. Unit \in Nat \ {0} /\ n * Unit \in Nat /\ d * Unit \in Nat
      BY UnitIs
    <3>2. n * Unit <= d * Unit
      BY <2>4, <3>1, TimesMonotone
    <3>3. Double(n) <= Double(d)
      BY <3>1, <3>2, Monotone DEF Double
    <3>4. Double(n) <= Unit * D
      BY <2>1, <3>1, <3>3
    <3>5. Representable(Unit)
      <4>1. 1 <= 2 * Exactly
        BY DoubleAssumption
      <4>2. Representable(1 * Unit) /\ 1 * Unit = Unit
        BY <3>1, <4>1, SmallAmount
      <4> QED
        BY <4>2
    <3> QED
      BY <2>2, <3>1, <3>4, <3>5, NotAbove
  <2> QED
    BY <1>2, <2>3, <2>4
<1> QED
  BY <1>1, <1>2

\* A share of at most all of an amount that doubles can tell from its neighbours
\* is at most that amount.
LEMMA TimesIs ==
  ASSUME NEW b \in Nat, NEW f \in Nat
  PROVE  /\ Times(b, f) \in Nat
         /\ b <= 2 * Exactly /\ f <= Unit => Times(b, f) <= b * Unit
<1>1. PICK k \in Nat : Double(b) = k * Unit /\ Double(b) \div Unit = k
  BY DoubleIs
<1>2. k * f \in Nat /\ Times(b, f) = Fl(k * f, 1)
  BY <1>1 DEF Times
<1>3. Times(b, f) \in Nat
  BY <1>2, RoundedType
<1>4. ASSUME b <= 2 * Exactly, f <= Unit PROVE Times(b, f) <= b * Unit
  <2>1. Unit \in Nat \ {0} /\ b * Unit \in Nat
    BY UnitIs
  <2>2. Representable(b * Unit)
    BY <1>4, SmallAmount
  <2>3. k * Unit = b * Unit
    BY <1>1, <2>1, <2>2, Exact DEF Double
  <2>4. k * f <= k * Unit
    BY <1>4, <2>1, TimesMonotone
  <2>5. k * f <= (b * Unit) * 1
    BY <2>1, <2>3, <2>4
  <2> QED
    BY <1>2, <2>1, <2>2, <2>5, NotAbove
<1> QED
  BY <1>3, <1>4

\* However it is rounded, less than a whole amount does not become more.
LEMMA RoundIs ==
  ASSUME NEW x \in Nat, NEW m \in RoundingMethod
  PROVE  /\ Round(x, m) \in Nat
         /\ \A b \in Nat : x <= b * Unit => Round(x, m) <= b
<1>1. Unit \in Nat \ {0} /\ 2 * Unit \in Nat \ {0}
  BY UnitIs
<1>2. ASSUME NEW n \in Nat, NEW u \in Nat \ {0}, NEW b \in Nat, n < (b + 1) * u
      PROVE  n \div u \in Nat /\ n \div u <= b
  <2>1. PICK q \in Nat : q = n \div u /\ q * u <= n
    <3>1. n \div u \in Nat /\ n % u \in 0 .. u - 1 /\ n = (n \div u) * u + (n % u)
      BY Divided
    <3> QED
      BY <3>1
  <2>2. q * u < (b + 1) * u /\ b + 1 \in Nat
    BY <1>2, <2>1
  <2>3. q < b + 1
    BY <2>2, TimesCancel
  <2> QED
    BY <2>1, <2>3
<1>3. CASE m = "NEAREST"
  <2>1. Round(x, m) = (2 * x + Unit) \div (2 * Unit) /\ 2 * x + Unit \in Nat
    BY <1>1, <1>3 DEF Round
  <2>2. ASSUME NEW b \in Nat, x <= b * Unit
        PROVE  2 * x + Unit < (b + 1) * (2 * Unit)
    <3>1. (b + 1) * (2 * Unit) = 2 * (b * Unit) + 2 * Unit /\ b * Unit \in Nat
      BY <1>1
    <3> QED
      BY <1>1, <2>2, <3>1
  <2>3. (2 * x + Unit) \div (2 * Unit) \in Nat
    BY <1>1, <2>1, Divided
  <2> QED
    BY <1>1, <1>2, <2>1, <2>2, <2>3
<1>4. CASE m = "DOWN"
  <2>1. Round(x, m) = x \div Unit
    BY <1>4 DEF Round
  <2>2. ASSUME NEW b \in Nat, x <= b * Unit PROVE x < (b + 1) * Unit
    <3>1. (b + 1) * Unit = b * Unit + Unit /\ b * Unit \in Nat
      BY <1>1
    <3> QED
      BY <1>1, <2>2, <3>1
  <2>3. x \div Unit \in Nat
    BY <1>1, Divided
  <2> QED
    BY <1>1, <1>2, <2>1, <2>2, <2>3
<1>5. CASE m = "UP"
  <2>1. Round(x, m) = (x + Unit - 1) \div Unit /\ x + Unit - 1 \in Nat
    BY <1>1, <1>5 DEF Round
  <2>2. ASSUME NEW b \in Nat, x <= b * Unit PROVE x + Unit - 1 < (b + 1) * Unit
    <3>1. (b + 1) * Unit = b * Unit + Unit /\ b * Unit \in Nat
      BY <1>1
    <3> QED
      BY <1>1, <2>2, <3>1
  <2>3. (x + Unit - 1) \div Unit \in Nat
    BY <1>1, <2>1, Divided
  <2> QED
    BY <1>1, <1>2, <2>1, <2>2, <2>3
<1> QED
  BY <1>3, <1>4, <1>5 DEF RoundingMethod

-----------------------------------------------------------------------------
(* How far a share is from what was asked for.                             *)

\* Rounding misses by half of the last bit at most.
LEMMA RoundedNear ==
  ASSUME NEW n \in Nat, NEW d \in Nat \ {0}
  PROVE  /\ 2 * (Fl(n, d) * d) <= 2 * n + LastBit(n, d) * d
         /\ 2 * n <= 2 * (Fl(n, d) * d) + LastBit(n, d) * d
<1>0. PICK L \in Nat \ {0}, q \in Nat, r \in Nat, k \in Nat :
        IsRounding(n, d, L, q, r, k)
  BY Rounded
<1>1. /\ k = q \/ k = q + 1
      /\ L = LastBit(n, d)
      /\ n = q * (L * d) + r /\ r < L * d
      /\ Fl(n, d) = L * k
      /\ k = q + 1 => 2 * r >= L * d
      /\ k = q => 2 * r <= L * d
  <2>1. L * d \in Nat
    OBVIOUS
  <2> QED
    BY <1>0, <2>1 DEF IsRounding
<1>2. PICK u \in Nat : u = L * d
  OBVIOUS
<1>3. PICK p \in Nat : p = q * u
  BY <1>2
<1>4. (q + 1) * u = p + u
  BY <1>2, <1>3
<1>5. (L * k) * d = k * u
  BY <1>2
<1>6. n = p + r
  BY <1>1, <1>2, <1>3
<1>7. CASE k = q
  BY <1>1, <1>2, <1>3, <1>5, <1>6, <1>7
<1>8. CASE k = q + 1
  BY <1>1, <1>2, <1>4, <1>5, <1>6, <1>8
<1> QED
  BY <1>1, <1>7, <1>8

\* Amounts that are held exactly.
LEMMA HeldIs ==
  ASSUME NEW n \in Nat, Held(n)
  PROVE  Double(n) = n * Unit /\ Double(n) \div Unit = n
<1>1. Unit \in Nat \ {0} /\ n * Unit + 0 = n * Unit
  BY UnitIs
<1>2. (n * Unit + 0) \div Unit = n
  BY <1>1, Quotient
<1> QED
  BY <1>1, <1>2 DEF Held

LEMMA SmallHeld ==
  ASSUME NEW b \in Nat, b <= 2 * Exactly
  PROVE  Held(b)
<1>1. Unit \in Nat \ {0} /\ b * Unit \in Nat /\ Representable(b * Unit)
  BY UnitIs, SmallAmount
<1> QED
  BY <1>1, Exact DEF Held, Double

\* A weight below another is at most half of it.
LEMMA Lighter ==
  ASSUME NEW v \in Weight, NEW w \in Weight, v < w
  PROVE  2 * v <= w
<1>1. v \in Nat \ {0} /\ w \in Nat \ {0}
  BY DoubleAssumption
<1>2. PICK c \in Nat \ {0} : w = c * v
  BY <1>1, Divides
<1>3. c # 1
  BY <1>1, <1>2
<1>4. 2 * v <= c * v
  BY <1>1, <1>3, TimesMonotone
<1> QED
  BY <1>2, <1>4

\* The last bit of a fraction below one weighs at most w, 1 / 2 ^ 53.
HalfWeight(w) ==
  /\ w \in Weight /\ 2 * w \in Weight
  /\ Unit = 2 * w * Exactly

\* The quotient of amounts that are held, n < d, is near n / d.
LEMMA FractionNear ==
  ASSUME NEW w \in Nat \ {0}, HalfWeight(w),
         NEW n \in Nat, NEW d \in Nat \ {0}, n < d, Held(n), Held(d)
  PROVE  \E L \in Nat \ {0} :
           /\ L <= w /\ (2 * w) % L = 0
           /\ L = LastBit(n * Unit, d)
           /\ Divide(n, d) = Fl(n * Unit, d)
           /\ 2 * (Divide(n, d) * d) <= 2 * (n * Unit) + L * d
           /\ 2 * (n * Unit) <= 2 * (Divide(n, d) * d) + L * d
<1>1. Unit \in Nat \ {0} /\ Exactly \in Nat \ {0} /\ n * Unit \in Nat
  BY UnitIs, DoubleAssumption
<1>2. Divide(n, d) = Fl(n * Unit, d)
  BY HeldIs DEF Divide
<1>3. PICK L \in Nat \ {0} : L = LastBit(n * Unit, d) /\ L \in Weight
  BY <1>1, LastBitIs, DoubleAssumption
<1>4. L < 2 * w
  <2>1. L = 1 \/ L * Exactly * d <= n * Unit
    BY <1>1, <1>3, LastBitIs
  <2>2. CASE L = 1
    BY <2>2
  <2>3. CASE L # 1
    <3>1. PICK e \in Nat \ {0} : e = Exactly * d
      BY <1>1
    <3>2. n * Unit < d * Unit
      <4>1. (n + 1) * Unit <= d * Unit
        BY <1>1, TimesMonotone
      <4>2. (n + 1) * Unit = n * Unit + Unit
        BY <1>1
      <4> QED
        BY <1>1, <4>1, <4>2
    <3>3. d * Unit = (2 * w) * e
      BY <1>1, <3>1 DEF HalfWeight
    <3>4. L * Exactly * d = L * e
      BY <1>1, <3>1
    <3>5. L * e < (2 * w) * e
      BY <1>1, <2>1, <2>3, <3>2, <3>3, <3>4
    <3> QED
      BY <3>5, TimesCancel
  <2> QED
    BY <2>1, <2>2, <2>3
<1>5. L <= w
  <2>1. 2 * L <= 2 * w
    BY <1>3, <1>4, Lighter DEF HalfWeight
  <2> QED
    BY <2>1
<1>6. (2 * w) % L = 0
  BY <1>3, <1>4, DoubleAssumption DEF HalfWeight
<1>7. /\ 2 * (Fl(n * Unit, d) * d) <= 2 * (n * Unit) + L * d
      /\ 2 * (n * Unit) <= 2 * (Fl(n * Unit, d) * d) + L * d
  BY <1>1, <1>3, RoundedNear
<1> QED
  BY <1>2, <1>3, <1>5, <1>6, <1>7

\* One is a double, and all of an amount is one of it.
LEMMA WholeIs ==
  ASSUME NEW d \in Nat \ {0}, Held(d)
  PROVE  Divide(d, d) = Unit
<1>1. Unit \in Nat \ {0} /\ d * Unit \in Nat /\ d * Unit = Unit * d /\ 1 <= 2 * Exactly
  BY UnitIs, DoubleAssumption
<1>2. Representable(Unit)
  <2>1. Representable(1 * Unit) /\ 1 * Unit = Unit
    BY <1>1, SmallAmount
  <2> QED
    BY <2>1
<1>3. Divide(d, d) = Fl(d * Unit, d)
  BY HeldIs DEF Divide
<1>4. Fl(d * Unit, d) <= Unit /\ Fl(d * Unit, d) >= Unit
  BY <1>1, <1>2, NotAbove, NotBelow
<1>5. Fl(d * Unit, d) \in Nat
  BY <1>1, RoundedType
<1> QED
  BY <1>1, <1>3, <1>4, <1>5

\* The share of b bytes, as a double, is within one byte of n * b / d.
LEMMA TimesNear ==
  ASSUME NEW n \in Nat, NEW d \in Nat \ {0}, n <= d, Held(n), Held(d),
         NEW b \in Nat, b <= 2 * Exactly, NEW z \in Nat, z = Times(b, Divide(n, d))
  PROVE  /\ z * d <= (n * b) * Unit + Unit * d
         /\ (n * b) * Unit <= z * d + Unit * d
<1>1. Unit \in Nat \ {0} /\ Exactly \in Nat \ {0}
  BY UnitIs, DoubleAssumption
<1>2. PICK w \in Nat \ {0} : HalfWeight(w)
  BY DoubleAssumption DEF HalfWeight
<1>3. PICK f \in Nat : f = Divide(n, d) /\ f <= Unit
  BY DivideIs
<1>4. z = Fl(b * f, 1)
  BY <1>3, SmallHeld, HeldIs DEF Times
<1>5. b * f \in Nat /\ 1 \in Nat \ {0}
  OBVIOUS
\* The quotient is off by w, the product by b times as much at most ...
<1>6. 2 * ((b * f) * d) <= 2 * ((n * b) * Unit) + Unit * d
      /\ 2 * ((n * b) * Unit) <= 2 * ((b * f) * d) + Unit * d
  <2>1. CASE n = d
    <3>1. f = Unit
      BY <1>3, <2>1, WholeIs
    <3>2. (b * f) * d = (n * b) * Unit
      BY <1>1, <2>1, <3>1
    <3>3. Unit * d \in Nat /\ (n * b) * Unit \in Nat
      BY <1>1
    <3> QED
      BY <3>2, <3>3
  <2>2. CASE n < d
    <3>1. PICK L \in Nat \ {0} :
            /\ L <= w
            /\ 2 * (f * d) <= 2 * (n * Unit) + L * d
            /\ 2 * (n * Unit) <= 2 * (f * d) + L * d
      BY <1>2, <1>3, <2>2, FractionNear
    <3>2. PICK x \in Nat : x = f * d
      OBVIOUS
    <3>3. PICK y \in Nat : y = n * Unit
      BY <1>1
    <3>4. PICK l \in Nat : l = L * d
      OBVIOUS
    <3>5. b * l <= Unit * d
      <4>1. L * b <= w * b
        BY <3>1, TimesMonotone
      <4>2. w * b <= w * (2 * Exactly)
        BY <1>1, TimesMonotone
      <4>3. w * (2 * Exactly) = Unit
        BY <1>1, <1>2 DEF HalfWeight
      <4>4. L * b <= Unit
        BY <1>1, <4>1, <4>2, <4>3
      <4>5. (L * b) * d <= Unit * d
        BY <1>1, <4>4, TimesMonotone
      <4>6. (L * b) * d = b * l
        BY <3>4
      <4> QED
        BY <4>5, <4>6
    <3>6. b * (2 * x) <= b * (2 * y + l) /\ b * (2 * y) <= b * (2 * x + l)
      BY <3>1, <3>2, <3>3, <3>4, TimesMonotone
    <3>7. /\ b * (2 * x) = 2 * ((b * f) * d)
          /\ b * (2 * y) = 2 * ((n * b) * Unit)
          /\ b * (2 * x + l) = b * (2 * x) + b * l
          /\ b * (2 * y + l) = b * (2 * y) + b * l
      BY <1>1, <3>2, <3>3
    <3>8. (b * f) * d \in Nat /\ (n * b) * Unit \in Nat /\ b * l \in Nat /\ Unit * d \in Nat
      BY <1>1
    <3> QED
      BY <3>5, <3>6, <3>7, <3>8
  <2> QED
    BY <2>1, <2>2
\* ... and rounding it adds half a byte.
<1>7. 2 * z <= 2 * (b * f) + Unit /\ 2 * (b * f) <= 2 * z + Unit
  <2>1. PICK M \in Nat \ {0} : M = LastBit(b * f, 1) /\ M \in Weight
    BY <1>5, LastBitIs, DoubleAssumption
  <2>2. 2 * (z * 1) <= 2 * (b * f) + M * 1 /\ 2 * (b * f) <= 2 * (z * 1) + M * 1
    BY <1>4, <1>5, <2>1, RoundedNear
  <2>3. CASE M <= Unit
    BY <1>1, <1>5, <2>2, <2>3
  <2>4. CASE M > Unit
    <3>1. 2 * Unit <= M
      BY <1>1, <2>1, <2>4, UnitIs, Lighter
    <3>2. M * Exactly * 1 <= b * f
      BY <1>1, <1>5, <2>1, <2>4, LastBitIs
    <3>3. b * f <= b * Unit /\ b * Unit <= (2 * Exactly) * Unit
      BY <1>1, <1>3, TimesMonotone
    <3>4. (2 * Unit) * Exactly <= M * Exactly
      BY <1>1, <3>1, TimesMonotone
    <3>5. (2 * Unit) * Exactly = (2 * Exactly) * Unit
      BY <1>1
    <3>6. b * f = Exactly * M
      <4>1. M * Exactly * 1 = Exactly * M /\ M * Exactly = Exactly * M /\ Exactly * M \in Nat
            /\ (2 * Exactly) * Unit \in Nat /\ b * Unit \in Nat
        BY <1>1
      <4> QED
        BY <1>5, <3>2, <3>3, <3>4, <3>5, <4>1
    <3>7. Representable(b * f)
      BY <1>1, <1>5, <2>1, <3>6, Multiples DEF Representable
    <3>8. z = b * f
      BY <1>4, <1>5, <3>7, Exact
    <3> QED
      BY <1>1, <1>5, <3>8
  <2> QED
    BY <1>1, <2>1, <2>3, <2>4
<1>8. (2 * z) * d <= (2 * (b * f) + Unit) * d /\ (2 * (b * f)) * d <= (2 * z + Unit) * d
  BY <1>1, <1>5, <1>7, TimesMonotone
<1>9. PICK c \in Nat : c = b * f
  OBVIOUS
<1>10. /\ (2 * z) * d = 2 * (z * d) /\ (2 * c) * d = 2 * (c * d)
       /\ (2 * c + Unit) * d = 2 * (c * d) + Unit * d
       /\ (2 * z + Unit) * d = 2 * (z * d) + Unit * d
  BY <1>1
<1>11. z * d \in Nat /\ c * d \in Nat /\ Unit * d \in Nat /\ (n * b) * Unit \in Nat
  BY <1>1
<1> QED
  BY <1>6, <1>8, <1>9, <1>10, <1>11

\* Two ratios that are at most one apart are so when they are rounded down ...
LEMMA OneMoreDown ==
  ASSUME NEW x \in Nat, NEW p \in Nat \ {0}, NEW y \in Nat, NEW s \in Nat \ {0},
         x * s <= y * p + p * s
  PROVE  x \div p <= y \div s + 1
<1>1. PICK g \in Nat : g = x \div p /\ g * p <= x
  BY Divided
<1>2. PICK k \in Nat : k = y \div s /\ y < (k + 1) * s
  <2>1. y \div s \in Nat /\ y % s \in 0 .. s - 1 /\ y = (y \div s) * s + (y % s)
    BY Divided
  <2>2. PICK k \in Nat : k = y \div s
    BY <2>1
  <2>3. (k + 1) * s = k * s + s /\ k * s \in Nat
    OBVIOUS
  <2> QED
    BY <2>1, <2>2, <2>3
<1>3. PICK u \in Nat \ {0} : u = p * s
  OBVIOUS
<1>4. g * u <= x * s
  <2>1. (g * p) * s <= x * s
    BY <1>1, TimesMonotone
  <2>2. (g * p) * s = g * u
    BY <1>3
  <2> QED
    BY <2>1, <2>2
<1>5. y * p < (k + 1) * u
  <2>1. (y + 1) * p <= ((k + 1) * s) * p
    BY <1>2, TimesMonotone
  <2>2. ((k + 1) * s) * p = (k + 1) * u /\ (y + 1) * p = y * p + p
    BY <1>3
  <2>3. y * p \in Nat /\ (k + 1) * u \in Nat
    OBVIOUS
  <2> QED
    BY <2>1, <2>2, <2>3
<1>6. (k + 2) * u = (k + 1) * u + u
  OBVIOUS
<1>7. g * u \in Nat /\ x * s \in Nat /\ y * p \in Nat /\ (k + 1) * u \in Nat
  OBVIOUS
<1>8. g * u < (k + 2) * u
  BY <1>3, <1>4, <1>5, <1>6, <1>7
<1>9. g < k + 2
  BY <1>8, TimesCancel
<1> QED
  BY <1>1, <1>2, <1>9

\* ... and when they are rounded up.
LEMMA OneMoreUp ==
  ASSUME NEW x \in Nat, NEW p \in Nat \ {0}, NEW y \in Nat, NEW s \in Nat \ {0},
         x * s <= y * p + p * s
  PROVE  (x + p - 1) \div p <= (y + s - 1) \div s + 1
<1>1. PICK g \in Nat : g = (x + p - 1) \div p /\ g * p <= x + p - 1
  <2>1. x + p - 1 \in Nat
    OBVIOUS
  <2> QED
    BY <2>1, Divided
<1>2. PICK k \in Nat : k = (y + s - 1) \div s /\ y <= k * s
  <2>1. y + s - 1 \in Nat
    OBVIOUS
  <2>2. PICK t \in Nat : t = y + s - 1
    BY <2>1
  <2>3. t \div s \in Nat /\ t % s \in 0 .. s - 1 /\ t = (t \div s) * s + (t % s)
    BY Divided
  <2>4. PICK k \in Nat : k = t \div s
    BY <2>3
  <2>5. t <= k * s + (s - 1) /\ k * s \in Nat
    BY <2>3, <2>4
  <2>6. y <= k * s
    BY <2>2, <2>5
  <2> QED
    BY <2>2, <2>4, <2>6
<1>3. PICK u \in Nat \ {0} : u = p * s
  OBVIOUS
<1>4. g * u < x * s + u
  <2>1. (g * p + 1) * s <= (x + p) * s
    BY <1>1, TimesMonotone
  <2>2. (g * p + 1) * s = g * u + s /\ (x + p) * s = x * s + u
    BY <1>3
  <2>3. g * u \in Nat /\ x * s \in Nat
    OBVIOUS
  <2> QED
    BY <2>1, <2>2, <2>3
<1>5. y * p <= k * u
  <2>1. y * p <= (k * s) * p
    BY <1>2, TimesMonotone
  <2>2. (k * s) * p = k * u
    BY <1>3
  <2> QED
    BY <2>1, <2>2
<1>6. (k + 2) * u = k * u + u + u
  OBVIOUS
<1>7. g * u \in Nat /\ x * s \in Nat /\ y * p \in Nat /\ k * u \in Nat
  OBVIOUS
<1>8. g * u < (k + 2) * u
  BY <1>3, <1>4, <1>5, <1>6, <1>7
<1>9. g < k + 2
  BY <1>8, TimesCancel
<1> QED
  BY <1>1, <1>2, <1>9

\* Rounded to whole bytes, what is within one byte of a / d is a byte off at most.
LEMMA RoundNear ==
  ASSUME NEW z \in Nat, NEW a \in Nat, NEW d \in Nat \ {0}, method \in RoundingMethod,
         z * d <= a * Unit + Unit * d, a * Unit <= z * d + Unit * d
  PROVE  Round(z, method) - Wanted(a, d) \in -1 .. 1
<1>1. Unit \in Nat \ {0} /\ 2 * Unit \in Nat \ {0} /\ 2 * d \in Nat \ {0}
      /\ Unit * d = d * Unit /\ 2 * z + Unit \in Nat /\ 2 * a + d \in Nat
  BY UnitIs
<1>2. CASE method = "NEAREST"
  <2>1. /\ (2 * z + Unit) * (2 * d) = 4 * (z * d) + 2 * (Unit * d)
        /\ (2 * a + d) * (2 * Unit) = 4 * (a * Unit) + 2 * (Unit * d)
        /\ (2 * Unit) * (2 * d) = 4 * (Unit * d)
        /\ (2 * d) * (2 * Unit) = 4 * (Unit * d)
        /\ z * d \in Nat /\ a * Unit \in Nat /\ Unit * d \in Nat
    BY <1>1
  <2>2. /\ (2 * z + Unit) * (2 * d) <= (2 * a + d) * (2 * Unit) + (2 * Unit) * (2 * d)
        /\ (2 * a + d) * (2 * Unit) <= (2 * z + Unit) * (2 * d) + (2 * d) * (2 * Unit)
    BY <2>1
  <2>3. /\ (2 * z + Unit) \div (2 * Unit) <= (2 * a + d) \div (2 * d) + 1
        /\ (2 * a + d) \div (2 * d) <= (2 * z + Unit) \div (2 * Unit) + 1
    BY <1>1, <2>2, OneMoreDown
  <2>4. (2 * z + Unit) \div (2 * Unit) \in Nat /\ (2 * a + d) \div (2 * d) \in Nat
    BY <1>1, Divided
  <2>5. /\ Round(z, method) = (2 * z + Unit) \div (2 * Unit)
        /\ Wanted(a, d) = (2 * a + d) \div (2 * d)
    BY <1>2 DEF Round, Wanted
  <2> QED
    BY <2>3, <2>4, <2>5
<1>3. CASE method = "DOWN"
  <2>1. z \div Unit <= a \div d + 1 /\ a \div d <= z \div Unit + 1
    BY <1>1, OneMoreDown
  <2>2. z \div Unit \in Nat /\ a \div d \in Nat
    BY <1>1, Divided
  <2>3. Round(z, method) = z \div Unit /\ Wanted(a, d) = a \div d
    BY <1>3 DEF Round, Wanted
  <2> QED
    BY <2>1, <2>2, <2>3
<1>4. CASE method = "UP"
  <2>1. /\ (z + Unit - 1) \div Unit <= (a + d - 1) \div d + 1
        /\ (a + d - 1) \div d <= (z + Unit - 1) \div Unit + 1
    BY <1>1, OneMoreUp
  <2>2. z + Unit - 1 \in Nat /\ a + d - 1 \in Nat
    BY <1>1
  <2>3. (z + Unit - 1) \div Unit \in Nat /\ (a + d - 1) \div d \in Nat
    BY <1>1, <2>2, Divided
  <2>4. Round(z, method) = (z + Unit - 1) \div Unit /\ Wanted(a, d) = (a + d - 1) \div d
    BY <1>4 DEF Round, Wanted
  <2> QED
    BY <2>1, <2>3, <2>4
<1> QED
  BY <1>2, <1>3, <1>4 DEF RoundingMethod

\* A share of whole bytes, of at most Exactly, is off by less than half a byte.
LEMMA TimesWhole ==
  ASSUME NEW n \in Nat, NEW d \in Nat \ {0}, n <= d, Held(n), Held(d),
         NEW b \in Nat, b <= Exactly, NEW a \in Nat, a * d = n * b,
         NEW z \in Nat, z = Times(b, Divide(n, d))
  PROVE  2 * z < 2 * (a * Unit) + Unit /\ 2 * (a * Unit) < 2 * z + Unit
<1>1. Unit \in Nat \ {0} /\ Exactly \in Nat \ {0} /\ b <= 2 * Exactly
  BY UnitIs, DoubleAssumption
<1>2. PICK w \in Nat \ {0} : HalfWeight(w)
  BY DoubleAssumption DEF HalfWeight
<1>3. PICK f \in Nat : f = Divide(n, d) /\ f <= Unit
  BY DivideIs
<1>4. z = Fl(b * f, 1)
  BY <1>1, <1>3, SmallHeld, HeldIs DEF Times
<1>5. b * f \in Nat /\ 1 \in Nat \ {0} /\ a * Unit \in Nat
  BY <1>1
<1>6. a <= b
  <2>1. n * b <= d * b /\ d * b = b * d
    BY TimesMonotone
  <2>2. a * d <= b * d
    BY <2>1
  <2> QED
    BY <2>2, TimesCancelAtMost
\* If the product is exact, it is rounded to itself.
<1>7. ASSUME b * f = a * Unit PROVE z = a * Unit
  <2>1. a <= 2 * Exactly
    BY <1>1, <1>6
  <2> QED
    BY <1>4, <1>5, <1>7, <2>1, SmallAmount, Exact
<1>8. CASE n = d
  <2>1. a * d = b * d
    BY <1>8
  <2>2. a = b
    BY <1>6, <2>1, TimesCancelAtMost
  <2>3. b * f = a * Unit
    BY <1>3, <1>8, <2>2, WholeIs
  <2> QED
    BY <1>1, <1>5, <1>7, <2>3
<1>9. CASE n < d
  <2>1. PICK L \in Nat \ {0} :
          /\ L <= w /\ (2 * w) % L = 0
          /\ L = LastBit(n * Unit, d)
          /\ Divide(n, d) = Fl(n * Unit, d)
          /\ 2 * (Divide(n, d) * d) <= 2 * (n * Unit) + L * d
          /\ 2 * (n * Unit) <= 2 * (Divide(n, d) * d) + L * d
    BY <1>2, <1>9, FractionNear
  \* At Exactly, the quotient is a multiple of its last bit.
  <2>2. CASE b = Exactly
    <3>1. PICK m \in Nat : m = (2 * w) * a
      OBVIOUS
    <3>2. n * Unit = m * d
      <4>1. n * Unit = (2 * w) * (n * b)
        BY <1>1, <1>2, <2>2 DEF HalfWeight
      <4>2. (2 * w) * (n * b) = (2 * w) * (a * d)
        OBVIOUS
      <4>3. (2 * w) * (a * d) = m * d
        BY <3>1
      <4> QED
        BY <4>1, <4>2, <4>3
    <3>3. m % L = 0
      <4>1. 2 * w \in Nat
        OBVIOUS
      <4>2. PICK c \in Nat : 2 * w = c * L
        BY <2>1, <4>1, Multiples
      <4>3. m = (c * a) * L /\ c * a \in Nat
        BY <3>1, <4>2
      <4> QED
        BY <2>1, <4>3, Multiples
    <3>4. n * Unit \in Nat /\ n * Unit <= m * d /\ m * d <= n * Unit
      BY <1>1, <3>2
    <3>5. Fl(n * Unit, d) <= m /\ Fl(n * Unit, d) >= m
      BY <2>1, <3>3, <3>4, RoundedUp, RoundedDown
    <3>6. f = m
      BY <1>3, <2>1, <3>5
    <3>7. b * f = a * Unit
      BY <1>1, <1>2, <2>2, <3>1, <3>6 DEF HalfWeight
    <3> QED
      BY <1>1, <1>5, <1>7, <3>7
  <2>3. CASE b < Exactly
    <3>1. PICK x \in Nat : x = f * d
      OBVIOUS
    <3>2. PICK y \in Nat : y = n * Unit
      BY <1>1
    <3>3. PICK l \in Nat : l = L * d
      OBVIOUS
    <3>4. 2 * (L * b) < Unit
      <4>1. L * b <= w * b
        BY <2>1, TimesMonotone
      <4>2. w * (b + 1) <= w * Exactly
        BY <1>1, <2>3, TimesMonotone
      <4>3. w * (b + 1) = w * b + w
        OBVIOUS
      <4>4. Unit = 2 * (w * Exactly)
        BY <1>1, <1>2 DEF HalfWeight
      <4>5. L * b \in Nat /\ w * b \in Nat /\ w * Exactly \in Nat
        BY <1>1
      <4> QED
        BY <4>1, <4>2, <4>3, <4>4, <4>5
    \* The product of the quotient is off by less than a quarter of a byte ...
    <3>5. 2 * (b * f) <= 2 * (a * Unit) + L * b /\ 2 * (a * Unit) <= 2 * (b * f) + L * b
      <4>1. b * (2 * x) <= b * (2 * y + l) /\ b * (2 * y) <= b * (2 * x + l)
        BY <1>3, <2>1, <3>1, <3>2, <3>3, TimesMonotone
      <4>2. b * (2 * y) = 2 * ((n * b) * Unit) /\ (n * b) * Unit = (a * d) * Unit
        BY <1>1, <3>2
      <4>3. /\ b * (2 * x) = (2 * (b * f)) * d
            /\ b * (2 * y) = (2 * (a * Unit)) * d
            /\ b * (2 * x + l) = (2 * (b * f) + L * b) * d
            /\ b * (2 * y + l) = (2 * (a * Unit) + L * b) * d
        <5>1. (a * d) * Unit = (a * Unit) * d
          BY <1>1
        <5>2. b * (2 * y) = (2 * (a * Unit)) * d
          BY <1>1, <4>2, <5>1
        <5>3. b * l = (L * b) * d
          BY <3>3
        <5>4. b * (2 * x) = (2 * (b * f)) * d
          BY <3>1
        <5>5. b * (2 * x + l) = b * (2 * x) + b * l /\ b * (2 * y + l) = b * (2 * y) + b * l
          OBVIOUS
        <5>6. /\ (2 * (b * f) + L * b) * d = (2 * (b * f)) * d + (L * b) * d
              /\ (2 * (a * Unit) + L * b) * d = (2 * (a * Unit)) * d + (L * b) * d
          BY <1>1
        <5> QED
          BY <5>2, <5>3, <5>4, <5>5, <5>6
      <4>4. /\ (2 * (b * f)) * d <= (2 * (a * Unit) + L * b) * d
            /\ (2 * (a * Unit)) * d <= (2 * (b * f) + L * b) * d
        BY <4>1, <4>3
      <4>5. /\ 2 * (b * f) \in Nat /\ 2 * (a * Unit) + L * b \in Nat
            /\ 2 * (a * Unit) \in Nat /\ 2 * (b * f) + L * b \in Nat
        BY <1>5
      <4> QED
        BY <4>4, <4>5, TimesCancelAtMost
    \* ... and rounding it adds a quarter at most, for it is less than Exactly.
    <3>6. PICK M \in Nat \ {0} : M = LastBit(b * f, 1) /\ M \in Weight
      BY <1>5, LastBitIs, DoubleAssumption
    <3>7. M < Unit
      <4>1. M = 1 \/ M * Exactly * 1 <= b * f
        BY <1>5, <3>6, LastBitIs
      <4>2. CASE M = 1
        <5>1. 2 <= Unit
          <6>1. PICK v \in Nat \ {0} : v = w * Exactly
            BY <1>1
          <6>2. Unit = 2 * v
            BY <1>1, <1>2, <6>1 DEF HalfWeight
          <6> QED
            BY <6>2
        <5> QED
          BY <1>1, <4>2, <5>1
      <4>3. CASE M * Exactly * 1 <= b * f
        <5>1. b * f <= b * Unit
          BY <1>1, <1>3, TimesMonotone
        <5>2. (b + 1) * Unit <= Exactly * Unit
          BY <1>1, <2>3, TimesMonotone
        <5>3. (b + 1) * Unit = b * Unit + Unit /\ b * Unit \in Nat
          BY <1>1
        <5>4. M * Exactly * 1 = M * Exactly /\ Exactly * Unit = Unit * Exactly
              /\ M * Exactly \in Nat /\ Unit * Exactly \in Nat
          BY <1>1
        <5>5. M * Exactly < Unit * Exactly
          BY <1>1, <1>5, <4>3, <5>1, <5>2, <5>3, <5>4
        <5> QED
          BY <1>1, <5>5, TimesCancel
      <4> QED
        BY <4>1, <4>2, <4>3
    <3>8. 2 * M <= Unit
      BY <3>6, <3>7, UnitIs, Lighter
    <3>9. 2 * (z * 1) <= 2 * (b * f) + M * 1 /\ 2 * (b * f) <= 2 * (z * 1) + M * 1
      BY <1>4, <1>5, <3>6, RoundedNear
    <3>10. L * b \in Nat
      OBVIOUS
    <3> QED
      BY <1>1, <1>5, <3>4, <3>5, <3>8, <3>9, <3>10
  <2> QED
    BY <1>1, <2>2, <2>3
<1> QED
  BY <1>8, <1>9

-----------------------------------------------------------------------------
(* Texts.                                                                  *)

\* The prefix that an amount is printed with, and its text.
Index(v) == Max({0} \cup {k \in DOMAIN Multiple : Multiple[k] <= v})
Str(v, parts) ==
  IF Index(v) = 0 THEN <<v * parts, 0, parts>>
  ELSE <<Nearest(v * parts, Multiple[Index(v)]), Index(v), parts>>

LEMMA MultipleIs ==
  /\ Len(Multiple) \in Nat \ {0} /\ DOMAIN Multiple = 1 .. Len(Multiple)
  /\ \A k \in 1 .. Len(Multiple) : Multiple[k] \in Nat \ {0}
<1>1. Multiple \in Seq(Nat \ {0}) /\ Multiple # <<>>
  BY QuotaAssumption
<1> QED
  BY <1>1

\* A prefix counts at least Multiple[1] times what a lower one does.
LEMMA Increasing ==
  ASSUME NEW j \in 1 .. Len(Multiple), NEW k \in 1 .. Len(Multiple), j < k
  PROVE  Multiple[1] * Multiple[j] <= Multiple[k]
<1> DEFINE D == {i \in 1 .. Len(Multiple) : j < i /\ ~(Multiple[1] * Multiple[j] <= Multiple[i])}
<1> SUFFICES ASSUME k \in D PROVE FALSE
  OBVIOUS
<1>1. D \in SUBSET Nat /\ D # {}
  OBVIOUS
<1>2. PICK i \in D : \A e \in D : ~(<<e, i>> \in OpToRel(<, Nat))
  BY <1>1, NatLessThanWellFounded, WFMin
<1>3. /\ i \in 1 .. Len(Multiple) /\ j < i
      /\ ~(Multiple[1] * Multiple[j] <= Multiple[i])
  OBVIOUS
<1>4. PICK h \in 1 .. Len(Multiple) - 1 : i = h + 1
  <2>1. i - 1 \in 1 .. Len(Multiple) - 1 /\ i = (i - 1) + 1
    BY <1>3, MultipleIs
  <2> QED
    BY <2>1
<1>5. Multiple[i] = Multiple[1] * Multiple[h]
  BY <1>4, QuotaAssumption
<1>6. h \notin D
  <2> SUFFICES ASSUME h \in D PROVE FALSE
    OBVIOUS
  <2>1. h \in Nat /\ i \in Nat /\ h < i
    BY <1>1, <1>4
  <2>2. <<h, i>> \in OpToRel(<, Nat)
    BY <2>1 DEF OpToRel
  <2> QED
    BY <1>2, <2>2
<1> HIDE DEF D
<1>7. h \in 1 .. Len(Multiple) /\ 1 \in 1 .. Len(Multiple)
  BY <1>4, MultipleIs
<1>8. h # j
  <2>1. Multiple[1] * Multiple[h] \in Nat
    BY <1>7, MultipleIs
  <2> QED
    BY <1>3, <1>5, <2>1
<1>9. Multiple[1] * Multiple[j] <= Multiple[h]
  <2>1. j < h
    BY <1>3, <1>4, <1>8
  <2> QED
    BY <1>6, <1>7, <2>1 DEF D
<1>10. PICK x \in Nat \ {0}, y \in Nat \ {0} : x = Multiple[1] /\ y = Multiple[h]
  BY <1>7, MultipleIs
<1>11. 1 * y <= x * y
  BY TimesMonotone
<1>12. Multiple[1] * Multiple[j] \in Nat /\ Multiple[i] \in Nat
  BY <1>3, <1>7, MultipleIs
<1> QED
  BY <1>3, <1>5, <1>9, <1>10, <1>11, <1>12

LEMMA IndexIs ==
  ASSUME NEW v \in Nat
  PROVE  /\ Index(v) \in 0 .. Len(Multiple)
         /\ Index(v) # 0 => Multiple[Index(v)] <= v
         /\ \A k \in 1 .. Len(Multiple) : Multiple[k] <= v => k <= Index(v)
<1> DEFINE I == {0} \cup {k \in DOMAIN Multiple : Multiple[k] <= v}
<1>1. I \in SUBSET (0 .. Len(Multiple)) /\ I # {} /\ Len(Multiple) \in Nat
  BY MultipleIs
<1>2. Max(I) \in I /\ \A j \in I : Max(I) >= j
  BY <1>1, GreatestIs
<1>3. Index(v) = Max(I)
  BY DEF Index
<1>4. \A k \in 1 .. Len(Multiple) : Multiple[k] <= v => k \in I
  BY MultipleIs
<1>5. Max(I) \in 0 .. Len(Multiple)
  BY <1>1, <1>2
<1> QED
  BY <1>2, <1>3, <1>4, <1>5

\* The prefix is the one that counts no more, if the next counts more.
LEMMA IndexUnique ==
  ASSUME NEW v \in Nat, NEW k \in 1 .. Len(Multiple), Multiple[k] <= v,
         k < Len(Multiple) => v < Multiple[k + 1]
  PROVE  Index(v) = k
<1>1. PICK i \in 0 .. Len(Multiple) : i = Index(v) /\ k <= i /\ Multiple[i] <= v
  <2>1. k <= Index(v)
    BY IndexIs
  <2>2. Index(v) # 0 /\ Index(v) \in 0 .. Len(Multiple) /\ Len(Multiple) \in Nat
    BY <2>1, IndexIs, MultipleIs
  <2> QED
    BY <2>1, <2>2, IndexIs
<1> SUFFICES ASSUME k < i PROVE FALSE
  BY <1>1, MultipleIs
<1>2. k < Len(Multiple) /\ k + 1 \in 1 .. Len(Multiple) /\ i \in 1 .. Len(Multiple)
  BY <1>1, MultipleIs
<1>3. PICK x \in Nat \ {0}, y \in Nat \ {0}, c \in Nat \ {0} :
        x = Multiple[k + 1] /\ y = Multiple[i] /\ c = Multiple[1]
  BY <1>2, MultipleIs
<1>4. v < x /\ y <= v
  BY <1>1, <1>2, <1>3
<1>5. x <= y
  <2>1. CASE i = k + 1
    BY <1>3, <2>1
  <2>2. CASE k + 1 < i
    <3>1. c * x <= y
      BY <1>2, <1>3, <2>2, Increasing
    <3>2. 1 * x <= c * x
      BY TimesMonotone
    <3> QED
      BY <3>1, <3>2
  <2> QED
    BY <1>1, <1>2, <2>1, <2>2
<1> QED
  BY <1>4, <1>5

\* Printing takes the nearest number of digits.
LEMMA NearestIs ==
  ASSUME NEW n \in Nat, NEW d \in Nat \ {0}, NEW m \in Nat
  PROVE  /\ Nearest(n, d) \in Nat
         /\ m * d <= n => m <= Nearest(n, d)
         /\ 2 * n < 2 * (m * d) + d /\ 2 * (m * d) < 2 * n + d => Nearest(n, d) = m
<1>1. PICK q \in Nat, r \in 0 .. d - 1 : q = n \div d /\ r = n % d /\ n = q * d + r
  BY Divided
<1>2. Nearest(n, d) = IF 2 * r > d \/ (2 * r = d /\ q % 2 = 1) THEN q + 1 ELSE q
  BY <1>1 DEF Nearest
<1>3. PICK k \in Nat : k = Nearest(n, d) /\ k \in {q, q + 1}
                       /\ (k = q => 2 * r <= d) /\ (k = q + 1 => 2 * r >= d)
  BY <1>1, <1>2
<1>4. ASSUME m * d <= n PROVE m <= k
  <2>1. m * d < (q + 1) * d
    <3>1. (q + 1) * d = q * d + d /\ q * d \in Nat /\ m * d \in Nat
      OBVIOUS
    <3> QED
      BY <1>1, <1>4, <3>1
  <2>2. m < q + 1
    BY <2>1, TimesCancel
  <2> QED
    BY <1>3, <2>2
<1>5. ASSUME 2 * n < 2 * (m * d) + d, 2 * (m * d) < 2 * n + d PROVE k = m
  <2>0. q * d \in Nat /\ (q + 1) * d = q * d + d /\ m * d \in Nat /\ k * d \in Nat
    OBVIOUS
  <2>1. 2 * n <= 2 * (k * d) + d /\ 2 * (k * d) <= 2 * n + d
    BY <1>1, <1>3, <2>0
  <2>2. k * d < (m + 1) * d
    <3>1. (m + 1) * d = m * d + d
      OBVIOUS
    <3> QED
      BY <1>5, <2>0, <2>1, <3>1
  <2>3. m * d < (k + 1) * d
    <3>1. (k + 1) * d = k * d + d
      OBVIOUS
    <3> QED
      BY <1>5, <2>0, <2>1, <3>1
  <2>4. k < m + 1 /\ m < k + 1
    BY <2>2, <2>3, TimesCancel
  <2> QED
    BY <2>4
<1> QED
  BY <1>3, <1>4, <1>5

\* A text that was printed, read back and printed again: amounts a byte next to
\* the one that was read have the same text, if doubles do not count them exactly
\* or it hides a byte.
LEMMA StrKept ==
  ASSUME NEW v \in Nat, NEW parts \in Nat \ {0}, NEW str, str = Str(v, parts),
         InPrefix(str), Coarse(str),
         NEW p \in Nat, p = ParseBytes(str), p <= Exactly,
         NEW g \in Nat, g <= p + 1, p <= g + 1,
         g = p \/ Exactly < 2 * p \/ HidesByte(str)
  PROVE  Str(g, parts) = str
<1>0. parts \in Nat \ {0} /\ Exactly \in Nat \ {0}
  BY DoubleAssumption
<1>1. PICK c \in Nat \ {0} : c = Multiple[1] /\ c <= Exactly /\ 2 * c <= Exactly
  <2>1. 1 \in 1 .. Len(Multiple)
    BY MultipleIs
  <2> QED
    BY <2>1, MultipleIs, QuotaAssumption
<1>2. PICK k \in 0 .. Len(Multiple) : k = Index(v)
  BY IndexIs
<1>3. CASE k = 0
  <2>1. v < c
    <3>1. 1 \in 1 .. Len(Multiple)
      BY MultipleIs
    <3>2. ~(Multiple[1] <= v)
      <4> SUFFICES ASSUME Multiple[1] <= v PROVE FALSE
        OBVIOUS
      <4>1. 1 <= Index(v)
        BY <3>1, IndexIs
      <4> QED
        BY <1>2, <1>3, <4>1
    <3> QED
      BY <1>1, <3>2
  <2>2. str = <<v * parts, 0, parts>>
    BY <1>2, <1>3 DEF Str
  <2>3. p = v
    <3>1. (v * parts + 0) \div parts = v
      BY <1>0, Quotient
    <3>2. (v * parts) * 1 = v * parts + 0
      BY <1>0
    <3>3. ParseBytes(str) = ((v * parts) * 1) \div parts
      BY <2>2 DEF ParseBytes
    <3> QED
      BY <3>1, <3>2, <3>3
  <2>4. g = v
    BY <1>0, <1>1, <2>1, <2>2, <2>3 DEF HidesByte
  <2> QED
    BY <2>4
<1>4. CASE k # 0
  <2>0. k \in 1 .. Len(Multiple) /\ Len(Multiple) \in Nat
    BY <1>4, MultipleIs
  <2>1. PICK M \in Nat \ {0} : M = Multiple[k] /\ M <= v /\ (M <= Exactly => 2 * M <= Exactly)
    BY <1>2, <1>4, <2>0, MultipleIs, IndexIs, QuotaAssumption
  <2>2. 4 * parts <= M
    BY <1>2, <1>4, <2>1 DEF Str, Coarse
  <2>3. PICK m \in Nat : m = Nearest(v * parts, M) /\ parts <= m
    <3>1. v * parts \in Nat /\ parts * M <= v * parts
      <4>1. M * parts <= v * parts /\ M * parts = parts * M
        BY <1>0, <2>1, TimesMonotone
      <4> QED
        BY <1>0, <4>1
    <3> QED
      BY <1>0, <2>1, <3>1, NearestIs
  <2>4. str = <<m, k, parts>> /\ m < c * parts
    <3>1. str = <<m, k, parts>>
      BY <1>2, <1>4, <2>1, <2>3 DEF Str
    <3> QED
      BY <1>1, <3>1 DEF InPrefix
  <2>5. PICK a \in Nat : a = p * parts /\ a <= m * M /\ m * M < a + parts
    <3>1. PICK n \in Nat : n = m * M
      OBVIOUS
    <3>2. p = n \div parts
      BY <1>4, <2>1, <2>4, <3>1 DEF ParseBytes
    <3>3. n % parts \in 0 .. parts - 1 /\ n = p * parts + (n % parts)
      BY <1>0, <3>1, <3>2, Divided
    <3>4. PICK h \in Nat, r \in 0 .. parts - 1 : h = p * parts /\ r = n % parts
      BY <1>0, <3>3
    <3>5. n = h + r
      BY <3>3, <3>4
    <3>6. r \in Int /\ 0 <= r /\ r <= parts - 1 /\ h \in Int /\ parts \in Int
      BY <1>0
    <3>7. h <= h + r /\ h + r < h + parts
      BY <3>6
    <3> QED
      BY <3>1, <3>4, <3>5, <3>7
  <2>6. M <= p
    <3>1. parts * M <= m * M /\ parts * M = M * parts
      <4>1. parts * M <= m * M
        BY <1>0, <2>3, TimesMonotone
      <4>2. parts * M = M * parts
        BY <1>0
      <4> QED
        BY <4>1, <4>2
    <3>2. M * parts < (p + 1) * parts
      <4>1. PICK n \in Nat, h \in Nat : n = m * M /\ h = M * parts
        BY <1>0
      <4>2. h <= n /\ n < a + parts
        BY <2>5, <3>1, <4>1
      <4>3. h < a + parts
        BY <1>0, <4>2
      <4>4. (p + 1) * parts = p * parts + parts
        BY <1>0
      <4> QED
        BY <2>5, <4>1, <4>3, <4>4
    <3>3. M < p + 1
      BY <1>0, <3>2, TimesCancel
    <3> QED
      BY <3>3
  <2>7. M <= g
    <3>1. CASE g = p \/ Exactly < 2 * p
      BY <1>0, <2>1, <2>6, <3>1
    <3>2. CASE HidesByte(str)
      <4>1. parts + 1 <= m
        BY <1>0, <2>3, <2>4, <3>2 DEF HidesByte
      <4>2. (parts + 1) * M <= m * M /\ (parts + 1) * M = M * parts + M
        BY <1>0, <4>1, TimesMonotone
      <4>3. M * parts < p * parts
        <5>1. PICK n \in Nat, h \in Nat : n = m * M /\ h = M * parts
          BY <1>0
        <5>2. h + M <= n /\ n < a + parts
          BY <2>5, <4>2, <5>1
        <5>3. h < a
          BY <1>0, <2>2, <5>2
        <5> QED
          BY <2>5, <5>1, <5>3
      <4>4. M < p
        BY <1>0, <4>3, TimesCancel
      <4> QED
        BY <4>4
    <3> QED
      BY <3>1, <3>2
  <2>8. k < Len(Multiple) => g < Multiple[k + 1]
    <3> SUFFICES ASSUME k < Len(Multiple) PROVE g < Multiple[k + 1]
      OBVIOUS
    <3>1. Multiple[k + 1] = c * M
      BY <1>1, <2>0, <2>1, QuotaAssumption
    <3>2. (m + 1) * M <= (c * parts) * M
      BY <1>0, <2>4, TimesMonotone
    <3>3. (m + 1) * M = m * M + M /\ (c * parts) * M = (c * M) * parts /\ m * M \in Nat
      BY <1>0
    <3>4. (p + 1) * parts < (c * M) * parts
      <4>1. PICK n \in Nat, h \in Nat : n = m * M /\ h = (c * M) * parts
        BY <1>0
      <4>2. a <= n /\ n + M <= h
        BY <2>5, <3>2, <3>3, <4>1
      <4>3. a + parts < h
        BY <1>0, <2>2, <4>2
      <4>4. (p + 1) * parts = p * parts + parts
        BY <1>0
      <4> QED
        BY <2>5, <4>1, <4>3, <4>4
    <3>5. p + 1 < c * M
      BY <1>0, <3>4, TimesCancel
    <3> QED
      BY <3>1, <3>5
  <2>9. Index(g) = k
    BY <2>0, <2>1, <2>7, <2>8, IndexUnique
  <2>10. Nearest(g * parts, M) = m
    <3>1. PICK b \in Nat : b = g * parts
      BY <1>0
    <3>2. b <= a + parts /\ a <= b + parts
      <4>1. g <= p + 1 /\ p <= g + 1
        OBVIOUS
      <4>2. g * parts <= (p + 1) * parts /\ p * parts <= (g + 1) * parts
        <5>1. p + 1 \in Nat /\ g + 1 \in Nat /\ parts \in Nat
          BY <1>0
        <5>2. g * parts <= (p + 1) * parts
          BY <4>1, <5>1, TimesMonotone
        <5>3. p * parts <= (g + 1) * parts
          BY <4>1, <5>1, TimesMonotone
        <5> QED
          BY <5>2, <5>3
      <4>3. (p + 1) * parts = p * parts + parts /\ (g + 1) * parts = g * parts + parts
        BY <1>0
      <4> QED
        BY <2>5, <3>1, <4>2, <4>3
    <3>3. PICK n \in Nat : n = m * M
      OBVIOUS
    <3>4. 2 * b < 2 * n + M /\ 2 * n < 2 * b + M
      <4>1. a <= n /\ n < a + parts
        BY <2>5, <3>3
      <4> QED
        BY <1>0, <2>2, <3>2, <4>1
    <3>5. 2 * b < 2 * (m * M) + M /\ 2 * (m * M) < 2 * b + M
      BY <3>3, <3>4
    <3> QED
      BY <3>1, <3>5, NearestIs
  <2>11. Str(g, parts) = <<m, k, parts>>
    BY <1>4, <2>1, <2>9, <2>10 DEF Str
  <2> QED
    BY <2>4, <2>11
<1> QED
  BY <1>3, <1>4

\* Allotting p of b bytes is off by a byte at most, and rounding to the nearest
\* gives p bytes if doubles count beyond p twice; more than b, too.
LEMMA ReadBack ==
  ASSUME NEW b \in Nat \ {0}, b <= Exactly, NEW p \in Nat, p <= Exactly,
         NEW z \in Nat, z = Times(b, Divide(p, b)),
         NEW g, g = (2 * z + Unit) \div (2 * Unit)
  PROVE  /\ z <= p * Unit + Unit /\ p * Unit <= z + Unit
         /\ g \in Nat /\ (g = p \/ Exactly < 2 * p)
<1>1. Unit \in Nat \ {0} /\ Exactly \in Nat \ {0} /\ b <= 2 * Exactly /\ p <= 2 * Exactly
  BY UnitIs, DoubleAssumption
<1>2. PICK x \in Nat : x = p * Unit
  BY <1>1
<1>3. 2 * Unit \in Nat \ {0} /\ 2 * z + Unit \in Nat
  BY <1>1
<1>4. g \in Nat
  BY <1>3, Divided
<1>5. g * (2 * Unit) <= 2 * z + Unit /\ 2 * z + Unit < (g + 1) * (2 * Unit)
  <2>1. PICK h \in Nat, s \in 0 .. 2 * Unit - 1 : h = g /\ 2 * z + Unit = h * (2 * Unit) + s
    BY <1>3, <1>4, Divided
  <2>2. (h + 1) * (2 * Unit) = h * (2 * Unit) + 2 * Unit /\ h * (2 * Unit) \in Nat
    BY <1>3
  <2> QED
    BY <1>1, <1>3, <2>1, <2>2
<1>6. p * (2 * Unit) = 2 * x /\ (p + 1) * (2 * Unit) = 2 * x + 2 * Unit
  BY <1>1, <1>2
\* Less than half a byte off, p is what is rounded to.
<1>7. ASSUME 2 * z < 2 * x + Unit, 2 * x < 2 * z + Unit
      PROVE  g = p /\ z <= x + Unit /\ x <= z + Unit
  <2>1. g * (2 * Unit) < (p + 1) * (2 * Unit)
    <3>1. g * (2 * Unit) \in Nat
      BY <1>3, <1>4
    <3> QED
      BY <1>1, <1>5, <1>6, <1>7, <3>1
  <2>2. p * (2 * Unit) < (g + 1) * (2 * Unit)
    <3>1. (g + 1) * (2 * Unit) \in Nat
      BY <1>3, <1>4
    <3> QED
      BY <1>1, <1>5, <1>6, <1>7, <3>1
  <2>3. g + 1 \in Nat /\ p + 1 \in Nat
    BY <1>4
  <2>4. g < p + 1
    BY <1>3, <1>4, <2>1, <2>3, TimesCancel
  <2>5. p < g + 1
    BY <1>3, <1>4, <2>2, <2>3, TimesCancel
  <2>6. z <= x + Unit /\ x <= z + Unit
    BY <1>1, <1>7
  <2> QED
    BY <1>4, <2>4, <2>5, <2>6
\* At most all of the bytes is a share as any other.
<1>8. CASE p <= b
  <2>1. p * b = p * b /\ Held(p) /\ Held(b)
    BY <1>1, SmallHeld
  <2>2. 2 * z < 2 * (p * Unit) + Unit /\ 2 * (p * Unit) < 2 * z + Unit
    BY <1>8, <2>1, TimesWhole
  <2> QED
    BY <1>2, <1>4, <1>7, <2>2
<1>9. CASE b < p
  <2>1. PICK f \in Nat : f = Divide(p, b) /\ f = Fl(x, b)
    <3>1. Divide(p, b) = Fl(x, b) /\ Divide(p, b) \in Nat
      BY <1>1, <1>2, SmallHeld, HeldIs, DivideIs DEF Divide
    <3> QED
      BY <3>1
  <2>2. z = Fl(b * f, 1) /\ b * f \in Nat /\ 1 \in Nat \ {0}
    BY <1>1, <2>1, SmallHeld, HeldIs DEF Times
  <2>3. PICK y \in Nat : y = b * f /\ z = Fl(y, 1)
    BY <2>2
  \* The product of the quotient is off by half of l at most.
  <2>4. PICK L \in Nat \ {0} : L = LastBit(x, b) /\ L \in Weight
    BY LastBitIs, DoubleAssumption
  <2>5. PICK l \in Nat : l = L * b
    OBVIOUS
  <2>6. 2 * y <= 2 * x + l /\ 2 * x <= 2 * y + l
    <3>1. 2 * (f * b) <= 2 * x + L * b /\ 2 * x <= 2 * (f * b) + L * b
      BY <2>1, <2>4, RoundedNear
    <3> QED
      BY <2>3, <2>5, <3>1
  <2>7. l * Exactly <= x
    <3>1. L = 1 \/ L * Exactly * b <= x
      BY <2>4, LastBitIs
    <3>2. CASE L * Exactly * b <= x
      <4>1. L * Exactly * b = l * Exactly
        BY <1>1, <2>5
      <4> QED
        BY <3>2, <4>1
    <3>3. CASE L = 1
      <4>1. PICK w \in Nat \ {0} : HalfWeight(w)
        BY DoubleAssumption DEF HalfWeight
      <4>2. Unit = (2 * w) * Exactly
        BY <1>1, <4>1 DEF HalfWeight
      <4>3. 1 * Exactly <= (2 * w) * Exactly
        BY <1>1, TimesMonotone
      <4>4. Exactly <= Unit
        BY <1>1, <4>2, <4>3
      <4>5. b * Exactly <= b * Unit /\ b * Unit <= p * Unit
        BY <1>1, <1>9, <4>4, TimesMonotone
      <4>6. l * Exactly = b * Exactly /\ b * Exactly \in Nat /\ b * Unit \in Nat
        BY <1>1, <2>5, <3>3
      <4> QED
        BY <1>2, <4>5, <4>6
    <3> QED
      BY <3>1, <3>2, <3>3
  \* The last bit of a product up to 2 * Exactly, less a bit, is one of a byte.
  <2>8. PICK M \in Nat \ {0} : M = LastBit(y, 1) /\ M \in Weight
    BY <2>2, LastBitIs, DoubleAssumption
  <2>9. 2 * z <= 2 * y + M /\ 2 * y <= 2 * z + M
    <3>1. 2 * (z * 1) <= 2 * y + M * 1 /\ 2 * y <= 2 * (z * 1) + M * 1
      BY <2>2, <2>3, <2>8, RoundedNear
    <3> QED
      BY <3>1
  <2>10. M = 1 \/ M * Exactly <= y
    <3>1. M = 1 \/ M * Exactly * 1 <= y
      BY <2>2, <2>8, LastBitIs
    <3> QED
      BY <1>1, <3>1
  <2>11. PICK e \in Nat : e = Exactly * Unit /\ Unit <= e
    <3>1. 1 * Unit <= Exactly * Unit
      BY <1>1, TimesMonotone
    <3> QED
      BY <1>1, <3>1
  <2>12. x <= e
    BY <1>1, <1>2, <2>11, TimesMonotone
  <2>13. ASSUME NEW k \in Nat, k * M >= 2 * Unit, M # 1 PROVE 2 * e <= k * y
    <3>1. (2 * Unit) * Exactly <= (k * M) * Exactly
      BY <1>1, <2>13, TimesMonotone
    <3>2. (2 * Unit) * Exactly = 2 * e /\ (k * M) * Exactly = k * (M * Exactly)
      BY <1>1, <2>11
    <3>3. k * (M * Exactly) <= k * y
      BY <1>1, <2>10, <2>13, TimesMonotone
    <3>4. k * (M * Exactly) \in Nat /\ k * y \in Nat
      BY <1>1
    <3> QED
      BY <3>1, <3>2, <3>3, <3>4
  <2>14. CASE 2 * p <= Exactly
    <3>1. 2 * x <= e
      <4>1. (2 * p) * Unit <= Exactly * Unit
        BY <1>1, <2>14, TimesMonotone
      <4>2. (2 * p) * Unit = 2 * x
        BY <1>1, <1>2
      <4> QED
        BY <2>11, <4>1, <4>2
    <3>2. CASE l * Exactly = x
      <4>1. PICK m \in Nat : m = L * Exactly
        BY <1>1
      <4>2. x = m * b /\ m % L = 0
        <5>1. m = Exactly * L
          BY <1>1, <4>1
        <5>2. m % L = 0
          BY <1>1, <5>1, Multiples
        <5>3. x = m * b
          BY <1>1, <2>5, <3>2, <4>1
        <5> QED
          BY <5>2, <5>3
      <4>3. f <= m /\ f >= m
        BY <2>1, <2>4, <4>2, RoundedUp, RoundedDown
      <4>4. y = x
        BY <2>3, <4>2, <4>3
      <4>5. Representable(p * Unit) /\ p * Unit \in Nat
        BY <1>1, <1>2, SmallAmount
      <4>6. z = x
        BY <1>2, <2>3, <4>4, <4>5, Exact
      <4> QED
        BY <1>1, <1>2, <1>4, <1>7, <4>6
    <3>3. CASE l * Exactly # x
      <4>1. 2 * l < Unit
        <5>1. (2 * l) * Exactly = 2 * (l * Exactly) /\ l * Exactly \in Nat
              /\ Unit * Exactly = e
          BY <1>1, <2>11
        <5>2. (2 * l) * Exactly < Unit * Exactly
          BY <2>7, <3>1, <3>3, <5>1
        <5>3. 2 * l \in Nat
          OBVIOUS
        <5> QED
          BY <1>1, <5>2, <5>3, TimesCancel
      <4>2. M < Unit
        <5> SUFFICES ASSUME Unit <= M PROVE FALSE
          BY <1>1
        <5>1. M # 1
          <6>1. PICK w \in Nat \ {0} : HalfWeight(w)
            BY DoubleAssumption DEF HalfWeight
          <6>2. PICK c \in Nat \ {0} : c = w * Exactly
            BY <1>1
          <6>3. Unit = 2 * c
            BY <1>1, <6>1, <6>2 DEF HalfWeight
          <6> QED
            BY <6>2, <6>3
        <5>2. 2 * M >= 2 * Unit
          BY <1>1
        <5>3. 2 * e <= 2 * y
          BY <2>13, <5>1, <5>2
        <5> QED
          BY <1>1, <2>6, <2>11, <3>1, <4>1, <5>3
      <4>3. 2 * M <= Unit
        BY <2>8, <4>2, UnitIs, Lighter
      <4>4. 2 * z < 2 * x + Unit /\ 2 * x < 2 * z + Unit
        BY <1>1, <2>6, <2>9, <4>1, <4>3
      <4> QED
        BY <1>2, <1>4, <1>7, <4>4
    <3> QED
      BY <3>2, <3>3
  <2>15. CASE Exactly < 2 * p
    <3>1. l <= Unit
      <4>1. l * Exactly <= Unit * Exactly
        <5>1. l * Exactly \in Nat /\ Unit * Exactly = e
          BY <1>1, <2>11
        <5> QED
          BY <2>7, <2>12, <5>1
      <4> QED
        BY <1>1, <4>1, TimesCancelAtMost
    <3>2. M <= Unit
      <4> SUFFICES ASSUME Unit < M PROVE FALSE
        BY <1>1
      <4>1. 2 * Unit <= M
        BY <2>8, UnitIs, Lighter
      <4>2. M # 1 /\ 1 * M >= 2 * Unit
        BY <1>1, <4>1
      <4>3. 2 * e <= 1 * y
        BY <2>13, <4>2
      <4> QED
        BY <1>1, <2>6, <2>11, <2>12, <3>1, <4>3
    <3>3. z <= x + Unit /\ x <= z + Unit
      BY <1>1, <2>6, <2>9, <3>1, <3>2
    <3> QED
      BY <1>2, <1>4, <2>15, <3>3
  <2> QED
    BY <1>1, <2>14, <2>15
<1> QED
  BY <1>8, <1>9

-----------------------------------------------------------------------------
(* The specification.                                                      *)

Text == Nat \X (0 .. Len(Multiple)) \X Parts

\* Inductive: the fraction is the quotient of the share that was asked for.
QuotaInv ==
  /\ bytes \in Nat
  /\ method \in RoundingMethod \cup {"none"}
  /\ meant \in Nat \X Nat
  /\ fraction = Divide(meant[1], meant[2])
  /\ text = NoText \/ text \in Text

\* A value that is defined is some bytes, and not more than all if the share is
\* not and the amount is one that a double can hold.
LEMMA GetIs ==
  ASSUME QuotaInv, Constructed, Defined
  PROVE  /\ Get \in Nat
         /\ meant[1] <= meant[2] /\ bytes <= 2 * Exactly => Get <= bytes
<1>1. /\ bytes \in Nat /\ method \in RoundingMethod
      /\ meant[1] \in Nat /\ meant[2] \in Nat
      /\ fraction = Divide(meant[1], meant[2]) /\ fraction # NotFinite
  BY DEF QuotaInv, Constructed, Defined
<1>2. fraction \in Nat /\ (meant[1] <= meant[2] => fraction <= Unit)
  BY <1>1, DivideIs
<1>3. /\ Times(bytes, fraction) \in Nat
      /\ bytes <= 2 * Exactly /\ fraction <= Unit => Times(bytes, fraction) <= bytes * Unit
  BY <1>1, <1>2, TimesIs
<1> QED
  BY <1>1, <1>2, <1>3, RoundIs DEF Get

\* A printed value is a mantissa, a prefix and a number of digits.
LEMMA GetStrIs ==
  ASSUME Get \in Nat, NEW parts \in Parts
  PROVE  GetStr(parts) \in Text
<1> DEFINE I == {0} \cup {k \in DOMAIN Multiple : Multiple[k] <= Get}
           index == Max(I)
<1>1. Multiple \in Seq(Nat \ {0}) /\ Len(Multiple) \in Nat /\ parts \in Nat \ {0}
  BY QuotaAssumption
<1>2. I \in SUBSET (0 .. Len(Multiple)) /\ I # {}
  BY <1>1
<1>3. index \in I
  BY <1>1, <1>2, GreatestIs
<1>4. index \in 0 .. Len(Multiple) /\ (index # 0 => Multiple[index] \in Nat \ {0})
  BY <1>1, <1>2, <1>3
<1>5. Get * parts \in Nat
  BY <1>1
<1> HIDE DEF I
<1>6. ASSUME NEW n \in Nat, NEW d \in Nat \ {0} PROVE Nearest(n, d) \in Nat
  <2>1. n \div d \in Nat
    BY <1>6, Divided
  <2> QED
    BY <2>1 DEF Nearest
<1>7. GetStr(parts) = IF index = 0 THEN <<Get * parts, 0, parts>>
                      ELSE <<Nearest(Get * parts, Multiple[index]), index, parts>>
  BY DEF GetStr, I
<1> HIDE DEF index
<1>8. CASE index = 0
  BY <1>1, <1>5, <1>7, <1>8 DEF Text
<1>9. CASE index # 0
  <2>1. Nearest(Get * parts, Multiple[index]) \in Nat
    BY <1>4, <1>5, <1>6, <1>9
  <2> QED
    BY <1>4, <1>7, <1>9, <2>1 DEF Text
<1> QED
  BY <1>8, <1>9

\* A text that is read is some bytes.
LEMMA ParseBytesIs ==
  ASSUME NEW str \in Text
  PROVE  ParseBytes(str) \in Nat
<1> DEFINE m == IF str[2] = 0 THEN 1 ELSE Multiple[str[2]]
<1>1. str[1] \in Nat /\ str[2] \in 0 .. Len(Multiple) /\ str[3] \in Nat \ {0}
  BY QuotaAssumption DEF Text
<1>2. m \in Nat
  BY <1>1, QuotaAssumption
<1>3. str[1] * m \in Nat
  BY <1>1, <1>2
<1>4. ParseBytes(str) = (str[1] * m) \div str[3]
  BY DEF ParseBytes
<1> QED
  BY <1>1, <1>3, <1>4, Divided

LEMMA InitQuota == Init => QuotaInv
<1> SUFFICES ASSUME Init PROVE QuotaInv
  OBVIOUS
<1>1. Divide(0, 1) = 0
  <2>1. Divide(0, 1) \in Nat /\ Divide(0, 1) <= 0
    <3>1. PICK D \in Nat : Double(1) \div Unit = D /\ D # 0
      BY DoubleIs
    <3>2. 0 * Unit = 0 /\ 0 * D = 0 /\ 0 <= 2 * Exactly
      BY UnitIs, DoubleAssumption
    <3>3. Representable(0)
      <4>1. Representable(0 * Unit)
        BY <3>2, SmallAmount
      <4> QED
        BY <3>2, <4>1
    <3>4. Double(0) = 0
      BY <3>2, <3>3, Exact DEF Double
    <3>5. Divide(0, 1) = Fl(0, D)
      BY <3>1, <3>4 DEF Divide
    <3> QED
      BY <3>1, <3>2, <3>3, <3>5, NotAbove, RoundedType
  <2> QED
    BY <2>1
<1> QED
  BY <1>1 DEF Init, QuotaInv

\* What is asked for is a share, and the fraction its quotient.
Asked == meant' \in Nat \X Nat /\ fraction' = Divide(meant'[1], meant'[2])

LEMMA SetFractionAsks == SetFraction => Asked
<1>1. ASSUME NEW p \in Percent, fraction' = Divide(p, 100), meant' = <<p, 100>>
      PROVE  Asked
  BY <1>1, QuotaAssumption DEF Asked
<1>2. ASSUME NEW s \in Thirds, fraction' = Divide(s[1], s[2]), meant' = s
      PROVE  Asked
  BY <1>2, QuotaAssumption DEF Asked
<1> QED
  BY <1>1, <1>2 DEF SetFraction

LEMMA AllotAsks ==
  ASSUME NEW max \in Nat, NEW allotted \in Nat, Allot(max, allotted)
  PROVE  Asked
BY DEF Allot, Asked

LEMMA NextQuota == QuotaInv /\ [Next]_vars => QuotaInv'
<1> SUFFICES ASSUME QuotaInv, [Next]_vars PROVE QuotaInv'
  OBVIOUS
<1>1. CASE Construct
  <2>1. bytes' \in Nat /\ method' \in RoundingMethod /\ text' = text
    BY <1>1, QuotaAssumption DEF Construct
  <2>2. Asked
    <3>1. ASSUME NEW a \in 0 .. Limit, Allot(bytes', a) PROVE Asked
      BY <2>1, <3>1, AllotAsks, QuotaAssumption
    <3> QED
      BY <1>1, <3>1, SetFractionAsks DEF Construct
  <2> QED
    BY <2>1, <2>2 DEF QuotaInv, Asked
<1>2. CASE SetShare
  BY <1>2, SetFractionAsks DEF SetShare, QuotaInv, Asked
<1>3. CASE Set
  BY <1>3, QuotaAssumption DEF Set, QuotaInv
<1>4. CASE SetRoundingMethod
  BY <1>4 DEF SetRoundingMethod, QuotaInv
<1>5. CASE Reallot
  <2>1. Asked
    BY <1>5, GetIs, AllotAsks DEF Reallot, QuotaInv
  <2> QED
    BY <1>5, <2>1 DEF Reallot, QuotaInv, Asked
<1>6. CASE Nest
  <2>1. Asked /\ Get \in Nat
    BY <1>6, GetIs, SetFractionAsks DEF Nest
  <2> QED
    BY <1>6, <2>1 DEF Nest, QuotaInv, Asked
<1>7. CASE PrintText
  <2>1. PICK parts \in Parts : text' = GetStr(parts)
    BY <1>7 DEF PrintText
  <2>2. text' \in Text
    BY <1>7, <2>1, GetIs, GetStrIs DEF PrintText
  <2> QED
    BY <1>7, <2>2 DEF PrintText, QuotaInv
<1>8. CASE ReadText
  <2>1. ParseBytes(text) \in Nat
    BY <1>8, ParseBytesIs DEF ReadText, QuotaInv
  <2>2. Asked
    BY <1>8, <2>1, AllotAsks DEF ReadText, QuotaInv
  <2> QED
    BY <1>8, <2>2 DEF ReadText, QuotaInv, Asked
<1>9. CASE UNCHANGED vars
  BY <1>9 DEF vars, QuotaInv
<1> QED
  BY <1>1, <1>2, <1>3, <1>4, <1>5, <1>6, <1>7, <1>8, <1>9 DEF Next

\* The fraction is always the rounded quotient of the share that was asked for
\* last, however often a quota's value or text was allotted anew.
THEOREM FractionCorrect == Spec => []QuotaInv
BY InitQuota, NextQuota, PTL DEF Spec

\* The fraction is a double, and finite unless it was computed for a maximum of
\* no bytes.
THEOREM TypeCorrect == Spec => []TypeOK
<1>1. QuotaInv => TypeOK
  <2> SUFFICES ASSUME QuotaInv PROVE TypeOK
    OBVIOUS
  <2>1. /\ meant[1] \in Nat /\ meant[2] \in Nat
        /\ fraction = Divide(meant[1], meant[2])
    BY DEF QuotaInv
  <2>2. meant[2] # 0 => fraction \in Nat /\ fraction = Fl(fraction, 1)
    BY <2>1, DivideIs
  <2>3. meant[2] = 0 => fraction = NotFinite
    BY <2>1, DivideIs
  <2> QED
    BY <2>2, <2>3 DEF QuotaInv, TypeOK, NotFinite, Defined
<1> QED
  BY <1>1, FractionCorrect, PTL

\* No share of at most all exceeds the maximum, up to amounts of 2 ^ 53 bytes:
\* neither the rounding of the quotient, nor that of the product, nor that to
\* whole bytes, up included, adds a byte.
THEOREM WithinMaxCorrect == Spec => []WithinMax
<1>1. QuotaInv => WithinMax
  BY GetIs DEF WithinMax
<1> QED
  BY <1>1, FractionCorrect, PTL

\* The value is the share that was asked for, rounded, or a byte next to that: the
\* quotient is off by less than a byte's share, the product by half a byte more,
\* and rounding both shares to whole bytes leaves a byte between them at most.
\* Up to half the amounts, a share of whole bytes is off by less than half a byte
\* before it is rounded to the nearest.
THEOREM NearMeantCorrect == Spec => []NearMeant
<1>1. QuotaInv => NearMeant
  <2> SUFFICES ASSUME QuotaInv PROVE NearMeant
    OBVIOUS
  <2> SUFFICES ASSUME Constructed, Defined,
                      NEW n, NEW d, n = meant[1], d = meant[2],
                      n <= d, bytes <= 2 * Exactly, Held(n), Held(d)
               PROVE  /\ Get - Wanted(n * bytes, d) \in -1 .. 1
                      /\ bytes <= Exactly /\ method = "NEAREST" /\ (n * bytes) % d = 0
                           => Get * d = n * bytes
    <3>1. bytes \in Nat /\ Exactly \in Nat
      BY DoubleAssumption DEF QuotaInv
    <3>2. bytes <= Exactly => bytes <= 2 * Exactly
      BY <3>1
    <3> QED
      BY <3>2 DEF NearMeant
  <2>1. /\ bytes \in Nat /\ n \in Nat /\ d \in Nat
        /\ fraction = Divide(n, d) /\ fraction # NotFinite
        /\ method \in RoundingMethod
    BY DEF QuotaInv, Constructed, Defined
  <2>2. d \in Nat \ {0} /\ fraction \in Nat
    BY <2>1, DivideIs
  <2>3. PICK z \in Nat : z = Times(bytes, fraction)
    BY <2>1, <2>2, TimesIs
  <2>4. Get = Round(z, method)
    BY <2>3 DEF Get
  <2>5. n * bytes \in Nat /\ Unit \in Nat \ {0}
    BY <2>1, UnitIs
  <2>6. Get - Wanted(n * bytes, d) \in -1 .. 1
    <3>1. z * d <= (n * bytes) * Unit + Unit * d /\ (n * bytes) * Unit <= z * d + Unit * d
      BY <2>1, <2>2, <2>3, TimesNear
    <3> QED
      BY <2>1, <2>2, <2>4, <2>5, <3>1, RoundNear
  <2>7. ASSUME bytes <= Exactly, method = "NEAREST", (n * bytes) % d = 0
        PROVE  Get * d = n * bytes
    <3>1. PICK a \in Nat : n * bytes = a * d
      BY <2>2, <2>5, <2>7, Multiples
    <3>2. 2 * z < 2 * (a * Unit) + Unit /\ 2 * (a * Unit) < 2 * z + Unit
      BY <2>1, <2>2, <2>3, <2>7, <3>1, TimesWhole
    <3>3. a * (2 * Unit) = 2 * (a * Unit) /\ a * Unit \in Nat
      BY <2>5
    <3>4. PICK s \in 0 .. 2 * Unit - 1 : 2 * z + Unit = a * (2 * Unit) + s
      <4>1. 2 * z + Unit - 2 * (a * Unit) \in 0 .. 2 * Unit - 1
        BY <2>5, <3>2, <3>3
      <4> QED
        BY <2>5, <3>3, <4>1
    <3>5. 2 * Unit \in Nat \ {0}
      BY <2>5
    <3>6. (a * (2 * Unit) + s) \div (2 * Unit) = a
      BY <3>5, Quotient
    <3>7. Get = a
      BY <2>4, <2>7, <3>4, <3>6 DEF Round
    <3> QED
      BY <3>1, <3>7
  <2> QED
    BY <2>6, <2>7
<1> QED
  BY <1>1, FractionCorrect, PTL

\* Inductive: the text is one that was printed, of the value as it is, or of one
\* that the value was allotted from.
TextInv ==
  text # NoText =>
    /\ Constructed
    /\ \E parts \in Parts :
         /\ \E v \in Nat : text = Str(v, parts)
         /\ GetStr(parts) = text \/ meant = <<ParseBytes(text), bytes>>

LEMMA NextText == QuotaInv /\ TextInv /\ [Next]_vars => TextInv'
<1> SUFFICES ASSUME QuotaInv, TextInv, [Next]_vars PROVE TextInv'
  OBVIOUS
<1>1. ASSUME text' = NoText PROVE TextInv'
  BY <1>1 DEF TextInv
<1>2. ASSUME UNCHANGED <<bytes, fraction, method>>, NEW parts
      PROVE  GetStr(parts)' = GetStr(parts)
  BY <1>2 DEF GetStr, Get
<1>3. CASE Construct
  <2>1. text = NoText /\ text' = text
    BY <1>3 DEF Construct, TextInv, Constructed
  <2> QED
    BY <1>1, <2>1
<1>4. CASE SetShare \/ Set \/ SetRoundingMethod \/ Reallot \/ Nest
  BY <1>1, <1>4 DEF SetShare, Set, SetRoundingMethod, Reallot, Nest
<1>5. CASE PrintText
  <2>1. PICK parts \in Parts : text' = GetStr(parts)
    BY <1>5 DEF PrintText
  <2>2. PICK v \in Nat : v = Get
    BY <1>5, GetIs DEF PrintText
  <2>3. GetStr(parts) = Str(v, parts)
    BY <2>2 DEF GetStr, Str, Index
  <2>4. Constructed' /\ GetStr(parts)' = GetStr(parts)
    BY <1>2, <1>5 DEF PrintText, Constructed
  <2> QED
    BY <2>1, <2>3, <2>4 DEF TextInv
<1>6. CASE ReadText
  <2>1. /\ text # NoText /\ text' = text /\ bytes' = bytes /\ method' = method
        /\ meant' = <<ParseBytes(text), bytes>>
    BY <1>6 DEF ReadText, Allot
  <2>2. PICK s : s = text
    OBVIOUS
  <2>3. text' = s /\ meant' = <<ParseBytes(s), bytes'>>
    BY <2>1, <2>2
  <2>4. /\ Constructed'
        /\ \E parts \in Parts : \E v \in Nat : s = Str(v, parts)
    BY <2>1, <2>2 DEF TextInv, Constructed
  <2> QED
    BY <2>3, <2>4 DEF TextInv
<1>7. CASE UNCHANGED vars
  <2>1. UNCHANGED <<bytes, fraction, method, meant, text>>
    BY <1>7 DEF vars
  <2>2. \A parts \in Parts : GetStr(parts)' = GetStr(parts)
    BY <1>2, <2>1
  <2> QED
    BY <2>1, <2>2 DEF TextInv, Constructed
<1> QED
  BY <1>3, <1>4, <1>5, <1>6, <1>7 DEF Next

\* Reading back and rounding in any way gives the value that was read or a byte
\* next to it, and exactly it if doubles count beyond it twice.
LEMMA GetBack ==
  ASSUME QuotaInv, Defined, Constructed, bytes <= Exactly,
         NEW p \in Nat, p <= Exactly, meant = <<p, bytes>>
  PROVE  /\ Get \in Nat /\ Get <= p + 1 /\ p <= Get + 1
         /\ method = "NEAREST" => Get = p \/ Exactly < 2 * p
<1>1. bytes \in Nat /\ fraction = Divide(p, bytes) /\ method \in RoundingMethod
  BY DEF QuotaInv, Constructed
<1>2. bytes \in Nat \ {0}
  BY <1>1, DivideIs DEF Defined
<1>3. PICK z \in Nat : z = Times(bytes, fraction)
  BY <1>1, <1>2, DivideIs, TimesIs
<1>4. PICK n : n = (2 * z + Unit) \div (2 * Unit)
  OBVIOUS
<1>5. /\ z <= p * Unit + Unit /\ p * Unit <= z + Unit
      /\ n = p \/ Exactly < 2 * p
  BY <1>1, <1>2, <1>3, <1>4, ReadBack
<1>6. Get = Round(z, method) /\ Get \in Nat
  BY <1>3, GetIs DEF Get
<1>7. method = "NEAREST" => Get = n
  BY <1>4, <1>6 DEF Round
<1>8. Round(z, method) - Wanted(p, 1) \in -1 .. 1
  <2>1. 1 \in Nat \ {0} /\ Unit \in Nat /\ z * 1 = z /\ Unit * 1 = Unit
    BY UnitIs
  <2> QED
    BY <1>1, <1>5, <2>1, RoundNear
<1>9. Wanted(p, 1) = p
  <2>1. 1 \in Nat \ {0} /\ 2 \in Nat \ {0} /\ p * 2 + 1 = 2 * p + 1 /\ p * 1 + 0 = p
    OBVIOUS
  <2>2. (p * 2 + 1) \div 2 = p /\ (p * 1 + 0) \div 1 = p
    BY <2>1, Quotient
  <2> QED
    BY <1>1, <2>1, <2>2 DEF Wanted, RoundingMethod
<1> QED
  BY <1>5, <1>6, <1>7, <1>8, <1>9

\* A printed value that is read back is printed the same, for every maximum and
\* value up to half of those that doubles tell apart, a value above its maximum
\* included, every precision whose last digit counts four bytes or more, and all
\* ways of rounding; rounded down or up, only with a prefix and a mantissa that is
\* not 1.  Either doubles count beyond the value twice, and rounding to the nearest
\* meets it exactly, or the text has too few digits to tell a byte more or less,
\* and no prefix begins there.
THEOREM TextStableCorrect == Spec => []TextStable
<1>1. Init => TextInv
  BY DEF Init, TextInv
<1>2. QuotaInv /\ TextInv => TextStable
  <2> SUFFICES ASSUME QuotaInv, TextInv PROVE TextStable
    OBVIOUS
  <2> SUFFICES ASSUME text # NoText, Defined, bytes <= Exactly, ParseBytes(text) <= Exactly,
                      InPrefix(text), Coarse(text),
                      method = "NEAREST" \/ HidesByte(text)
               PROVE  GetStr(text[3]) = text
    BY DEF TextStable
  <2>1. PICK parts \in Parts, v \in Nat :
          /\ text = Str(v, parts)
          /\ GetStr(parts) = text \/ meant = <<ParseBytes(text), bytes>>
    BY DEF TextInv
  <2>2. text[3] = parts /\ parts \in Nat \ {0}
    BY <2>1, QuotaAssumption DEF Str
  <2>3. CASE meant = <<ParseBytes(text), bytes>>
    <3>1. PICK p \in Nat : p = ParseBytes(text)
      BY ParseBytesIs DEF QuotaInv
    <3>2. /\ Get \in Nat /\ Get <= p + 1 /\ p <= Get + 1
          /\ method = "NEAREST" => Get = p \/ Exactly < 2 * p
      BY <2>3, <3>1, GetBack DEF TextInv
    <3>3. PICK g \in Nat : g = Get
      BY <3>2
    <3>4. Str(g, parts) = text
      BY <2>1, <2>2, <3>1, <3>2, <3>3, StrKept
    <3>5. GetStr(parts) = Str(g, parts)
      BY <3>3 DEF GetStr, Str, Index
    <3> QED
      BY <2>2, <3>3, <3>4, <3>5
  <2> QED
    BY <2>1, <2>2, <2>3
<1> QED
  BY <1>1, <1>2, NextText, FractionCorrect, PTL DEF Spec
=============================================================================
