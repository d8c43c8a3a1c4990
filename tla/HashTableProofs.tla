--------------------------- MODULE HashTableProofs ---------------------------
(***************************************************************************)
(* Proofs about HashTable: the entry array and the index agree, and lookup *)
(* finds what is stored, for tables of any size.                           *)
(***************************************************************************)
EXTENDS HashTable, TLAPS, FiniteSetTheorems, WellFoundedInduction

-----------------------------------------------------------------------------
(* Numbers.                                                                *)

\* Every set of numbers that is not empty has a least member.
LEMMA LeastMember ==
    ASSUME NEW M \in SUBSET Nat, M # {}
    PROVE  \E n \in M : \A m \in M : n <= m
<1>1. PICK n \in M : \A m \in M : ~(<<m, n>> \in OpToRel(<, Nat))
    BY WFMin, NatLessThanWellFounded
<1>2. \A m \in M : ~(m < n)
    BY <1>1 DEF OpToRel
<1>. QED BY <1>2

\* Min is that member.
LEMMA MinFacts ==
    ASSUME NEW M \in SUBSET Nat, M # {}
    PROVE  Min(M) \in M /\ \A m \in M : Min(M) <= m
    BY LeastMember DEF Min

\* A set that holds 0 and, with a number, the next one holds every number.
LEMMA InductionInSet ==
    ASSUME NEW S, 0 \in S, \A n \in Nat : n \in S => n + 1 \in S
    PROVE  \A n \in Nat : n \in S
<1>. DEFINE M == {n \in Nat : n \notin S}
<1>1. SUFFICES ASSUME M # {} PROVE FALSE
    OBVIOUS
<1>2. M \in SUBSET Nat
    OBVIOUS
<1>3. PICK n \in M : \A m \in M : n <= m
    BY <1>1, <1>2, LeastMember
<1>4. n \in Nat /\ n \notin S
    BY <1>3
<1>5. n # 0
    BY <1>4
<1>6. n - 1 \in Nat /\ n - 1 + 1 = n /\ ~(n <= n - 1)
    BY <1>4, <1>5
<1>7. n - 1 \notin M
    BY <1>3, <1>6
<1>8. n - 1 \in S
    BY <1>6, <1>7
<1>. QED BY <1>4, <1>6, <1>8

\* The first n + 1 powers of two
Sol(g, n) == g = [b \in 0 .. n |-> IF b = 0 THEN 1 ELSE 2 * g[b - 1]]

\* The recursion of a shift has a solution.
LEMMA ShiftExists == \A n \in Nat : \E g : Sol(g, n)
<1>. DEFINE S == {n \in Nat : \E g : Sol(g, n)}
<1>1. 0 \in S
  <2>. DEFINE g == [b \in 0 .. 0 |-> 1]
  <2>1. Sol(g, 0)
      BY DEF Sol
  <2>. QED BY <2>1
<1>2. ASSUME NEW n \in Nat, n \in S PROVE n + 1 \in S
  <2>1. PICK g : Sol(g, n)
      BY <1>2
  <2>. DEFINE f == [b \in 0 .. n + 1 |-> IF b <= n THEN g[b] ELSE 2 * g[n]]
  <2>2. ASSUME NEW b \in 0 .. n + 1 PROVE f[b] = IF b = 0 THEN 1 ELSE 2 * f[b - 1]
    <3>1. CASE b = 0
        BY <2>1, <3>1 DEF Sol
    <3>2. CASE b # 0 /\ b <= n
      <4>1. b \in 0 .. n /\ b - 1 \in 0 .. n + 1 /\ b - 1 <= n
          BY <3>2
      <4>2. f[b] = g[b] /\ f[b - 1] = g[b - 1]
          BY <3>2, <4>1
      <4>3. g[b] = 2 * g[b - 1]
          BY <2>1, <3>2, <4>1 DEF Sol
      <4>. QED BY <3>2, <4>2, <4>3
    <3>3. CASE b = n + 1
      <4>1. b - 1 = n /\ n \in 0 .. n + 1 /\ b # 0 /\ ~(n + 1 <= n)
          BY <3>3
      <4>2. f[n] = g[n] /\ f[n + 1] = 2 * g[n]
          BY <4>1
      <4>. QED BY <3>3, <4>1, <4>2
    <3>. QED BY <3>1, <3>2, <3>3
  <2>3. f = [b \in 0 .. n + 1 |-> IF b = 0 THEN 1 ELSE 2 * f[b - 1]]
      BY <2>2
  <2>. HIDE DEF f
  <2>4. Sol(f, n + 1)
      BY <2>3 DEF Sol
  <2>. QED BY <2>4
<1>. HIDE DEF S
<1>3. \A n \in Nat : n \in S
    BY <1>1, <1>2, InductionInSet
<1>. QED BY <1>3 DEF S

\* Two solutions agree where both are defined.
LEMMA ShiftUnique ==
    ASSUME NEW m \in Nat, NEW n \in Nat, NEW f, NEW g, Sol(f, m), Sol(g, n)
    PROVE  \A b \in Nat : b <= m /\ b <= n => f[b] = g[b]
<1>. DEFINE S == {b \in Nat : b <= m /\ b <= n => f[b] = g[b]}
<1>1. \A b \in 0 .. m : f[b] = IF b = 0 THEN 1 ELSE 2 * f[b - 1]
    BY DEF Sol
<1>2. \A b \in 0 .. n : g[b] = IF b = 0 THEN 1 ELSE 2 * g[b - 1]
    BY DEF Sol
<1>3. 0 \in S
    BY <1>1, <1>2
<1>4. ASSUME NEW b \in Nat, b \in S PROVE b + 1 \in S
  <2>. SUFFICES ASSUME b + 1 <= m, b + 1 <= n PROVE f[b + 1] = g[b + 1]
      OBVIOUS
  <2>1. b + 1 \in 0 .. m /\ b + 1 \in 0 .. n /\ b + 1 # 0 /\ b + 1 - 1 = b /\ b <= m /\ b <= n
      OBVIOUS
  <2>2. f[b] = g[b]
      BY <1>4, <2>1
  <2>3. f[b + 1] = 2 * f[b]
      BY <1>1, <2>1
  <2>4. g[b + 1] = 2 * g[b]
      BY <1>2, <2>1
  <2>. QED BY <2>2, <2>3, <2>4
<1>. HIDE DEF S
<1>5. \A b \in Nat : b \in S
    BY <1>3, <1>4, InductionInSet
<1>. QED BY <1>5 DEF S

\* What a shift is.
LEMMA Shift_ ==
    \A n \in Nat : ib_bit_to_capa[n] = IF n = 0 THEN 1 ELSE 2 * ib_bit_to_capa[n - 1]
<1>. DEFINE F(n) == CHOOSE g : Sol(g, n)
            f == [n \in Nat |-> F(n)[n]]
<1>1. \A n \in Nat : Sol(F(n), n)
    BY ShiftExists
<1>. HIDE DEF F
<1>2. \A n \in Nat : f[n] = IF n = 0 THEN 1 ELSE 2 * f[n - 1]
  <2>. SUFFICES ASSUME NEW n \in Nat PROVE f[n] = IF n = 0 THEN 1 ELSE 2 * f[n - 1]
      OBVIOUS
  <2>1. F(n) = [b \in 0 .. n |-> IF b = 0 THEN 1 ELSE 2 * F(n)[b - 1]]
      BY <1>1 DEF Sol
  <2>2. f[n] = F(n)[n] /\ F(n)[n] = IF n = 0 THEN 1 ELSE 2 * F(n)[n - 1]
      BY <2>1
  <2>3. CASE n # 0
    <3>1. n - 1 \in Nat /\ n - 1 <= n /\ n - 1 <= n - 1
        BY <2>3
    <3>2. Sol(F(n - 1), n - 1) /\ Sol(F(n), n)
        BY <1>1, <3>1
    <3>3. F(n - 1)[n - 1] = F(n)[n - 1]
        BY <3>1, <3>2, ShiftUnique
    <3>4. f[n - 1] = F(n - 1)[n - 1]
        BY <3>1
    <3>. QED BY <2>2, <2>3, <3>3, <3>4
  <2>. QED BY <2>2, <2>3
<1>3. f = [n \in Nat |-> IF n = 0 THEN 1 ELSE 2 * f[n - 1]]
    BY <1>2
<1>. HIDE DEF f
<1>4. \E g : g = [n \in Nat |-> IF n = 0 THEN 1 ELSE 2 * g[n - 1]]
    BY <1>3
<1>5. ib_bit_to_capa = [n \in Nat |-> IF n = 0 THEN 1 ELSE 2 * ib_bit_to_capa[n - 1]]
    BY <1>4 DEF ib_bit_to_capa
<1>. QED BY <1>5

\* The next power of two
LEMMA ShiftNext ==
    /\ ib_bit_to_capa[0] = 1
    /\ \A n \in Nat : ib_bit_to_capa[n + 1] = 2 * ib_bit_to_capa[n]
<1>1. \A n \in Nat : n + 1 \in Nat /\ n + 1 # 0 /\ n + 1 - 1 = n
    OBVIOUS
<1>. QED BY <1>1, Shift_

LEMMA ShiftType == \A n \in Nat : ib_bit_to_capa[n] \in Nat /\ ib_bit_to_capa[n] > 0
<1>. DEFINE S == {n \in Nat : ib_bit_to_capa[n] \in Nat /\ ib_bit_to_capa[n] > 0}
<1>1. 0 \in S
    BY ShiftNext
<1>2. ASSUME NEW n \in Nat, n \in S PROVE n + 1 \in S
    BY <1>2, ShiftNext
<1>. HIDE DEF S
<1>3. \A n \in Nat : n \in S
    BY <1>1, <1>2, InductionInSet
<1>. QED BY <1>3 DEF S

\* The index has eight buckets or more from three bits on.
LEMMA ShiftEight == \A n \in Nat : n >= 3 => ib_bit_to_capa[n] >= 8
<1>. DEFINE S == {n \in Nat : n >= 3 => ib_bit_to_capa[n] >= 8}
<1>1. 0 \in S
    OBVIOUS
<1>2. ASSUME NEW n \in Nat, n \in S PROVE n + 1 \in S
  <2>1. ib_bit_to_capa[n + 1] = 2 * ib_bit_to_capa[n] /\ ib_bit_to_capa[n] \in Nat
      BY ShiftNext, ShiftType
  <2>2. CASE n >= 3
      BY <1>2, <2>1, <2>2
  <2>3. CASE n = 2
    <3>1. ib_bit_to_capa[1] = 2
        BY ShiftNext
    <3>2. ib_bit_to_capa[2] = 4
        BY <3>1, ShiftNext
    <3>. QED BY <2>1, <2>3, <3>2
  <2>4. CASE n < 2
      BY <2>4
  <2>. QED BY <2>2, <2>3, <2>4
<1>. HIDE DEF S
<1>3. \A n \in Nat : n \in S
    BY <1>1, <1>2, InductionInSet
<1>. QED BY <1>3 DEF S

-----------------------------------------------------------------------------
(* The probe sequence visits every bucket.                                 *)

\* A product with an odd factor that is divisible by a power of two
LEMMA OddFactor ==
    \A n, x, y, m \in Nat : (2 * x + 1) * y = m * ib_bit_to_capa[n] => \E k \in Nat : y = k * ib_bit_to_capa[n]
<1>. DEFINE P(i) == \A x, y, m \in Nat : (2 * x + 1) * y = m * ib_bit_to_capa[i]
                                          => \E k \in Nat : y = k * ib_bit_to_capa[i]
            S == {i \in Nat : P(i)}
<1>1. 0 \in S
  <2>1. ib_bit_to_capa[0] = 1
      BY ShiftNext
  <2>2. \A y \in Nat : y = y * 1
      OBVIOUS
  <2>3. P(0)
      BY <2>1, <2>2
  <2>. QED BY <2>3
<1>2. ASSUME NEW i \in Nat, i \in S PROVE i + 1 \in S
  <2>1. P(i)
      BY <1>2
  <2>2. PICK c \in Nat : c = ib_bit_to_capa[i]
      BY ShiftType
  <2>3. ib_bit_to_capa[i + 1] = 2 * c
      BY <2>2, ShiftNext
  <2>4. ASSUME NEW x \in Nat, NEW y \in Nat, NEW m \in Nat, (2 * x + 1) * y = m * (2 * c)
        PROVE  \E k \in Nat : y = k * (2 * c)
    <3>1. PICK z \in Nat : y = 2 * z \/ y = 2 * z + 1
      <4>1. y = 2 * (y \div 2) + (y % 2) /\ y % 2 \in 0 .. 1 /\ y \div 2 \in Nat
          OBVIOUS
      <4>. QED BY <4>1
    <3>2. (2 * x + 1) * y = 2 * (x * y) + y /\ x * y \in Nat /\ m * (2 * c) = 2 * (m * c) /\ m * c \in Nat
        OBVIOUS
    <3>3. PICK u \in Nat : u = x * y
        BY <3>2
    <3>4. PICK v \in Nat : v = m * c
        BY <3>2
    <3>5. 2 * u + y = 2 * v
        BY <2>4, <3>2, <3>3, <3>4
    <3>6. y = 2 * z
        BY <3>1, <3>5
    <3>7. (2 * x + 1) * z = m * c
      <4>1. 2 * ((2 * x + 1) * z) = (2 * x + 1) * (2 * z)
          OBVIOUS
      <4>2. 2 * (m * c) = m * (2 * c)
          OBVIOUS
      <4>3. (2 * x + 1) * z \in Nat /\ m * c \in Nat
          OBVIOUS
      <4>. QED BY <2>4, <3>6, <4>1, <4>2, <4>3
    <3>8. PICK k \in Nat : z = k * c
        BY <2>1, <2>2, <3>7
    <3>9. y = k * (2 * c)
        BY <3>6, <3>8
    <3>. QED BY <3>9
  <2>5. P(i + 1)
    <3>. SUFFICES ASSUME NEW x \in Nat, NEW y \in Nat, NEW m \in Nat, (2 * x + 1) * y = m * ib_bit_to_capa[i + 1]
                  PROVE  \E k \in Nat : y = k * ib_bit_to_capa[i + 1]
        OBVIOUS
    <3>1. (2 * x + 1) * y = m * (2 * c)
        BY <2>3
    <3>2. \E k \in Nat : y = k * (2 * c)
        BY <2>4, <3>1, ZenonT(60)
    <3>. QED BY <2>3, <3>2
  <2>. QED BY <2>5
<1>. HIDE DEF S
<1>3. \A n \in Nat : n \in S
    BY <1>1, <1>2, InductionInSet
<1>4. \A n \in Nat : P(n)
    BY <1>3 DEF S
<1>. QED BY <1>4

\* A number is even or odd.
LEMMA EvenOdd == \A n \in Nat : \E k \in Nat : n = 2 * k \/ n = 2 * k + 1
<1>. SUFFICES ASSUME NEW n \in Nat PROVE \E k \in Nat : n = 2 * k \/ n = 2 * k + 1
    OBVIOUS
<1>1. n = 2 * (n \div 2) + (n % 2) /\ n % 2 \in 0 .. 1 /\ n \div 2 \in Nat
    OBVIOUS
<1>. QED BY <1>1

\* A triangular number, doubled
LEMMA Triangle == \A s \in Nat : (s * s + s) \div 2 \in Nat /\ 2 * ((s * s + s) \div 2) = s * s + s
<1>. SUFFICES ASSUME NEW s \in Nat
              PROVE  (s * s + s) \div 2 \in Nat /\ 2 * ((s * s + s) \div 2) = s * s + s
    OBVIOUS
<1>1. PICK k \in Nat : s = 2 * k \/ s = 2 * k + 1
    BY EvenOdd
<1>2. \E t \in Nat : s * s + s = 2 * t
  <2>1. CASE s = 2 * k
    <3>1. s * s + s = 2 * (k * s + k) /\ k * s + k \in Nat
        BY <2>1
    <3>. QED BY <3>1
  <2>2. CASE s = 2 * k + 1
    <3>1. s * s + s = s * (s + 1) /\ s + 1 = 2 * (k + 1)
        BY <2>2
    <3>2. s * (2 * (k + 1)) = 2 * (s * (k + 1)) /\ s * (k + 1) \in Nat
        OBVIOUS
    <3>. QED BY <3>1, <3>2
  <2>. QED BY <1>1, <2>1, <2>2
<1>3. PICK t \in Nat : s * s + s = 2 * t
    BY <1>2
<1>4. (2 * t) \div 2 = t
    OBVIOUS
<1>. QED BY <1>3, <1>4

\* Equal remainders differ by a multiple.
LEMMA SameRemainder ==
    ASSUME NEW a \in Nat, NEW b \in Nat, NEW c \in Nat, c > 0, a < b, a % c = b % c
    PROVE  \E m \in Nat : b - a = m * c
<1>1. a = c * (a \div c) + (a % c) /\ a \div c \in Int /\ a % c \in Int
    OBVIOUS
<1>2. b = c * (b \div c) + (b % c) /\ b \div c \in Int /\ b % c \in Int
    OBVIOUS
<1>3. PICK p \in Int : p = a \div c
    BY <1>1
<1>4. PICK q \in Int : q = b \div c
    BY <1>2
<1>5. b - a = (q - p) * c
    BY <1>1, <1>2, <1>3, <1>4
<1>6. q - p >= 0
  <2>. SUFFICES ASSUME q - p < 0 PROVE FALSE
      OBVIOUS
  <2>1. (q - p) * c <= 0
      OBVIOUS
  <2>. QED BY <1>5, <2>1
<1>. QED BY <1>5, <1>6

\* No bucket stands twice among the steps of a probe.
LEMMA ProbeInjective ==
    ASSUME NEW b \in Nat, NEW x \in Nat, NEW s \in Nat, NEW r \in Nat, s < r, r < ib_bit_to_capa[b]
    PROVE  (x + (s * s + s) \div 2) % ib_bit_to_capa[b] # (x + (r * r + r) \div 2) % ib_bit_to_capa[b]
<1>1. PICK c \in Nat : c = ib_bit_to_capa[b] /\ c > 0
    BY ShiftType
<1>2. ib_bit_to_capa[b + 1] = 2 * c
    BY <1>1, ShiftNext
<1>3. PICK u \in Nat : u = (s * s + s) \div 2 /\ 2 * u = s * s + s
    BY Triangle
<1>4. PICK v \in Nat : v = (r * r + r) \div 2 /\ 2 * v = r * r + r
    BY Triangle
<1>5. SUFFICES ASSUME (x + u) % c = (x + v) % c PROVE FALSE
    BY <1>1, <1>3, <1>4
<1>6. r * r + r - (s * s + s) = (r - s) * (r + s + 1)
    OBVIOUS
<1>7. PICK d \in Nat : d = r - s /\ d > 0
    OBVIOUS
<1>8. PICK e \in Nat : e = r + s + 1 /\ e > 0
    OBVIOUS
<1>9. 2 * (v - u) = d * e
    BY <1>3, <1>4, <1>6, <1>7, <1>8
<1>10. d * e > 0
  <2>1. PICK k \in Nat : d = k + 1
      BY <1>7
  <2>2. d * e = k * e + e /\ k * e \in Nat
      BY <2>1
  <2>. QED BY <1>8, <2>2
<1>11. u < v
    BY <1>9, <1>10
<1>12. PICK m \in Nat : (x + v) - (x + u) = m * c
  <2>1. PICK p \in Nat : p = x + u
      OBVIOUS
  <2>2. PICK q \in Nat : q = x + v
      OBVIOUS
  <2>3. p < q /\ c > 0
      BY <1>1, <1>11, <2>1, <2>2
  <2>4. p % c = q % c
      BY <1>5, <2>1, <2>2
  <2>5. \E m \in Nat : q - p = m * c
      BY ONLY p \in Nat, q \in Nat, c \in Nat, <2>3, <2>4, SameRemainder
  <2>. QED BY <2>1, <2>2, <2>5
<1>13. d * e = m * (2 * c)
  <2>1. v - u = m * c
      BY <1>12
  <2>2. 2 * (m * c) = m * (2 * c)
      OBVIOUS
  <2>. QED BY <1>9, <2>1, <2>2
<1>14. d < 2 * c /\ e < 2 * c
    BY <1>1, <1>7, <1>8
<1>15. ASSUME NEW k \in Nat, NEW y \in Nat, y > 0, y < 2 * c, y = k * (2 * c) PROVE FALSE
  <2>1. k # 0
      BY <1>15
  <2>2. k * (2 * c) >= 2 * c
      BY <2>1
  <2>. QED BY <1>15, <2>2
<1>16. PICK z \in Nat : d = 2 * z \/ d = 2 * z + 1
    BY EvenOdd
<1>17. CASE d = 2 * z + 1
  <2>1. (2 * z + 1) * e = m * ib_bit_to_capa[b + 1]
      BY <1>2, <1>13, <1>17
  <2>2. b + 1 \in Nat
      OBVIOUS
  <2>3. PICK k \in Nat : e = k * ib_bit_to_capa[b + 1]
      BY <2>1, <2>2, OddFactor
  <2>4. e = k * (2 * c)
      BY <1>2, <2>3
  <2>5. e > 0
      BY <1>8
  <2>. QED BY <1>14, <1>15, <2>4, <2>5
<1>18. CASE d = 2 * z
  <2>1. e = 2 * (z + s) + 1 /\ z + s \in Nat
      BY <1>7, <1>8, <1>18
  <2>2. PICK w \in Nat : w = z + s
      BY <2>1
  <2>3. (2 * w + 1) * d = m * ib_bit_to_capa[b + 1]
    <3>1. (2 * w + 1) * d = d * e
        BY <2>1, <2>2
    <3>. QED BY <1>2, <1>13, <3>1
  <2>4. b + 1 \in Nat
      OBVIOUS
  <2>5. PICK k \in Nat : d = k * ib_bit_to_capa[b + 1]
      BY <2>3, <2>4, OddFactor
  <2>6. d = k * (2 * c)
      BY <1>2, <2>5
  <2>. QED BY <1>7, <1>14, <1>15, <2>6
<1>. QED BY <1>16, <1>17, <1>18

\* The slots 0 to n - 1 are n.
LEMMA SlotsCount == \A n \in Nat : IsFiniteSet(0 .. n - 1) /\ Cardinality(0 .. n - 1) = n
<1>. SUFFICES ASSUME NEW n \in Nat PROVE IsFiniteSet(0 .. n - 1) /\ Cardinality(0 .. n - 1) = n
    OBVIOUS
<1>1. 0 \in Int /\ n - 1 \in Int
    OBVIOUS
<1>. QED BY <1>1, FS_Interval

\* Every bucket stands among them.
LEMMA ProbeReaches ==
    ASSUME NEW b \in Nat, NEW x \in Nat, NEW p \in 0 .. ib_bit_to_capa[b] - 1
    PROVE  \E s \in 0 .. ib_bit_to_capa[b] - 1 : (x + (s * s + s) \div 2) % ib_bit_to_capa[b] = p
<1>1. PICK c \in Nat : c = ib_bit_to_capa[b] /\ c > 0
    BY ShiftType
<1>. DEFINE D == 0 .. c - 1
            At(s) == (x + (s * s + s) \div 2) % c
            f == [s \in D |-> At(s)]
<1>2. \A s \in D : At(s) \in D
  <2>. SUFFICES ASSUME NEW s \in D PROVE At(s) \in D
      OBVIOUS
  <2>1. PICK u \in Nat : u = (s * s + s) \div 2
      BY Triangle
  <2>2. (x + u) % c \in 0 .. c - 1
      BY <1>1
  <2>. QED BY <2>1, <2>2
<1>3. \A s, r \in D : s < r => At(s) # At(r)
  <2>. SUFFICES ASSUME NEW s \in D, NEW r \in D, s < r PROVE At(s) # At(r)
      OBVIOUS
  <2>1. s \in Nat /\ r \in Nat /\ r < ib_bit_to_capa[b]
      BY <1>1
  <2>2. (x + (s * s + s) \div 2) % ib_bit_to_capa[b] # (x + (r * r + r) \div 2) % ib_bit_to_capa[b]
      BY <2>1, ProbeInjective
  <2>. QED BY <1>1, <2>2
<1>. HIDE DEF At
<1>4. f \in Injection(D, D)
  <2>1. f \in [D -> D]
      BY <1>2
  <2>2. ASSUME NEW s \in D, NEW r \in D, f[s] = f[r] PROVE s = r
    <3>1. s \in Int /\ r \in Int
        BY <1>1
    <3>2. At(s) = At(r)
        BY <2>2
    <3>. QED BY <1>3, <3>1, <3>2
  <2>. HIDE DEF f
  <2>. QED BY <2>1, <2>2 DEF Injection, IsInjective
<1>5. IsFiniteSet(D)
    BY <1>1, SlotsCount
<1>6. f \in Surjection(D, D)
    BY <1>4, <1>5, FS_Injection
<1>7. \E s \in D : f[s] = p
    BY <1>1, <1>6 DEF Surjection
<1>. QED BY <1>1, <1>7 DEF At

-----------------------------------------------------------------------------
(* Members of a set of slots in their order.                               *)

\* Sets of slots are finite.
LEMMA SlotsFinite ==
    ASSUME NEW n \in Nat, NEW A \in SUBSET (0 .. n - 1)
    PROVE  /\ IsFiniteSet(A) /\ Cardinality(A) \in Nat /\ Cardinality(A) <= n
           /\ (Cardinality(A) = n => A = 0 .. n - 1)
<1>1. IsFiniteSet(0 .. n - 1) /\ Cardinality(0 .. n - 1) = n
    BY FS_Interval
<1>. QED BY <1>1, FS_Subset, FS_CardinalityType

\* The rank counts up with the members.
LEMMA RankFacts ==
    ASSUME NEW n \in Nat, NEW A \in SUBSET (0 .. n - 1)
    PROVE  /\ \A i \in Nat : Rank(A, i) \in Nat /\ Rank(A, i) <= Cardinality(A) /\ Rank(A, i) <= i
           /\ \A i \in A : Rank(A, i) < Cardinality(A)
           /\ \A i \in A, j \in Nat : i < j => Rank(A, i) < Rank(A, j)
           /\ \A i \in Nat : (\A j \in A : j < i) => Rank(A, i) = Cardinality(A)
<1>. DEFINE Below(i) == {j \in A : j < i}
<1>1. IsFiniteSet(A) /\ Cardinality(A) \in Nat
    BY SlotsFinite
<1>. A \subseteq Nat
    OBVIOUS
<1>2. ASSUME NEW i \in Nat
      PROVE  IsFiniteSet(Below(i)) /\ Rank(A, i) \in Nat /\ Rank(A, i) <= Cardinality(A) /\ Rank(A, i) <= i
  <2>. \A j \in Below(i) : j \in 0 .. i - 1
      OBVIOUS
  <2>1. Below(i) \in SUBSET A /\ Below(i) \in SUBSET (0 .. i - 1)
      OBVIOUS
  <2>2. Cardinality(Below(i)) <= i
      BY <2>1, SlotsFinite
  <2>3. IsFiniteSet(Below(i)) /\ Cardinality(Below(i)) <= Cardinality(A)
      BY <1>1, <2>1, FS_Subset
  <2>. QED BY <2>2, <2>3, FS_CardinalityType DEF Rank
<1>3. ASSUME NEW i \in A PROVE Rank(A, i) < Cardinality(A)
  <2>1. Below(i) \in SUBSET A /\ Below(i) # A /\ i \in Nat
      OBVIOUS
  <2>2. Cardinality(Below(i)) # Cardinality(A)
      BY <1>1, <2>1, FS_Subset
  <2>. QED BY <1>1, <1>2, <2>1, <2>2 DEF Rank
<1>4. ASSUME NEW i \in A, NEW j \in Nat, i < j PROVE Rank(A, i) < Rank(A, j)
  <2>1. i \in Nat /\ \A k \in Below(i) : k \in A /\ k < j
      BY <1>4
  <2>2. Below(i) \in SUBSET Below(j) /\ i \in Below(j) /\ i \notin Below(i) /\ i \in Nat
    <3>1. Below(i) \in SUBSET Below(j)
        BY <2>1
    <3>2. i \in Below(j) /\ i \notin Below(i)
        BY <1>4, <2>1
    <3>. QED BY <2>1, <3>1, <3>2
  <2>3. IsFiniteSet(Below(j))
      BY <1>2
  <2>4. Cardinality(Below(i)) <= Cardinality(Below(j)) /\ Cardinality(Below(i)) # Cardinality(Below(j))
      BY <2>2, <2>3, FS_Subset
  <2>. QED BY <1>2, <2>2, <2>4 DEF Rank
<1>5. ASSUME NEW i \in Nat, \A j \in A : j < i PROVE Rank(A, i) = Cardinality(A)
  <2>1. Below(i) = A
      BY <1>5
  <2>. QED BY <2>1 DEF Rank
<1>. QED BY <1>2, <1>3, <1>4, <1>5

\* The list of the members is sorted and complete.
LEMMA InOrderFacts ==
    ASSUME NEW n \in Nat, NEW A \in SUBSET (0 .. n - 1)
    PROVE  /\ \A m \in 1 .. Cardinality(A) : InOrder(A)[m] \in A /\ Rank(A, InOrder(A)[m]) = m - 1
                                             /\ m - 1 <= InOrder(A)[m]
           /\ \A i \in A : Rank(A, i) + 1 \in 1 .. Cardinality(A) /\ InOrder(A)[Rank(A, i) + 1] = i
<1>. DEFINE c == Cardinality(A)
            f == [i \in A |-> Rank(A, i)]
<1>1. IsFiniteSet(A) /\ c \in Nat
    BY SlotsFinite
<1>. A \subseteq Nat
    OBVIOUS
<1>2. /\ \A i \in Nat : Rank(A, i) \in Nat /\ Rank(A, i) <= c /\ Rank(A, i) <= i
      /\ \A i \in A : Rank(A, i) < c
      /\ \A i \in A, j \in Nat : i < j => Rank(A, i) < Rank(A, j)
    BY RankFacts
<1>. HIDE DEF c
<1>3. \A i \in A : i \in Nat /\ Rank(A, i) \in 0 .. c - 1
    BY <1>2, <1>1
<1>4. \A i, j \in A : Rank(A, i) = Rank(A, j) => i = j
  <2>. SUFFICES ASSUME NEW i \in A, NEW j \in A, i # j PROVE Rank(A, i) # Rank(A, j)
      OBVIOUS
  <2>1. i \in Nat /\ j \in Nat /\ (i < j \/ j < i) /\ Rank(A, i) \in Nat /\ Rank(A, j) \in Nat
      BY <1>3
  <2>2. CASE i < j
      BY <1>2, <2>1, <2>2
  <2>3. CASE j < i
      BY <1>2, <2>1, <2>3
  <2>. QED BY <2>1, <2>2, <2>3
<1>5. f \in Injection(A, 0 .. c - 1)
    BY <1>3, <1>4 DEF Injection, IsInjective
<1>6. IsFiniteSet(0 .. c - 1) /\ Cardinality(0 .. c - 1) = c
    BY <1>1, SlotsCount
<1>7. f \in Surjection(A, 0 .. c - 1)
    BY <1>5, <1>6, FS_Injection DEF c
<1>8. \A k \in 0 .. c - 1 : \E i \in A : Rank(A, i) = k
    BY <1>7 DEF Surjection
<1>9. ASSUME NEW m \in 1 .. c
      PROVE  InOrder(A)[m] \in A /\ Rank(A, InOrder(A)[m]) = m - 1 /\ m - 1 <= InOrder(A)[m]
  <2>1. \E i \in A : Rank(A, i) = m - 1
    <3>1. m - 1 \in 0 .. c - 1
        BY <1>1
    <3>. QED BY <1>8, <3>1
  <2>2. InOrder(A)[m] = CHOOSE i \in A : Rank(A, i) = m - 1
      BY DEF InOrder, c
  <2>3. InOrder(A)[m] \in A /\ Rank(A, InOrder(A)[m]) = m - 1
      BY <2>1, <2>2
  <2>. QED BY <1>2, <1>3, <2>3
<1>10. ASSUME NEW i \in A PROVE Rank(A, i) + 1 \in 1 .. c /\ InOrder(A)[Rank(A, i) + 1] = i
  <2>1. Rank(A, i) + 1 \in 1 .. c /\ Rank(A, i) + 1 - 1 = Rank(A, i)
      BY <1>1, <1>3
  <2>2. PICK m \in 1 .. c : m = Rank(A, i) + 1
      BY <2>1
  <2>3. InOrder(A)[m] \in A /\ Rank(A, InOrder(A)[m]) = m - 1
      BY <1>9
  <2>4. Rank(A, InOrder(A)[m]) = Rank(A, i)
    <3>1. Rank(A, i) \in Int
        BY <1>3
    <3>2. m - 1 = Rank(A, i)
        BY <2>2, <3>1
    <3>. QED BY <2>3, <3>2
  <2>5. InOrder(A)[m] = i
      BY <1>4, <2>3, <2>4
  <2>. QED BY <2>1, <2>2, <2>5
<1>. QED BY <1>9, <1>10 DEF c

\* An earlier place in the list is a smaller slot.
LEMMA InOrderSorted ==
    ASSUME NEW n \in Nat, NEW A \in SUBSET (0 .. n - 1),
           NEW l \in 1 .. Cardinality(A), NEW m \in 1 .. Cardinality(A), l < m
    PROVE  InOrder(A)[l] < InOrder(A)[m]
<1>. DEFINE x == InOrder(A)[l]
            y == InOrder(A)[m]
<1>1. x \in A /\ y \in A /\ Rank(A, x) = l - 1 /\ Rank(A, y) = m - 1
    BY InOrderFacts
<1>. A \subseteq Nat
    OBVIOUS
<1>. HIDE DEF x, y
<1>2. x \in Nat /\ y \in Nat /\ l \in Int /\ m \in Int
    BY <1>1
<1>3. ~(x = y)
    BY <1>1, <1>2
<1>4. ~(y < x)
  <2>. SUFFICES ASSUME y < x PROVE FALSE
      OBVIOUS
  <2>1. Rank(A, y) < Rank(A, x)
      BY <1>1, <1>2, RankFacts
  <2>. QED BY <1>1, <1>2, <2>1
<1>5. x < y
    BY <1>2, <1>3, <1>4
<1>. QED BY <1>5 DEF x, y

-----------------------------------------------------------------------------
(* The invariant.                                                          *)

Fields == {"ht", "size", "used", "capa", "bit", "ea", "ib", "tbl", "ea_at"}
Slot == {Vacant} \cup [key : Key, val : Val]

Shape(t) ==
    /\ DOMAIN t = Fields
    /\ t.ht \in BOOLEAN /\ t.used \in Nat /\ t.capa \in Nat /\ t.bit \in Nat
    /\ t.ea \in [Slots(t) -> Slot]

\* The entry array of a table, whatever its index
Entries(t) ==
    /\ Shape(t)
    /\ t.used <= t.capa /\ t.used <= EA_MAX_CAPA
    /\ \A i \in Active(t) : i < t.used
    /\ t.size = Cardinality(Active(t))

Taken(t) == {p \in 0 .. ib_capa(t) - 1 : t.ib[p] # EmptyValue(t)}

\* The index of the first n slots: no slot has two buckets, an active one has
\* one, no bucket holds another slot, and not more than n buckets are taken.
Index(t, n) ==
    /\ t.bit >= 3 /\ n <= DeletedValue(t)
    /\ t.ib \in [0 .. ib_capa(t) - 1 -> 0 .. ib_capa(t) - 1]
    /\ \A p \in 0 .. ib_capa(t) - 1 : t.ib[p] < DeletedValue(t) => t.ib[p] < n
    /\ \A p, q \in 0 .. ib_capa(t) - 1 : t.ib[p] < DeletedValue(t) /\ t.ib[p] = t.ib[q] => p = q
    /\ \A i \in Active(t) : i < n => \E p \in 0 .. ib_capa(t) - 1 : t.ib[p] = i
    /\ Cardinality(Taken(t)) <= n

Small(t) == t.capa <= AR_MAX_SIZE /\ t.tbl = t.ea_at

Good(t) == Entries(t) /\ (t.ht => Index(t, t.used)) /\ (~t.ht => Small(t))

\* No two entries have equal keys,
Distinct(t) == \A i, j \in Active(t) : content[t.ea[i].key] = content[t.ea[j].key] => i = j

\* and the probe of an entry's key meets its bucket before any empty one.
OnProbe(t, i) ==
    \E s \in Steps(t) : /\ Bucket(t, t.ea[i].key, s) = i
                        /\ \A g \in Steps(t) : g < s => Bucket(t, t.ea[i].key, g) # EmptyValue(t)
Reachable(t, n) == \A i \in Active(t) : i < n => OnProbe(t, i)

Keyed(t) == Distinct(t) /\ (t.ht => Reachable(t, t.used))

\* What the iteration remembers is what it saw when it took the snapshot.
IterFields == {"on", "pos", "end", "left", "at", "key", "got", "chk", "calls"}
Watching ==
    it.on => /\ DOMAIN it = IterFields
             /\ it.pos \in Nat /\ it.end \in Nat /\ it.pos < it.end
             /\ it.end = it.chk[4] /\ it.at = IF it.chk[1] THEN it.chk[6] ELSE it.chk[3]

HInv ==
    /\ content \in [Key -> Key] /\ stale \in BOOLEAN /\ it.on \in BOOLEAN
    /\ Good(h) /\ (~stale => Keyed(h)) /\ Watching

-----------------------------------------------------------------------------
(* What the assumption says of the sizes, and of slots.                    *)

LEMMA SizeFacts ==
    /\ AR_DEFAULT_CAPA \in Nat /\ AR_DEFAULT_CAPA > 0
    /\ AR_MAX_SIZE \in Nat /\ AR_MAX_SIZE >= 3 /\ AR_DEFAULT_CAPA <= AR_MAX_SIZE
    /\ IB_INIT_BIT \in Nat /\ IB_INIT_BIT >= 3
    /\ EA_INCREASE \in Nat /\ EA_INCREASE > 0
    /\ EA_MAX_INCREASE \in Nat /\ EA_MAX_INCREASE > 0
    /\ EA_MAX_CAPA \in Nat /\ EA_MAX_CAPA > 0
    BY HashAssumption

\* A slot that holds a pair is not vacant.
LEMMA SlotFacts ==
    /\ Vacant \in Slot
    /\ \A k \in Key, v \in Val : [key |-> k, val |-> v] \in Slot /\ [key |-> k, val |-> v] # Vacant
    /\ \A e \in Slot : e # Vacant => DOMAIN e = {"key", "val"} /\ e.key \in Key /\ e.val \in Val
    /\ \A e \in Slot, v \in Val : e # Vacant => /\ [e EXCEPT !.val = v] \in Slot
                                                /\ [e EXCEPT !.val = v] # Vacant
                                                /\ [e EXCEPT !.val = v].key = e.key
<1>1. Vacant \in Slot
    BY DEF Slot
<1>2. \A k \in Key, v \in Val : [key |-> k, val |-> v] \in Slot /\ [key |-> k, val |-> v] # Vacant
  <2>. SUFFICES ASSUME NEW k \in Key, NEW v \in Val
                PROVE  [key |-> k, val |-> v] \in Slot /\ [key |-> k, val |-> v] # Vacant
      OBVIOUS
  <2>1. k # NULL
      BY HashAssumption
  <2>2. [key |-> k, val |-> v].key = k /\ Vacant.key = NULL
      BY DEF Vacant
  <2>3. [key |-> k, val |-> v] \in [key : Key, val : Val]
      OBVIOUS
  <2>4. [key |-> k, val |-> v] # Vacant
      BY <2>1, <2>2
  <2>. QED BY <2>3, <2>4 DEF Slot
<1>3. \A e \in Slot : e # Vacant => e \in [key : Key, val : Val]
    BY DEF Slot
<1>4. \A e \in [key : Key, val : Val] : DOMAIN e = {"key", "val"} /\ e.key \in Key /\ e.val \in Val
    OBVIOUS
<1>5. \A e \in [key : Key, val : Val], v \in Val :
         [e EXCEPT !.val = v] \in [key : Key, val : Val] /\ [e EXCEPT !.val = v].key = e.key
    OBVIOUS
<1>6. \A e \in [key : Key, val : Val] : e # Vacant
  <2>. SUFFICES ASSUME NEW e \in [key : Key, val : Val] PROVE e # Vacant
      OBVIOUS
  <2>1. e.key \in Key /\ Vacant.key = NULL /\ NULL \notin Key
      BY HashAssumption DEF Vacant
  <2>. QED BY <2>1
<1>7. [key : Key, val : Val] \subseteq Slot
    BY DEF Slot
<1>8. \A e \in Slot : e # Vacant => DOMAIN e = {"key", "val"} /\ e.key \in Key /\ e.val \in Val
    BY <1>3, <1>4
<1>9. \A e \in Slot, v \in Val : e # Vacant => /\ [e EXCEPT !.val = v] \in Slot
                                                /\ [e EXCEPT !.val = v] # Vacant
                                                /\ [e EXCEPT !.val = v].key = e.key
  <2>. SUFFICES ASSUME NEW e \in Slot, NEW v \in Val, e # Vacant
                PROVE  /\ [e EXCEPT !.val = v] \in Slot
                       /\ [e EXCEPT !.val = v] # Vacant
                       /\ [e EXCEPT !.val = v].key = e.key
      OBVIOUS
  <2>1. e \in [key : Key, val : Val]
      BY <1>3
  <2>2. [e EXCEPT !.val = v] \in [key : Key, val : Val] /\ [e EXCEPT !.val = v].key = e.key
      BY <1>5, <2>1
  <2>. QED BY <1>6, <1>7, <2>2
<1>. QED BY <1>1, <1>2, <1>8, <1>9

\* The active slots of a table
LEMMA ActiveFacts ==
    ASSUME NEW t, Shape(t)
    PROVE  /\ Active(t) \in SUBSET (0 .. t.capa - 1)
           /\ IsFiniteSet(Active(t)) /\ Cardinality(Active(t)) \in Nat
           /\ \A i \in Active(t) : i \in Nat /\ i < t.capa /\ t.ea[i] \in Slot /\ t.ea[i] # Vacant /\ t.ea[i].key \in Key
           /\ \A i \in Nat : i < t.capa /\ t.ea[i] # Vacant => i \in Active(t)
<1>1. Active(t) \in SUBSET (0 .. t.capa - 1) /\ t.capa \in Nat
    BY DEF Active, Slots, Shape
<1>2. IsFiniteSet(Active(t)) /\ Cardinality(Active(t)) \in Nat
    BY <1>1, SlotsFinite
<1>3. ASSUME NEW i \in Active(t)
      PROVE  i \in Nat /\ i < t.capa /\ t.ea[i] \in Slot /\ t.ea[i] # Vacant /\ t.ea[i].key \in Key
  <2>1. i \in 0 .. t.capa - 1 /\ t.ea[i] # Vacant
      BY DEF Active, Slots
  <2>2. t.ea[i] \in Slot
      BY <2>1 DEF Shape, Slots
  <2>. QED BY <1>1, <2>1, <2>2, SlotFacts
<1>4. \A i \in Nat : i < t.capa /\ t.ea[i] # Vacant => i \in Active(t)
    BY <1>1 DEF Active, Slots
<1>. QED BY <1>1, <1>2, <1>3, <1>4

\* Every visit of the first `size` entries sees all of them.
LEMMA VisitedAll ==
    ASSUME NEW t, Entries(t) PROVE Visited(t, t.size) = Active(t)
<1>1. t.size = Cardinality(Active(t)) /\ Cardinality(Active(t)) \in Nat
    BY ActiveFacts DEF Entries
<1>. QED BY <1>1 DEF Visited

LEMMA ListFacts ==
    ASSUME NEW t, Shape(t)
    PROVE  /\ \A m \in 1 .. Cardinality(Active(t)) : /\ ActiveList(t)[m] \in Active(t)
                                                     /\ m - 1 <= ActiveList(t)[m]
           /\ \A l, m \in 1 .. Cardinality(Active(t)) : l < m => ActiveList(t)[l] < ActiveList(t)[m]
           /\ \A i \in Active(t) : \E m \in 1 .. Cardinality(Active(t)) : ActiveList(t)[m] = i
<1>1. PICK n \in Nat : n = t.capa
    BY DEF Shape
<1>2. PICK A \in SUBSET (0 .. n - 1) : A = Active(t)
    BY <1>1, ActiveFacts
<1>3. /\ \A m \in 1 .. Cardinality(A) : InOrder(A)[m] \in A /\ Rank(A, InOrder(A)[m]) = m - 1
                                        /\ m - 1 <= InOrder(A)[m]
      /\ \A i \in A : Rank(A, i) + 1 \in 1 .. Cardinality(A) /\ InOrder(A)[Rank(A, i) + 1] = i
    BY InOrderFacts
<1>4. \A l, m \in 1 .. Cardinality(A) : l < m => InOrder(A)[l] < InOrder(A)[m]
    BY InOrderSorted
<1>5. \A i \in A : \E m \in 1 .. Cardinality(A) : InOrder(A)[m] = i
    BY <1>3
<1>6. ActiveList(t) = InOrder(A)
    BY <1>2 DEF ActiveList
<1>. QED BY <1>2, <1>3, <1>4, <1>5, <1>6

-----------------------------------------------------------------------------
(* The index: probes and gaps.                                             *)

\* Sizes of an index
LEMMA CapaFacts ==
    ASSUME NEW b \in Nat, b >= 3
    PROVE  LET c == ib_bit_to_capa[b]
           IN  c \in Nat /\ c >= 8 /\ ib_upper_bound_for(c) \in Nat /\ ib_upper_bound_for(c) <= c - 2
<1>1. PICK c \in Nat : c = ib_bit_to_capa[b] /\ c >= 8
    BY ShiftType, ShiftEight
<1>2. (3 * c) \div 4 \in Nat /\ (3 * c) \div 4 <= c - 2
    BY <1>1
<1>. QED BY <1>1, <1>2 DEF ib_upper_bound_for

LEMMA ProbeType ==
    ASSUME NEW t, t.bit \in Nat, NEW k \in Key, content \in [Key -> Key], NEW s \in Nat
    PROVE  Probe(t, k, s) \in 0 .. ib_capa(t) - 1
<1>1. PICK c \in Nat : c = ib_bit_to_capa[t.bit] /\ c > 0
    BY ShiftType
<1>2. PICK x \in Nat : x = HashOf[content[k]]
    BY HashAssumption
<1>3. PICK u \in Nat : u = (s * s + s) \div 2
    BY Triangle
<1>4. (x + u) % c \in 0 .. c - 1
    BY <1>1
<1>. QED BY <1>1, <1>2, <1>3, <1>4 DEF Probe, ib_capa

\* The probe of a key comes to every bucket,
LEMMA ProbeOnto ==
    ASSUME NEW t, t.bit \in Nat, NEW k \in Key, content \in [Key -> Key], NEW p \in 0 .. ib_capa(t) - 1
    PROVE  \E s \in Steps(t) : Probe(t, k, s) = p
<1>1. PICK x \in Nat : x = HashOf[content[k]]
    BY HashAssumption
<1>2. \E s \in 0 .. ib_bit_to_capa[t.bit] - 1 : (x + (s * s + s) \div 2) % ib_bit_to_capa[t.bit] = p
    BY ProbeReaches DEF ib_capa
<1>. QED BY <1>1, <1>2 DEF Probe, Steps, ib_capa

\* and to no bucket twice.
LEMMA ProbeOnce ==
    ASSUME NEW t, t.bit \in Nat, NEW k \in Key, content \in [Key -> Key],
           NEW s \in Steps(t), NEW r \in Steps(t), Probe(t, k, s) = Probe(t, k, r)
    PROVE  s = r
<1>1. PICK x \in Nat : x = HashOf[content[k]]
    BY HashAssumption
<1>2. s \in Nat /\ r \in Nat /\ s < ib_bit_to_capa[t.bit] /\ r < ib_bit_to_capa[t.bit]
    BY ShiftType DEF Steps, ib_capa
<1>3. (x + (s * s + s) \div 2) % ib_bit_to_capa[t.bit] = (x + (r * r + r) \div 2) % ib_bit_to_capa[t.bit]
    BY <1>1 DEF Probe, ib_capa
<1>4. ~(s < r)
    BY <1>2, <1>3, ProbeInjective
<1>5. ~(r < s)
    BY <1>2, <1>3, ProbeInjective
<1>. QED BY <1>2, <1>4, <1>5

\* Keys of equal content share their probe.
LEMMA ProbeSame ==
    ASSUME NEW t, NEW k, NEW l, content[k] = content[l]
    PROVE  \A s : Probe(t, k, s) = Probe(t, l, s)
    BY DEF Probe

\* An index with room has a gap on every probe.
LEMMA GapExists ==
    ASSUME NEW t, t.bit \in Nat, NEW k \in Key, content \in [Key -> Key],
           Cardinality(Taken(t)) < ib_capa(t)
    PROVE  /\ Gaps(t, k) # {} /\ Min(Gaps(t, k)) \in Gaps(t, k)
           /\ \A s \in Steps(t) : s < Min(Gaps(t, k)) => s \notin Gaps(t, k)
<1>1. PICK c \in Nat : c = ib_capa(t)
    BY ShiftType DEF ib_capa
<1>2. PICK p \in 0 .. c - 1 : t.ib[p] = EmptyValue(t)
  <2>1. Taken(t) # 0 .. c - 1
      BY <1>1, SlotsCount
  <2>. QED BY <1>1, <2>1 DEF Taken
<1>3. PICK s \in Steps(t) : Probe(t, k, s) = p
    BY <1>1, ProbeOnto
<1>4. s \in Gaps(t, k)
    BY <1>2, <1>3 DEF Gaps, Bucket
<1>5. Gaps(t, k) \in SUBSET Nat
    BY <1>1 DEF Gaps, Steps
<1>6. Min(Gaps(t, k)) \in Gaps(t, k) /\ \A g \in Gaps(t, k) : Min(Gaps(t, k)) <= g
    BY <1>4, <1>5, MinFacts
<1>7. \A r \in Steps(t) : r < Min(Gaps(t, k)) => r \notin Gaps(t, k)
  <2>. SUFFICES ASSUME NEW r \in Steps(t), r < Min(Gaps(t, k)), r \in Gaps(t, k) PROVE FALSE
      OBVIOUS
  <2>1. PICK m \in Nat : m = Min(Gaps(t, k))
      BY <1>5, <1>6
  <2>2. r \in Nat /\ m <= r /\ r < m
      BY <1>5, <1>6, <2>1
  <2>. QED BY <2>2
<1>. QED BY <1>4, <1>6, <1>7

\* An index as numbers: c buckets, slots below n
LEMMA IndexFacts ==
    ASSUME NEW t, NEW n \in Nat, t.bit \in Nat, Index(t, n)
    PROVE  /\ ib_capa(t) \in Nat /\ ib_capa(t) >= 8 /\ ib_upper_bound_for(ib_capa(t)) \in Nat
           /\ ib_upper_bound_for(ib_capa(t)) <= ib_capa(t) - 2
           /\ EmptyValue(t) = ib_capa(t) - 1 /\ DeletedValue(t) = ib_capa(t) - 2
           /\ Cardinality(Taken(t)) < ib_capa(t) /\ IsFiniteSet(Taken(t)) /\ Cardinality(Taken(t)) \in Nat
<1>1. ib_capa(t) \in Nat /\ ib_capa(t) >= 8 /\ ib_upper_bound_for(ib_capa(t)) \in Nat
      /\ ib_upper_bound_for(ib_capa(t)) <= ib_capa(t) - 2
    BY CapaFacts DEF Index, ib_capa
<1>2. Taken(t) \in SUBSET (0 .. ib_capa(t) - 1)
    BY DEF Taken
<1>3. IsFiniteSet(Taken(t)) /\ Cardinality(Taken(t)) \in Nat
    BY <1>1, <1>2, SlotsFinite
<1>4. Cardinality(Taken(t)) <= n /\ n <= ib_capa(t) - 2
    BY DEF Index, DeletedValue
<1>. QED BY <1>1, <1>3, <1>4 DEF EmptyValue, DeletedValue

\* Taking the first gap on the probe of k for slot n extends the index to n + 1.
LEMMA PutIndex ==
    ASSUME NEW t, NEW u, NEW n \in Nat, NEW k \in Key, content \in [Key -> Key],
           t.bit \in Nat, u.bit = t.bit, Index(t, n), n + 1 <= DeletedValue(t),
           u.ib = [t.ib EXCEPT ![Probe(t, k, Min(Gaps(t, k)))] = n],
           \A i \in Active(u) : i \in Nat /\ (i < n => i \in Active(t))
    PROVE  Index(u, n + 1)
<1>1. PICK c \in Nat : c = ib_capa(t) /\ c >= 8
    BY IndexFacts
<1>2. ib_capa(u) = c /\ EmptyValue(t) = c - 1 /\ EmptyValue(u) = c - 1
      /\ DeletedValue(t) = c - 2 /\ DeletedValue(u) = c - 2
    BY <1>1 DEF ib_capa, EmptyValue, DeletedValue
<1>3. Min(Gaps(t, k)) \in Gaps(t, k)
    BY IndexFacts, GapExists
<1>4. PICK p \in 0 .. c - 1 : p = Probe(t, k, Min(Gaps(t, k))) /\ t.ib[p] = c - 1
  <2>1. Min(Gaps(t, k)) \in Nat /\ t.ib[Probe(t, k, Min(Gaps(t, k)))] = c - 1
      BY <1>1, <1>2, <1>3 DEF Gaps, Steps, Bucket
  <2>. QED BY <1>1, <2>1, ProbeType
<1>5. t.bit >= 3 /\ n + 1 <= c - 2 /\ n \in 0 .. c - 1 /\ n < c - 2
    BY <1>1, <1>2 DEF Index
<1>6. t.ib \in [0 .. c - 1 -> 0 .. c - 1]
    BY <1>1, <1>2 DEF Index
<1>7. \A q \in 0 .. c - 1 : t.ib[q] < c - 2 => t.ib[q] < n
    BY <1>1, <1>2 DEF Index
<1>8. \A q, r \in 0 .. c - 1 : t.ib[q] < c - 2 /\ t.ib[q] = t.ib[r] => q = r
    BY <1>1, <1>2 DEF Index
<1>9. \A i \in Active(t) : i < n => \E q \in 0 .. c - 1 : t.ib[q] = i
    BY <1>1, <1>2 DEF Index
<1>10. Cardinality(Taken(t)) <= n
    BY DEF Index
<1>11. u.ib = [t.ib EXCEPT ![p] = n]
    BY <1>4
<1>12. u.ib \in [0 .. c - 1 -> 0 .. c - 1] /\ u.ib[p] = n
      /\ \A q \in 0 .. c - 1 : q # p => u.ib[q] = t.ib[q]
    BY <1>5, <1>6, <1>11
<1>13. \A q \in 0 .. c - 1 : u.ib[q] < c - 2 => u.ib[q] < n + 1
  <2>. SUFFICES ASSUME NEW q \in 0 .. c - 1, u.ib[q] < c - 2 PROVE u.ib[q] < n + 1
      OBVIOUS
  <2>1. CASE q = p
      BY <1>12, <2>1
  <2>2. CASE q # p
    <3>1. u.ib[q] = t.ib[q]
        BY <1>12, <2>2
    <3>2. t.ib[q] \in 0 .. c - 1
        BY <1>6
    <3>3. t.ib[q] < n
        BY <1>7, <3>1
    <3>. QED BY <3>1, <3>2, <3>3
  <2>. QED BY <2>1, <2>2
<1>14. \A q, r \in 0 .. c - 1 : u.ib[q] < c - 2 /\ u.ib[q] = u.ib[r] => q = r
  <2>. SUFFICES ASSUME NEW q \in 0 .. c - 1, NEW r \in 0 .. c - 1, u.ib[q] < c - 2, u.ib[q] = u.ib[r]
                PROVE  q = r
      OBVIOUS
  <2>1. \A v \in 0 .. c - 1 : v # p => u.ib[v] # n
    <3>. SUFFICES ASSUME NEW v \in 0 .. c - 1, v # p, t.ib[v] = n PROVE FALSE
        BY <1>12
    <3>1. n < n
        BY <1>5, <1>7
    <3>. QED BY <3>1
  <2>2. CASE q = p
      BY <1>12, <2>1, <2>2
  <2>3. CASE q # p
    <3>1. r # p
        BY <1>12, <2>1, <2>3
    <3>. QED BY <1>8, <1>12, <2>3, <3>1
  <2>. QED BY <2>2, <2>3
<1>15. \A i \in Active(u) : i < n + 1 => \E q \in 0 .. c - 1 : u.ib[q] = i
  <2>. SUFFICES ASSUME NEW i \in Active(u), i < n + 1 PROVE \E q \in 0 .. c - 1 : u.ib[q] = i
      OBVIOUS
  <2>1. i \in Nat
      OBVIOUS
  <2>2. CASE i = n
      BY <1>12, <2>2
  <2>3. CASE i < n
    <3>1. PICK q \in 0 .. c - 1 : t.ib[q] = i
        BY <1>9, <2>3
    <3>2. q # p
      <4>1. i # c - 1
          BY <1>5, <2>1, <2>3
      <4>. QED BY <1>4, <3>1, <4>1
    <3>. QED BY <1>12, <3>1, <3>2
  <2>. QED BY <2>1, <2>2, <2>3
<1>16. Cardinality(Taken(u)) <= n + 1
  <2>1. Taken(u) = Taken(t) \cup {p}
    <3>1. \A q \in 0 .. c - 1 : q # p => (u.ib[q] # c - 1 <=> t.ib[q] # c - 1)
        BY <1>12
    <3>2. u.ib[p] # c - 1
        BY <1>5, <1>12
    <3>. QED BY <1>1, <1>2, <3>1, <3>2 DEF Taken
  <2>2. p \notin Taken(t)
      BY <1>1, <1>2, <1>4 DEF Taken
  <2>3. IsFiniteSet(Taken(t)) /\ Cardinality(Taken(t)) \in Nat
      BY IndexFacts
  <2>4. Cardinality(Taken(t) \cup {p}) = Cardinality(Taken(t)) + 1
      BY <2>2, <2>3, FS_AddElement
  <2>. QED BY <1>10, <2>1, <2>3, <2>4
<1>. QED BY <1>2, <1>5, <1>12, <1>13, <1>14, <1>15, <1>16 DEF Index

\* An entry stays on its probe while no bucket becomes empty and its own stays.
LEMMA StaysOnProbe ==
    ASSUME NEW t, NEW u, u.bit = t.bit, NEW i, OnProbe(t, i),
           content[u.ea[i].key] = content[t.ea[i].key],
           t.bit \in Nat, t.ea[i].key \in Key, content \in [Key -> Key],
           \A p \in 0 .. ib_capa(t) - 1 : t.ib[p] = i => u.ib[p] = i,
           \A p \in 0 .. ib_capa(t) - 1 : t.ib[p] # EmptyValue(t) => u.ib[p] # EmptyValue(t)
    PROVE  OnProbe(u, i)
<1>. DEFINE k == t.ea[i].key
            l == u.ea[i].key
<1>1. ib_capa(u) = ib_capa(t) /\ Steps(u) = Steps(t) /\ EmptyValue(u) = EmptyValue(t)
    BY DEF ib_capa, Steps, EmptyValue
<1>2. \A s : Probe(u, l, s) = Probe(t, k, s)
    BY <1>1 DEF Probe
<1>3. \A s \in Steps(t) : Probe(t, k, s) \in 0 .. ib_capa(t) - 1
  <2>. SUFFICES ASSUME NEW s \in Steps(t) PROVE Probe(t, k, s) \in 0 .. ib_capa(t) - 1
      OBVIOUS
  <2>1. s \in Nat
      BY ShiftType DEF Steps, ib_capa
  <2>. QED BY <2>1, ProbeType
<1>4. PICK s \in Steps(t) : /\ t.ib[Probe(t, k, s)] = i
                            /\ \A g \in Steps(t) : g < s => t.ib[Probe(t, k, g)] # EmptyValue(t)
    BY DEF OnProbe, Bucket
<1>5. u.ib[Probe(u, l, s)] = i
    BY <1>2, <1>3, <1>4
<1>6. \A g \in Steps(t) : g < s => u.ib[Probe(u, l, g)] # EmptyValue(t)
    BY <1>2, <1>3, <1>4
<1>. QED BY <1>1, <1>5, <1>6 DEF OnProbe, Bucket

\* The same for the entries' probes
LEMMA PutReach ==
    ASSUME NEW t, NEW u, NEW n \in Nat, NEW k \in Key, content \in [Key -> Key],
           t.bit \in Nat, u.bit = t.bit, Index(t, n), n + 1 <= DeletedValue(t),
           u.ib = [t.ib EXCEPT ![Probe(t, k, Min(Gaps(t, k)))] = n],
           \A i \in Active(u) : /\ i \in Nat
                                /\ i < n => /\ i \in Active(t) /\ t.ea[i].key \in Key
                                            /\ content[u.ea[i].key] = content[t.ea[i].key],
           n \in Active(u) => content[u.ea[n].key] = content[k],
           Reachable(t, n)
    PROVE  Reachable(u, n + 1)
<1>1. PICK c \in Nat : c = ib_capa(t) /\ c >= 8
    BY IndexFacts
<1>2. ib_capa(u) = c /\ EmptyValue(t) = c - 1 /\ EmptyValue(u) = c - 1 /\ Steps(u) = Steps(t)
      /\ DeletedValue(t) = c - 2 /\ DeletedValue(u) = c - 2
    BY <1>1 DEF ib_capa, EmptyValue, DeletedValue, Steps
<1>3. /\ Min(Gaps(t, k)) \in Gaps(t, k)
      /\ \A s \in Steps(t) : s < Min(Gaps(t, k)) => s \notin Gaps(t, k)
    BY IndexFacts, GapExists
<1>4. PICK p \in 0 .. c - 1 : p = Probe(t, k, Min(Gaps(t, k))) /\ t.ib[p] = c - 1
  <2>1. Min(Gaps(t, k)) \in Nat /\ t.ib[Probe(t, k, Min(Gaps(t, k)))] = c - 1
      BY <1>1, <1>2, <1>3 DEF Gaps, Steps, Bucket
  <2>. QED BY <1>1, <2>1, ProbeType
<1>5. t.ib \in [0 .. c - 1 -> 0 .. c - 1] /\ n + 1 <= c - 2
    BY <1>1, <1>2 DEF Index
<1>6. u.ib[p] = n /\ \A q \in 0 .. c - 1 : q # p => u.ib[q] = t.ib[q]
    BY <1>4, <1>5
<1>7. \A q \in 0 .. c - 1 : t.ib[q] # c - 1 => u.ib[q] # c - 1
    BY <1>4, <1>5, <1>6
<1>8. ASSUME NEW i \in Active(u), i < n PROVE OnProbe(u, i)
  <2>1. i \in Nat /\ i \in Active(t) /\ t.ea[i].key \in Key /\ content[u.ea[i].key] = content[t.ea[i].key]
      BY <1>8
  <2>2. OnProbe(t, i)
      BY <1>8, <2>1 DEF Reachable
  <2>3. \A q \in 0 .. c - 1 : t.ib[q] = i => u.ib[q] = i
    <3>. SUFFICES ASSUME NEW q \in 0 .. c - 1, t.ib[q] = i PROVE q # p
        BY <1>6
    <3>1. i # c - 1
        BY <1>5, <1>8, <2>1
    <3>. QED BY <1>4, <3>1
  <2>4. \A q \in 0 .. ib_capa(t) - 1 : t.ib[q] # EmptyValue(t) => u.ib[q] # EmptyValue(t)
      BY <1>1, <1>2, <1>7
  <2>5. \A q \in 0 .. ib_capa(t) - 1 : t.ib[q] = i => u.ib[q] = i
      BY <1>1, <2>3
  <2>. QED BY <2>1, <2>2, <2>4, <2>5, StaysOnProbe
<1>9. ASSUME n \in Active(u) PROVE OnProbe(u, n)
  <2>. DEFINE s == Min(Gaps(t, k))
              l == u.ea[n].key
  <2>1. \A g : Probe(u, l, g) = Probe(t, k, g)
      BY <1>1, <1>2, <1>9 DEF Probe
  <2>2. s \in Steps(t)
      BY <1>3 DEF Gaps
  <2>. HIDE DEF s
  <2>3. u.ib[Probe(u, l, s)] = n
      BY <1>4, <1>6, <2>1 DEF s
  <2>4. \A g \in Steps(t) : g < s => u.ib[Probe(u, l, g)] # c - 1
    <3>. SUFFICES ASSUME NEW g \in Steps(t), g < s PROVE u.ib[Probe(t, k, g)] # c - 1
        BY <2>1
    <3>1. t.ib[Probe(t, k, g)] # c - 1
        BY <1>2, <1>3 DEF Gaps, Bucket, s
    <3>2. g \in Nat
        BY <1>1 DEF Steps
    <3>3. Probe(t, k, g) \in 0 .. c - 1
        BY <1>1, <3>2, ProbeType
    <3>. QED BY <1>7, <3>1, <3>3
  <2>. QED BY <1>2, <2>2, <2>3, <2>4 DEF OnProbe, Bucket
<1>10. SUFFICES ASSUME NEW i \in Active(u), i < n + 1 PROVE OnProbe(u, i)
    BY DEF Reachable
<1>11. i < n \/ i = n
    BY <1>10
<1>. QED BY <1>8, <1>9, <1>11

-----------------------------------------------------------------------------
(* Building the index.                                                     *)

\* Two tables that differ in the index at most
Alike(r, t) ==
    /\ DOMAIN r = Fields
    /\ r.ht = t.ht /\ r.size = t.size /\ r.used = t.used /\ r.capa = t.capa /\ r.bit = t.bit
    /\ r.ea = t.ea /\ r.tbl = t.tbl /\ r.ea_at = t.ea_at

LEMMA AlikeActive == ASSUME NEW r, NEW t, Alike(r, t) PROVE Active(r) = Active(t) /\ Slots(r) = Slots(t)
    BY DEF Alike, Active, Slots

\* The recursion of ib_init()
Indexed(d, fresh, n) ==
    d = [m \in 0 .. n |-> IF m = 0 THEN fresh ELSE IndexEntry(d[m - 1], m - 1)]

LEMMA IndexedExists == ASSUME NEW fresh PROVE \A n \in Nat : \E d : Indexed(d, fresh, n)
<1>. DEFINE S == {n \in Nat : \E d : Indexed(d, fresh, n)}
<1>1. 0 \in S
  <2>. DEFINE d == [m \in 0 .. 0 |-> fresh]
  <2>1. Indexed(d, fresh, 0)
      BY DEF Indexed
  <2>. QED BY <2>1
<1>2. ASSUME NEW n \in Nat, n \in S PROVE n + 1 \in S
  <2>1. PICK d : Indexed(d, fresh, n)
      BY <1>2
  <2>. DEFINE f == [m \in 0 .. n + 1 |-> IF m <= n THEN d[m] ELSE IndexEntry(d[n], n)]
  <2>2. ASSUME NEW m \in 0 .. n + 1 PROVE f[m] = IF m = 0 THEN fresh ELSE IndexEntry(f[m - 1], m - 1)
    <3>1. CASE m = 0
        BY <2>1, <3>1 DEF Indexed
    <3>2. CASE m # 0 /\ m <= n
      <4>1. m \in 0 .. n /\ m - 1 \in 0 .. n + 1 /\ m - 1 <= n
          BY <3>2
      <4>2. f[m] = d[m] /\ f[m - 1] = d[m - 1]
          BY <3>2, <4>1
      <4>3. d[m] = IndexEntry(d[m - 1], m - 1)
          BY <2>1, <3>2, <4>1 DEF Indexed
      <4>. QED BY <3>2, <4>2, <4>3
    <3>3. CASE m = n + 1
      <4>1. m - 1 = n /\ n \in 0 .. n + 1 /\ m # 0 /\ ~(n + 1 <= n)
          BY <3>3
      <4>2. f[n] = d[n] /\ f[n + 1] = IndexEntry(d[n], n)
          BY <4>1
      <4>. QED BY <3>3, <4>1, <4>2
    <3>. QED BY <3>1, <3>2, <3>3
  <2>3. f = [m \in 0 .. n + 1 |-> IF m = 0 THEN fresh ELSE IndexEntry(f[m - 1], m - 1)]
      BY <2>2
  <2>. HIDE DEF f
  <2>4. Indexed(f, fresh, n + 1)
      BY <2>3 DEF Indexed
  <2>. QED BY <2>4
<1>. HIDE DEF S
<1>3. \A n \in Nat : n \in S
    BY <1>1, <1>2, InductionInSet
<1>. QED BY <1>3 DEF S

\* One entry is indexed.
LEMMA IndexEntryFacts ==
    ASSUME NEW t, NEW n \in Nat, content \in [Key -> Key], DOMAIN t = Fields, t.bit \in Nat,
           Index(t, n), Reachable(t, n), n + 1 <= DeletedValue(t), t.ea[n].key \in Key,
           \A i \in Active(t) : i \in Nat /\ t.ea[i].key \in Key
    PROVE  LET u == IndexEntry(t, n) IN Alike(u, t) /\ Index(u, n + 1) /\ Reachable(u, n + 1)
<1>. DEFINE u == IndexEntry(t, n)
            k == t.ea[n].key
<1>1. Alike(u, t) /\ u.ib = [t.ib EXCEPT ![Probe(t, k, Min(Gaps(t, k)))] = n]
    BY DEF IndexEntry, Alike, Fields
<1>2. u.bit = t.bit /\ u.ea = t.ea /\ Active(u) = Active(t)
    BY <1>1, AlikeActive DEF Alike
<1>. HIDE DEF u, k
<1>3. k \in Key
    BY DEF k
<1>4. Index(u, n + 1)
    BY <1>1, <1>2, <1>3, PutIndex
<1>5. Reachable(u, n + 1)
  <2>1. content[u.ea[n].key] = content[k]
      BY <1>2 DEF k
  <2>2. \A i \in Active(u) : i \in Nat /\ (i < n => /\ i \in Active(t) /\ t.ea[i].key \in Key
                                                    /\ content[u.ea[i].key] = content[t.ea[i].key])
      BY <1>2
  <2>. QED BY <1>1, <1>2, <1>3, <2>1, <2>2, PutReach
<1>. QED BY <1>1, <1>4, <1>5 DEF u

LEMMA ib_initFacts ==
    ASSUME NEW t, content \in [Key -> Key], DOMAIN t = Fields, t.bit \in Nat, t.bit >= 3, t.used \in Nat,
           t.used <= DeletedValue(t), \A i \in 0 .. t.used - 1 : t.ea[i].key \in Key,
           \A i \in Active(t) : i \in Nat /\ t.ea[i].key \in Key
    PROVE  Alike(ib_init(t), t) /\ Index(ib_init(t), t.used) /\ Reachable(ib_init(t), t.used)
<1>. DEFINE fresh == [t EXCEPT !.ib = [p \in 0 .. ib_capa(t) - 1 |-> EmptyValue(t)]]
            d == CHOOSE d : Indexed(d, fresh, t.used)
<1>1. Indexed(d, fresh, t.used)
    BY IndexedExists
<1>2. ib_init(t) = d[t.used]
    BY DEF ib_init, IndexUpTo, Indexed
<1>3. PICK c \in Nat : c = ib_capa(t) /\ c >= 8
    BY CapaFacts DEF ib_capa
<1>4. Alike(fresh, t) /\ fresh.ib = [p \in 0 .. c - 1 |-> EmptyValue(t)]
    BY <1>3 DEF Alike, Fields
<1>5. ib_capa(fresh) = c /\ EmptyValue(fresh) = c - 1 /\ DeletedValue(fresh) = c - 2
      /\ EmptyValue(t) = c - 1 /\ DeletedValue(t) = c - 2
    BY <1>3, <1>4 DEF ib_capa, EmptyValue, DeletedValue, Alike
<1>. HIDE DEF fresh, d
<1>6. Index(fresh, 0)
  <2>1. \A p \in 0 .. c - 1 : fresh.ib[p] = c - 1
      BY <1>4, <1>5
  <2>2. fresh.ib \in [0 .. c - 1 -> 0 .. c - 1]
      BY <1>3, <1>4, <1>5
  <2>3. Taken(fresh) = {}
      BY <1>5, <2>1 DEF Taken
  <2>4. Cardinality(Taken(fresh)) <= 0
      BY <2>3, FS_EmptySet
  <2>5. \A p \in 0 .. c - 1 : ~(fresh.ib[p] < c - 2)
      BY <2>1
  <2>6. \A i \in Active(fresh) : ~(i < 0)
      BY <1>4, AlikeActive
  <2>7. fresh.bit >= 3
      BY <1>4 DEF Alike
  <2>8. 0 <= c - 2
      BY <1>3
  <2>. QED BY <1>5, <2>2, <2>4, <2>5, <2>6, <2>7, <2>8 DEF Index
<1>7. Reachable(fresh, 0)
  <2>1. \A i \in Active(fresh) : ~(i < 0)
      BY <1>4, AlikeActive
  <2>. QED BY <2>1 DEF Reachable
<1>. DEFINE S == {m \in Nat : m <= t.used => Alike(d[m], t) /\ Index(d[m], m) /\ Reachable(d[m], m)}
<1>8. 0 \in S
  <2>1. d[0] = fresh
      BY <1>1 DEF Indexed
  <2>. QED BY <1>4, <1>6, <1>7, <2>1
<1>9. ASSUME NEW m \in Nat, m \in S PROVE m + 1 \in S
  <2>. SUFFICES ASSUME m + 1 <= t.used
                PROVE  Alike(d[m + 1], t) /\ Index(d[m + 1], m + 1) /\ Reachable(d[m + 1], m + 1)
      OBVIOUS
  <2>1. d[m + 1] = IndexEntry(d[m], m)
    <3>1. m + 1 \in 0 .. t.used /\ m + 1 # 0 /\ m + 1 - 1 = m
        OBVIOUS
    <3>. QED BY <1>1, <3>1 DEF Indexed
  <2>2. m <= t.used /\ m \in 0 .. t.used - 1
      OBVIOUS
  <2>3. Alike(d[m], t) /\ Index(d[m], m) /\ Reachable(d[m], m)
      BY <1>9, <2>2
  <2>4. PICK u : u = d[m]
      OBVIOUS
  <2>5. DOMAIN u = Fields /\ u.bit = t.bit /\ u.ea = t.ea /\ Active(u) = Active(t)
      BY <2>3, <2>4, AlikeActive DEF Alike
  <2>6. m + 1 <= DeletedValue(u)
      BY <1>3, <1>5, <2>5 DEF DeletedValue, ib_capa
  <2>7. u.ea[m].key \in Key
      BY <2>2, <2>5
  <2>8. Alike(IndexEntry(u, m), u) /\ Index(IndexEntry(u, m), m + 1) /\ Reachable(IndexEntry(u, m), m + 1)
      BY <2>3, <2>4, <2>5, <2>6, <2>7, IndexEntryFacts
  <2>9. Alike(IndexEntry(u, m), t)
      BY <2>3, <2>4, <2>8 DEF Alike
  <2>. QED BY <2>1, <2>4, <2>8, <2>9
<1>. HIDE DEF S
<1>10. \A m \in Nat : m \in S
    BY <1>8, <1>9, InductionInSet
<1>. QED BY <1>2, <1>10 DEF S

-----------------------------------------------------------------------------
(* Resizing and compressing the entry array.                               *)

LEMMA NextCapa ==
    ASSUME NEW size \in Nat, NEW max \in Nat
    PROVE  /\ ea_next_capa_for(size, max) \in Nat
           /\ size <= max => size <= ea_next_capa_for(size, max)
           /\ size < max => size < ea_next_capa_for(size, max)
           /\ max <= AR_MAX_SIZE => ea_next_capa_for(size, max) <= AR_MAX_SIZE
<1>1. PICK c \in Nat : c = (size * 6) \div 5 + EA_INCREASE /\ size < c
  <2>1. (size * 6) \div 5 \in Nat /\ size <= (size * 6) \div 5
      OBVIOUS
  <2>. QED BY <2>1, SizeFacts
<1>. QED BY <1>1, SizeFacts DEF ea_next_capa_for

\* Two tables with the same keys in the same slots
SameKeys(u, t) == Active(u) = Active(t) /\ \A i \in Active(t) : u.ea[i].key = t.ea[i].key

LEMMA SameIndex ==
    ASSUME NEW u, NEW t, NEW n, SameKeys(u, t), u.bit = t.bit, u.ib = t.ib
    PROVE  (Index(t, n) => Index(u, n)) /\ (Reachable(t, n) => Reachable(u, n))
<1>1. ib_capa(u) = ib_capa(t) /\ EmptyValue(u) = EmptyValue(t) /\ DeletedValue(u) = DeletedValue(t)
      /\ Steps(u) = Steps(t)
    BY DEF ib_capa, EmptyValue, DeletedValue, Steps
<1>2. Taken(u) = Taken(t)
    BY <1>1 DEF Taken
<1>3. Index(t, n) => Index(u, n)
    BY <1>1, <1>2 DEF Index, SameKeys
<1>4. \A k, s : Bucket(u, k, s) = Bucket(t, k, s)
    BY <1>1 DEF Bucket, Probe
<1>5. \A i \in Active(t) : OnProbe(t, i) => OnProbe(u, i)
    BY <1>1, <1>4 DEF OnProbe, SameKeys
<1>6. Reachable(t, n) => Reachable(u, n)
    BY <1>5 DEF Reachable, SameKeys
<1>. QED BY <1>3, <1>6

LEMMA SameDistinct ==
    ASSUME NEW u, NEW t, SameKeys(u, t), Distinct(t) PROVE Distinct(u)
    BY DEF SameKeys, Distinct

LEMMA ResizeFacts ==
    ASSUME NEW t, Shape(t), NEW c \in Nat, NEW a, \A i \in Active(t) : i < c
    PROVE  LET r == ea_resize(t, c, a)
           IN  /\ DOMAIN r = Fields
               /\ r.ht = t.ht /\ r.size = t.size /\ r.used = t.used /\ r.bit = t.bit
               /\ r.ib = t.ib /\ r.tbl = t.tbl /\ r.ea_at = a /\ r.capa = c
               /\ Shape(r) /\ SameKeys(r, t)
<1>. DEFINE r == ea_resize(t, c, a)
<1>1. /\ DOMAIN r = Fields
      /\ r.ht = t.ht /\ r.size = t.size /\ r.used = t.used /\ r.bit = t.bit
      /\ r.ib = t.ib /\ r.tbl = t.tbl /\ r.ea_at = a /\ r.capa = c
      /\ r.ea = [i \in 0 .. c - 1 |-> IF i < t.capa THEN t.ea[i] ELSE Vacant]
    BY DEF ea_resize, Shape, Fields
<1>. HIDE DEF r
<1>2. t.capa \in Nat /\ t.ea \in [0 .. t.capa - 1 -> Slot]
    BY DEF Shape, Slots
<1>3. \A i \in 0 .. c - 1 : /\ i < t.capa => i \in 0 .. t.capa - 1
                            /\ r.ea[i] = (IF i < t.capa THEN t.ea[i] ELSE Vacant) /\ r.ea[i] \in Slot
  <2>. SUFFICES ASSUME NEW i \in 0 .. c - 1
                PROVE  /\ i < t.capa => i \in 0 .. t.capa - 1
                       /\ r.ea[i] = (IF i < t.capa THEN t.ea[i] ELSE Vacant) /\ r.ea[i] \in Slot
      OBVIOUS
  <2>1. i < t.capa => i \in 0 .. t.capa - 1
      BY <1>2
  <2>2. r.ea[i] = IF i < t.capa THEN t.ea[i] ELSE Vacant
      BY <1>1
  <2>3. t.ea[i] \in Slot \/ ~(i < t.capa)
      BY <1>2, <2>1
  <2>. QED BY <2>1, <2>2, <2>3, SlotFacts
<1>4. Shape(r)
  <2>1. r.ea \in [0 .. c - 1 -> Slot]
      BY <1>1, <1>3
  <2>. QED BY <1>1, <2>1 DEF Shape, Slots
<1>5. \A i : i \in Active(r) <=> i \in Active(t)
  <2>. SUFFICES ASSUME NEW i PROVE i \in Active(r) <=> i \in Active(t)
      OBVIOUS
  <2>1. ASSUME i \in Active(r) PROVE i \in Active(t)
    <3>1. i \in 0 .. c - 1 /\ r.ea[i] # Vacant
        BY <1>1, <2>1 DEF Active, Slots
    <3>2. i < t.capa /\ i \in 0 .. t.capa - 1 /\ r.ea[i] = t.ea[i]
        BY <1>3, <3>1
    <3>. QED BY <3>1, <3>2 DEF Active, Slots
  <2>2. ASSUME i \in Active(t) PROVE i \in Active(r)
    <3>1. i \in Nat /\ i < t.capa /\ i < c /\ t.ea[i] # Vacant
        BY <2>2, ActiveFacts
    <3>2. i \in 0 .. c - 1
        BY <3>1
    <3>3. r.ea[i] = t.ea[i]
        BY <1>3, <3>1, <3>2
    <3>. QED BY <1>1, <3>1, <3>2, <3>3 DEF Active, Slots
  <2>. QED BY <2>1, <2>2
<1>6. \A i \in Active(t) : r.ea[i] = t.ea[i]
  <2>. SUFFICES ASSUME NEW i \in Active(t) PROVE r.ea[i] = t.ea[i]
      OBVIOUS
  <2>1. i \in Nat /\ i < t.capa /\ i < c
      BY ActiveFacts
  <2>. QED BY <1>3, <2>1
<1>7. SameKeys(r, t)
    BY <1>5, <1>6 DEF SameKeys
<1>. QED BY <1>1, <1>4, <1>7 DEF r

LEMMA AdjustFacts ==
    ASSUME NEW t, Entries(t), NEW size \in Nat, NEW max \in Nat, NEW a,
           t.used <= ea_next_capa_for(size, max)
    PROVE  LET r == adjust_ea(t, size, max, a)
           IN  /\ r.ht = t.ht /\ r.size = t.size /\ r.used = t.used /\ r.bit = t.bit
               /\ r.ib = t.ib /\ r.ea_at = a /\ r.capa = ea_next_capa_for(size, max)
               /\ r.tbl = IF t.ht THEN t.tbl ELSE a
               /\ Entries(r) /\ SameKeys(r, t)
<1>1. PICK c \in Nat : c = ea_next_capa_for(size, max)
    BY NextCapa
<1>2. PICK q : q = ea_resize(t, c, a)
    OBVIOUS
<1>3. t.used \in Nat /\ t.used <= c /\ \A i \in Active(t) : i \in Nat /\ i < c
    BY <1>1, ActiveFacts DEF Entries, Shape
<1>4. /\ DOMAIN q = Fields
      /\ q.ht = t.ht /\ q.size = t.size /\ q.used = t.used /\ q.bit = t.bit
      /\ q.ib = t.ib /\ q.tbl = t.tbl /\ q.ea_at = a /\ q.capa = c
      /\ Shape(q) /\ SameKeys(q, t)
    BY <1>2, <1>3, ResizeFacts DEF Entries
<1>5. PICK r : r = adjust_ea(t, size, max, a)
    OBVIOUS
<1>6. r = IF t.ht THEN q ELSE [q EXCEPT !.tbl = a]
    BY <1>1, <1>2, <1>5 DEF adjust_ea
<1>7. /\ DOMAIN r = Fields
      /\ r.ht = t.ht /\ r.size = t.size /\ r.used = t.used /\ r.bit = t.bit
      /\ r.ib = t.ib /\ r.ea_at = a /\ r.capa = c /\ r.ea = q.ea
      /\ r.tbl = IF t.ht THEN t.tbl ELSE a
  <2>1. CASE t.ht
      BY <1>4, <1>6, <2>1
  <2>2. CASE ~t.ht
      BY <1>4, <1>6, <2>2 DEF Fields
  <2>. QED BY <2>1, <2>2
<1>8. Shape(r) /\ SameKeys(r, t)
  <2>1. Slots(r) = Slots(q) /\ Active(r) = Active(q)
      BY <1>4, <1>7 DEF Slots, Active
  <2>. QED BY <1>4, <1>7, <2>1 DEF Shape, SameKeys
<1>9. Entries(r)
    BY <1>3, <1>7, <1>8 DEF Entries, SameKeys
<1>. QED BY <1>1, <1>5, <1>7, <1>8, <1>9

LEMMA CompressFacts ==
    ASSUME NEW t, Entries(t)
    PROVE  LET r == ea_compress(t)
           IN  /\ DOMAIN r = Fields
               /\ r.ht = t.ht /\ r.size = t.size /\ r.used = t.used /\ r.capa = t.capa /\ r.bit = t.bit
               /\ r.ib = t.ib /\ r.tbl = t.tbl /\ r.ea_at = t.ea_at
               /\ Shape(r) /\ t.size \in Nat /\ t.size <= t.used /\ Active(r) = 0 .. t.size - 1
               /\ \A i \in 0 .. t.size - 1 : r.ea[i] = t.ea[ActiveList(t)[i + 1]]
<1>. DEFINE r == ea_compress(t)
            A == ActiveList(t)
<1>1. t.used \in Nat /\ t.capa \in Nat /\ t.used <= t.capa /\ t.ea \in [0 .. t.capa - 1 -> Slot]
    BY DEF Entries, Shape, Slots
<1>2. t.size \in Nat /\ t.size = Cardinality(Active(t)) /\ Active(t) \in SUBSET (0 .. t.capa - 1)
    BY ActiveFacts DEF Entries
<1>3. Rank(Active(t), t.used) = t.size
    BY <1>1, <1>2, RankFacts DEF Entries
<1>4. t.size <= t.used
    BY <1>1, <1>2, <1>3, RankFacts
<1>5. /\ DOMAIN r = Fields
      /\ r.ht = t.ht /\ r.size = t.size /\ r.used = t.used /\ r.capa = t.capa /\ r.bit = t.bit
      /\ r.ib = t.ib /\ r.tbl = t.tbl /\ r.ea_at = t.ea_at
      /\ r.ea = [i \in 0 .. t.capa - 1 |-> IF i < t.size THEN t.ea[A[i + 1]]
                                           ELSE IF i < t.used THEN Vacant
                                           ELSE t.ea[i]]
    BY <1>3 DEF ea_compress, Entries, Shape, Fields, Slots
<1>6. \A i \in 0 .. t.size - 1 : A[i + 1] \in Active(t) /\ t.ea[A[i + 1]] \in Slot /\ t.ea[A[i + 1]] # Vacant
  <2>. SUFFICES ASSUME NEW i \in 0 .. t.size - 1
                PROVE  A[i + 1] \in Active(t) /\ t.ea[A[i + 1]] \in Slot /\ t.ea[A[i + 1]] # Vacant
      OBVIOUS
  <2>1. i + 1 \in 1 .. Cardinality(Active(t))
      BY <1>2
  <2>2. A[i + 1] \in Active(t)
      BY <2>1, ListFacts DEF Entries
  <2>. QED BY <2>2, ActiveFacts DEF Entries
<1>. HIDE DEF r, A
<1>7. \A i \in 0 .. t.capa - 1 : /\ i < t.size => r.ea[i] = t.ea[A[i + 1]] /\ r.ea[i] # Vacant
                                 /\ ~(i < t.size) => r.ea[i] = Vacant
                                 /\ r.ea[i] \in Slot
  <2>. SUFFICES ASSUME NEW i \in 0 .. t.capa - 1
                PROVE  /\ i < t.size => r.ea[i] = t.ea[A[i + 1]] /\ r.ea[i] # Vacant
                       /\ ~(i < t.size) => r.ea[i] = Vacant
                       /\ r.ea[i] \in Slot
      OBVIOUS
  <2>1. r.ea[i] = IF i < t.size THEN t.ea[A[i + 1]] ELSE IF i < t.used THEN Vacant ELSE t.ea[i]
      BY <1>5
  <2>2. CASE i < t.size
    <3>1. i \in 0 .. t.size - 1
        BY <1>2, <2>2
    <3>. QED BY <1>6, <2>1, <2>2, <3>1
  <2>3. CASE ~(i < t.size)
    <3>1. ~(i < t.used) => t.ea[i] = Vacant
      <4>. SUFFICES ASSUME ~(i < t.used), t.ea[i] # Vacant PROVE FALSE
          OBVIOUS
      <4>1. i \in Active(t)
          BY DEF Active, Slots
      <4>. QED BY <4>1 DEF Entries
    <3>. QED BY <2>1, <2>3, <3>1, SlotFacts
  <2>. QED BY <2>2, <2>3
<1>8. Shape(r)
  <2>1. r.ea \in [0 .. t.capa - 1 -> Slot]
      BY <1>5, <1>7
  <2>. QED BY <1>5, <2>1 DEF Shape, Entries, Slots
<1>9. \A i : i \in Active(r) <=> i \in 0 .. t.size - 1
  <2>1. \A i \in 0 .. t.size - 1 : i \in 0 .. t.capa - 1 /\ i < t.size
      BY <1>1, <1>2, <1>4
  <2>2. \A i \in 0 .. t.capa - 1 : i < t.size => i \in 0 .. t.size - 1
      BY <1>1, <1>2
  <2>3. \A i : i \in Active(r) <=> i \in 0 .. t.capa - 1 /\ r.ea[i] # Vacant
      BY <1>5 DEF Active, Slots
  <2>. QED BY <1>7, <2>1, <2>2, <2>3
<1>10. \A i \in 0 .. t.size - 1 : r.ea[i] = t.ea[A[i + 1]]
  <2>1. \A i \in 0 .. t.size - 1 : i \in 0 .. t.capa - 1 /\ i < t.size
      BY <1>1, <1>2, <1>4
  <2>. QED BY <1>7, <2>1
<1>11. Active(r) = 0 .. t.size - 1
    BY <1>9
<1>. QED BY <1>2, <1>4, <1>5, <1>8, <1>10, <1>11 DEF r, A

\* Compressing moves entries and makes none equal.
LEMMA CompressDistinct ==
    ASSUME NEW t, Entries(t), Distinct(t) PROVE Distinct(ea_compress(t))
<1>. DEFINE r == ea_compress(t)
            A == ActiveList(t)
<1>1. /\ t.size \in Nat /\ Active(r) = 0 .. t.size - 1
      /\ \A i \in 0 .. t.size - 1 : r.ea[i] = t.ea[A[i + 1]]
    BY CompressFacts
<1>2. t.size = Cardinality(Active(t))
    BY DEF Entries
<1>3. /\ \A m \in 1 .. t.size : A[m] \in Active(t) /\ A[m] \in Int
      /\ \A l, m \in 1 .. t.size : l < m => A[l] < A[m]
    BY <1>2, ListFacts, ActiveFacts DEF Entries
<1>. HIDE DEF r, A
<1>4. SUFFICES ASSUME NEW i \in 0 .. t.size - 1, NEW j \in 0 .. t.size - 1,
                      content[r.ea[i].key] = content[r.ea[j].key]
               PROVE  i = j
    BY <1>1 DEF Distinct, r
<1>5. A[i + 1] = A[j + 1]
  <2>1. i + 1 \in 1 .. t.size /\ j + 1 \in 1 .. t.size
      BY <1>1
  <2>2. A[i + 1] \in Active(t) /\ A[j + 1] \in Active(t)
      BY <1>3, <2>1
  <2>. QED BY <1>1, <1>4, <2>2 DEF Distinct
<1>6. i + 1 \in 1 .. t.size /\ j + 1 \in 1 .. t.size
    BY <1>1
<1>7. ~(i < j)
  <2>. SUFFICES ASSUME i < j PROVE FALSE
      OBVIOUS
  <2>1. i + 1 < j + 1
      BY <1>1
  <2>2. A[i + 1] < A[j + 1]
      BY <1>3, <1>6, <2>1
  <2>. QED BY <1>3, <1>5, <1>6, <2>2
<1>8. ~(j < i)
  <2>. SUFFICES ASSUME j < i PROVE FALSE
      OBVIOUS
  <2>1. j + 1 < i + 1
      BY <1>1
  <2>2. A[j + 1] < A[i + 1]
      BY <1>3, <1>6, <2>1
  <2>. QED BY <1>3, <1>5, <1>6, <2>2
<1>. QED BY <1>1, <1>7, <1>8

LEMMA ht_initFacts ==
    ASSUME NEW t, Shape(t), content \in [Key -> Key], NEW size \in Nat, NEW bit \in Nat, NEW a,
           bit >= 3, size <= ib_bit_to_capa[bit] - 2, \A i \in 0 .. size - 1 : i \in Active(t)
    PROVE  LET r == ht_init(t, size, bit, a)
           IN  /\ DOMAIN r = Fields
               /\ r.ht = TRUE /\ r.tbl = a /\ r.size = size /\ r.used = size /\ r.bit = bit
               /\ r.capa = t.capa /\ r.ea = t.ea /\ r.ea_at = t.ea_at
               /\ Shape(r) /\ SameKeys(r, t) /\ Index(r, size) /\ Reachable(r, size)
<1>. DEFINE q == [t EXCEPT !.ht = TRUE, !.tbl = a, !.size = size, !.used = size, !.bit = bit]
<1>1. /\ DOMAIN q = Fields
      /\ q.ht = TRUE /\ q.tbl = a /\ q.size = size /\ q.used = size /\ q.bit = bit
      /\ q.capa = t.capa /\ q.ea = t.ea /\ q.ea_at = t.ea_at
    BY DEF Shape, Fields
<1>2. ht_init(t, size, bit, a) = ib_init(q)
    BY DEF ht_init, Switched
<1>. HIDE DEF q
<1>3. Active(q) = Active(t) /\ Slots(q) = Slots(t)
    BY <1>1 DEF Active, Slots
<1>4. \A i \in Active(q) : i \in Nat /\ q.ea[i].key \in Key
    BY <1>1, <1>3, ActiveFacts
<1>5. \A i \in 0 .. q.used - 1 : q.ea[i].key \in Key
    BY <1>1, <1>3, <1>4
<1>6. q.used <= DeletedValue(q)
    BY <1>1 DEF DeletedValue, ib_capa
<1>7. PICK r : r = ib_init(q)
    OBVIOUS
<1>8. Alike(r, q) /\ Index(r, size) /\ Reachable(r, size)
    BY <1>1, <1>4, <1>5, <1>6, <1>7, ib_initFacts
<1>9. Active(r) = Active(t) /\ Slots(r) = Slots(t)
    BY <1>3, <1>8, AlikeActive
<1>10. /\ DOMAIN r = Fields
       /\ r.ht = TRUE /\ r.tbl = a /\ r.size = size /\ r.used = size /\ r.bit = bit
       /\ r.capa = t.capa /\ r.ea = t.ea /\ r.ea_at = t.ea_at
    BY <1>1, <1>8 DEF Alike
<1>11. Shape(r) /\ SameKeys(r, t)
    BY <1>9, <1>10 DEF Shape, SameKeys
<1>. QED BY <1>2, <1>7, <1>8, <1>10, <1>11

-----------------------------------------------------------------------------
(* Lookup.                                                                 *)

\* What a probe hits is an entry of the index with an equal key.
LEMMA HitFacts ==
    ASSUME NEW t, Shape(t), NEW n \in Nat, n <= t.capa, Index(t, n), content \in [Key -> Key],
           NEW k \in Key, NEW s \in Hits(t, k)
    PROVE  /\ s \in Steps(t) /\ s \in Nat
           /\ Probe(t, k, s) \in 0 .. ib_capa(t) - 1 /\ Bucket(t, k, s) = t.ib[Probe(t, k, s)]
           /\ Bucket(t, k, s) \in Active(t) /\ Bucket(t, k, s) < n
           /\ Bucket(t, k, s) < DeletedValue(t)
           /\ content[k] = content[t.ea[Bucket(t, k, s)].key]
<1>1. PICK c \in Nat : c = ib_capa(t) /\ c >= 8 /\ DeletedValue(t) = c - 2
    BY IndexFacts DEF Shape
<1>2. s \in Steps(t) /\ s \in Nat
    BY <1>1 DEF Hits, Steps
<1>3. Probe(t, k, s) \in 0 .. c - 1
    BY <1>1, <1>2, ProbeType DEF Shape
<1>4. PICK i : i = Bucket(t, k, s) /\ i = t.ib[Probe(t, k, s)]
    BY DEF Bucket
<1>5. i < c - 2 /\ Eql(k, t.ea[i])
    BY <1>1, <1>4 DEF Hits
<1>6. i \in 0 .. c - 1
    BY <1>1, <1>3, <1>4 DEF Index
<1>7. i < n
    BY <1>1, <1>3, <1>4, <1>5 DEF Index
<1>8. i \in Nat /\ i < t.capa
    BY <1>6, <1>7 DEF Shape
<1>9. i \in Active(t)
    BY <1>5, <1>8, ActiveFacts DEF Eql
<1>. QED BY <1>1, <1>2, <1>3, <1>4, <1>5, <1>7, <1>9 DEF Eql

\* Found means that there is a first hit.
LEMMA FirstHit ==
    ASSUME NEW t, t.bit \in Nat, NEW k, Hits(t, k) # {}
    PROVE  Min(Hits(t, k)) \in Hits(t, k)
<1>1. Hits(t, k) \in SUBSET Nat
    BY ShiftType DEF Hits, Steps, ib_capa
<1>. QED BY <1>1, MinFacts

\* An entry on its probe is found.
LEMMA FoundOnProbe ==
    ASSUME NEW t, Shape(t), NEW n \in Nat, n <= t.capa, Index(t, n), content \in [Key -> Key],
           NEW k \in Key, Reachable(t, n), NEW i \in Active(t), i < n,
           content[k] = content[t.ea[i].key]
    PROVE  Found(t, k)
<1>1. PICK c \in Nat : c = ib_capa(t) /\ c >= 8 /\ DeletedValue(t) = c - 2 /\ EmptyValue(t) = c - 1
    BY IndexFacts DEF Shape
<1>2. OnProbe(t, i)
    BY DEF Reachable
<1>3. \A s : Bucket(t, t.ea[i].key, s) = Bucket(t, k, s)
    BY DEF Bucket, Probe
<1>4. PICK s \in Steps(t) : /\ Bucket(t, k, s) = i
                            /\ \A g \in Steps(t) : g < s => Bucket(t, k, g) # c - 1
    BY <1>1, <1>2, <1>3 DEF OnProbe
<1>5. n <= c - 2
    BY <1>1 DEF Index
<1>6. i \in Nat /\ t.ea[i] # Vacant
    BY ActiveFacts
<1>7. s \in Hits(t, k)
    BY <1>1, <1>4, <1>5, <1>6 DEF Hits, Eql
<1>8. ASSUME NEW g \in Gaps(t, k) PROVE s < g
  <2>1. g \in Steps(t) /\ Bucket(t, k, g) = c - 1
      BY <1>1 DEF Gaps
  <2>2. g \in Int /\ s \in Int
      BY <2>1 DEF Steps
  <2>3. ~(g < s)
      BY <1>4, <2>1
  <2>4. g # s
      BY <1>1, <1>4, <1>5, <1>6, <2>1
  <2>. QED BY <2>2, <2>3, <2>4
<1>. QED BY <1>7, <1>8 DEF Found

LEMMA FoundHits == ASSUME NEW t, NEW k, Found(t, k) PROVE Hits(t, k) # {}
    BY DEF Found

-----------------------------------------------------------------------------
(* Storing.                                                                *)

LEMMA AppendFacts ==
    ASSUME NEW t, Entries(t), t.used < t.capa, t.used < EA_MAX_CAPA, NEW k \in Key, NEW v \in Val
    PROVE  LET u == AppendEntry(t, k, v)
           IN  /\ DOMAIN u = Fields
               /\ u.ht = t.ht /\ u.size = t.size + 1 /\ u.used = t.used + 1 /\ u.capa = t.capa /\ u.bit = t.bit
               /\ u.ib = t.ib /\ u.tbl = t.tbl /\ u.ea_at = t.ea_at
               /\ Active(u) = Active(t) \cup {t.used} /\ t.used \notin Active(t)
               /\ u.ea[t.used].key = k /\ (\A i \in Active(t) : u.ea[i] = t.ea[i])
               /\ Entries(u)
<1>. DEFINE u == AppendEntry(t, k, v)
<1>1. t.used \in Nat /\ t.capa \in Nat /\ t.used \in 0 .. t.capa - 1 /\ t.ea \in [0 .. t.capa - 1 -> Slot]
      /\ DOMAIN t = Fields
    BY DEF Entries, Shape, Slots
<1>2. /\ DOMAIN u = Fields
      /\ u.ht = t.ht /\ u.size = t.size + 1 /\ u.used = t.used + 1 /\ u.capa = t.capa /\ u.bit = t.bit
      /\ u.ib = t.ib /\ u.tbl = t.tbl /\ u.ea_at = t.ea_at
      /\ u.ea = [t.ea EXCEPT ![t.used] = [key |-> k, val |-> v]]
    BY <1>1 DEF AppendEntry, Fields
<1>. HIDE DEF u
<1>3. PICK e : e = [key |-> k, val |-> v] /\ e \in Slot /\ e # Vacant /\ e.key = k
    BY SlotFacts
<1>4. u.ea \in [0 .. t.capa - 1 -> Slot] /\ u.ea[t.used] = e
      /\ \A i \in 0 .. t.capa - 1 : i # t.used => u.ea[i] = t.ea[i]
    BY <1>1, <1>2, <1>3
<1>5. Shape(u)
  <2>1. u.ht \in BOOLEAN /\ u.used \in Nat /\ u.capa \in Nat /\ u.bit \in Nat
      BY <1>1, <1>2 DEF Entries, Shape
  <2>. QED BY <1>2, <1>4, <2>1 DEF Shape, Slots
<1>6. t.used \notin Active(t)
    BY <1>1 DEF Entries
<1>7. Active(u) = Active(t) \cup {t.used}
  <2>1. \A i : i \in Active(u) <=> i \in 0 .. t.capa - 1 /\ u.ea[i] # Vacant
      BY <1>2 DEF Active, Slots
  <2>2. \A i : i \in Active(t) <=> i \in 0 .. t.capa - 1 /\ t.ea[i] # Vacant
      BY DEF Active, Slots
  <2>. QED BY <1>1, <1>3, <1>4, <2>1, <2>2
<1>8. \A i \in Active(t) : u.ea[i] = t.ea[i]
  <2>1. \A i \in Active(t) : i \in 0 .. t.capa - 1 /\ i # t.used
      BY <1>6 DEF Active, Slots
  <2>. QED BY <1>4, <2>1
<1>9. u.size = Cardinality(Active(u))
  <2>1. IsFiniteSet(Active(t)) /\ t.size = Cardinality(Active(t))
      BY ActiveFacts DEF Entries
  <2>2. Cardinality(Active(t) \cup {t.used}) = Cardinality(Active(t)) + 1
      BY <1>6, <2>1, FS_AddElement
  <2>. QED BY <1>2, <1>7, <2>1, <2>2
<1>10. \A i \in Active(u) : i < t.used + 1
  <2>1. \A i \in Active(t) : i \in Nat /\ i < t.used
      BY ActiveFacts DEF Entries
  <2>. QED BY <1>1, <1>7, <2>1
<1>11. u.used <= u.capa /\ u.used <= EA_MAX_CAPA
    BY <1>1, <1>2, SizeFacts
<1>12. Entries(u)
    BY <1>2, <1>5, <1>9, <1>10, <1>11 DEF Entries
<1>. QED BY <1>2, <1>3, <1>4, <1>6, <1>7, <1>8, <1>12 DEF u

LEMMA AppendDistinct ==
    ASSUME NEW t, NEW u, NEW n, NEW k, Distinct(t), Active(u) = Active(t) \cup {n}, n \notin Active(t),
           u.ea[n].key = k, \A i \in Active(t) : u.ea[i].key = t.ea[i].key,
           \A i \in Active(t) : content[t.ea[i].key] # content[k]
    PROVE  Distinct(u)
<1>. SUFFICES ASSUME NEW i \in Active(u), NEW j \in Active(u), content[u.ea[i].key] = content[u.ea[j].key]
              PROVE  i = j
    BY DEF Distinct
<1>1. CASE i \in Active(t) /\ j \in Active(t)
    BY <1>1 DEF Distinct
<1>2. CASE i = n /\ j \in Active(t)
    BY <1>2
<1>3. CASE i \in Active(t) /\ j = n
    BY <1>3
<1>. QED BY <1>1, <1>2, <1>3

\* A new value for an entry
LEMMA SetValue ==
    ASSUME NEW t, Shape(t), NEW i \in Active(t), NEW v \in Val
    PROVE  LET u == [t EXCEPT !.ea[i].val = v]
           IN  /\ DOMAIN u = Fields
               /\ u.ht = t.ht /\ u.size = t.size /\ u.used = t.used /\ u.capa = t.capa /\ u.bit = t.bit
               /\ u.ib = t.ib /\ u.tbl = t.tbl /\ u.ea_at = t.ea_at
               /\ Shape(u) /\ SameKeys(u, t)
<1>. DEFINE u == [t EXCEPT !.ea[i].val = v]
<1>1. t.capa \in Nat /\ i \in 0 .. t.capa - 1 /\ t.ea \in [0 .. t.capa - 1 -> Slot] /\ DOMAIN t = Fields
    BY DEF Shape, Slots, Active
<1>2. PICK e : e = [t.ea[i] EXCEPT !.val = v] /\ e \in Slot /\ e # Vacant /\ e.key = t.ea[i].key
    BY ActiveFacts, SlotFacts
<1>3. /\ DOMAIN u = Fields
      /\ u.ht = t.ht /\ u.size = t.size /\ u.used = t.used /\ u.capa = t.capa /\ u.bit = t.bit
      /\ u.ib = t.ib /\ u.tbl = t.tbl /\ u.ea_at = t.ea_at
      /\ u.ea = [t.ea EXCEPT ![i] = e]
    BY <1>1, <1>2 DEF Fields
<1>. HIDE DEF u
<1>4. u.ea \in [0 .. t.capa - 1 -> Slot] /\ u.ea[i] = e
      /\ \A j \in 0 .. t.capa - 1 : j # i => u.ea[j] = t.ea[j]
    BY <1>1, <1>2, <1>3
<1>5. Shape(u)
    BY <1>3, <1>4 DEF Shape, Slots
<1>6. \A j \in 0 .. t.capa - 1 : (u.ea[j] # Vacant <=> t.ea[j] # Vacant) /\ (t.ea[j] # Vacant => u.ea[j].key = t.ea[j].key)
  <2>1. t.ea[i] # Vacant
      BY ActiveFacts
  <2>. QED BY <1>2, <1>4, <2>1
<1>7. SameKeys(u, t)
    BY <1>3, <1>6 DEF SameKeys, Active, Slots
<1>. QED BY <1>3, <1>5, <1>7 DEF u

\* What storing a pair makes of a good table
Holds(r, t) == Good(r) /\ (Keyed(t) => Keyed(r)) /\ r.used <= t.used + 1

LEMMA SetValueGood ==
    ASSUME NEW t, Good(t), NEW i \in Active(t), NEW v \in Val
    PROVE  Holds([t EXCEPT !.ea[i].val = v], t)
<1>1. PICK u : u = [t EXCEPT !.ea[i].val = v]
    OBVIOUS
<1>2. /\ u.ht = t.ht /\ u.size = t.size /\ u.used = t.used /\ u.capa = t.capa /\ u.bit = t.bit
      /\ u.ib = t.ib /\ u.tbl = t.tbl /\ u.ea_at = t.ea_at
      /\ Shape(u) /\ SameKeys(u, t)
    BY <1>1, SetValue DEF Good, Entries
<1>3. Entries(u)
    BY <1>2 DEF Good, Entries, SameKeys
<1>4. Good(u)
    BY <1>2, <1>3, SameIndex DEF Good, Small
<1>5. Keyed(t) => Keyed(u)
    BY <1>2, SameIndex, SameDistinct DEF Keyed
<1>6. u.used <= t.used + 1
    BY <1>2 DEF Good, Entries, Shape
<1>. QED BY <1>1, <1>4, <1>5, <1>6 DEF Holds

\* The loop at the end of ht_set(), on a table with a free index value
LEMMA HtStoreGood ==
    ASSUME NEW t, Good(t), t.ht, t.used + 1 <= DeletedValue(t), t.used < EA_MAX_CAPA,
           content \in [Key -> Key], NEW k \in Key, NEW v \in Val, NEW a
    PROVE  Holds(HtStore(t, k, v, a), t)
<1>1. Shape(t) /\ Entries(t) /\ t.used \in Nat /\ t.capa \in Nat /\ t.used <= t.capa /\ t.bit \in Nat /\ Index(t, t.used)
    BY DEF Good, Entries, Shape
<1>2. CASE Found(t, k)
  <2>1. Min(Hits(t, k)) \in Hits(t, k)
      BY <1>1, <1>2, FoundHits, FirstHit
  <2>2. Bucket(t, k, Min(Hits(t, k))) \in Active(t)
      BY <1>1, <2>1, HitFacts
  <2>3. HtStore(t, k, v, a) = [t EXCEPT !.ea[Bucket(t, k, Min(Hits(t, k)))].val = v]
      BY <1>2 DEF HtStore
  <2>. QED BY <2>2, <2>3, SetValueGood
<1>3. CASE ~Found(t, k)
  <2>1. PICK room : room = IF t.used = t.capa THEN adjust_ea(t, t.used, EA_MAX_CAPA, a) ELSE t
      OBVIOUS
  <2>2. /\ Entries(room) /\ SameKeys(room, t) /\ room.ht = t.ht /\ room.used = t.used /\ room.used < room.capa
        /\ room.bit = t.bit /\ room.ib = t.ib
    <3>1. CASE t.used = t.capa
      <4>1. t.used < ea_next_capa_for(t.used, EA_MAX_CAPA) /\ ea_next_capa_for(t.used, EA_MAX_CAPA) \in Nat
          BY <1>1, NextCapa, SizeFacts
      <4>2. t.used <= ea_next_capa_for(t.used, EA_MAX_CAPA)
          BY <1>1, <4>1
      <4>3. room = adjust_ea(t, t.used, EA_MAX_CAPA, a)
          BY <2>1, <3>1
      <4>4. EA_MAX_CAPA \in Nat
          BY SizeFacts
      <4>5. /\ room.ht = t.ht /\ room.used = t.used /\ room.bit = t.bit /\ room.ib = t.ib
            /\ room.capa = ea_next_capa_for(t.used, EA_MAX_CAPA) /\ Entries(room) /\ SameKeys(room, t)
        <5>1. Entries(t) /\ t.used \in Nat
            BY <1>1
        <5>. QED BY ONLY <4>2, <4>3, <4>4, <5>1, AdjustFacts
      <4>. QED BY <4>1, <4>5
    <3>2. CASE t.used # t.capa
      <4>1. room = t
          BY <2>1, <3>2
      <4>2. t.used < t.capa
          BY <1>1, <3>2
      <4>. QED BY <1>1, <4>1, <4>2 DEF SameKeys
    <3>. QED BY <3>1, <3>2
  <2>3. PICK u : u = AppendEntry(room, k, v)
      OBVIOUS
  <2>4. /\ DOMAIN u = Fields
        /\ u.ht = t.ht /\ u.used = t.used + 1 /\ u.bit = t.bit /\ u.ib = t.ib
        /\ Active(u) = Active(t) \cup {t.used} /\ t.used \notin Active(t)
        /\ u.ea[t.used].key = k /\ (\A i \in Active(t) : u.ea[i].key = t.ea[i].key)
        /\ Entries(u)
    <3>1. room.used < EA_MAX_CAPA
        BY <2>2
    <3>2. /\ DOMAIN u = Fields
          /\ u.ht = room.ht /\ u.used = room.used + 1 /\ u.bit = room.bit /\ u.ib = room.ib
          /\ Active(u) = Active(room) \cup {room.used} /\ room.used \notin Active(room)
          /\ u.ea[room.used].key = k /\ (\A i \in Active(room) : u.ea[i] = room.ea[i])
          /\ Entries(u)
      <4>1. Entries(room) /\ room.used < room.capa
          BY <2>2
      <4>. QED BY ONLY <2>3, <3>1, <4>1, k \in Key, v \in Val, AppendFacts
    <3>3. Active(room) = Active(t) /\ \A i \in Active(t) : room.ea[i].key = t.ea[i].key
        BY <2>2 DEF SameKeys
    <3>. QED BY <2>2, <3>2, <3>3
  <2>5. PICK r : r = [u EXCEPT !.ib[Probe(t, k, Min(Gaps(t, k)))] = t.used]
      OBVIOUS
  <2>6. HtStore(t, k, v, a) = r
      BY <1>3, <2>1, <2>3, <2>5 DEF HtStore
  <2>7. /\ Alike(r, u) /\ r.ib = [t.ib EXCEPT ![Probe(t, k, Min(Gaps(t, k)))] = t.used]
      BY <2>4, <2>5 DEF Alike, Fields
  <2>8. Active(r) = Active(u) /\ Slots(r) = Slots(u)
      BY <2>7, AlikeActive
  <2>9. /\ r.ht = TRUE /\ r.used = t.used + 1 /\ r.bit = t.bit
        /\ Active(r) = Active(t) \cup {t.used}
        /\ r.ea[t.used].key = k /\ (\A i \in Active(t) : r.ea[i].key = t.ea[i].key)
    <3>1. t.ht = TRUE
        BY DEF Good, Entries, Shape
    <3>. QED BY <2>4, <2>7, <2>8, <3>1 DEF Alike
  <2>10. Entries(r)
      BY <2>4, <2>7, <2>8 DEF Entries, Shape, Alike
  <2>11. \A i \in Active(t) : i \in Nat /\ t.ea[i].key \in Key
      BY <1>1, ActiveFacts
  <2>12. Index(r, t.used + 1)
    <3>1. \A i \in Active(r) : i \in Nat /\ (i < t.used => i \in Active(t))
        BY <1>1, <2>9, <2>11
    <3>. QED BY <1>1, <2>7, <2>9, <3>1, PutIndex
  <2>13. Good(r)
      BY <2>9, <2>10, <2>12 DEF Good
  <2>14. ASSUME Keyed(t) PROVE Keyed(r)
    <3>1. Distinct(t) /\ Reachable(t, t.used)
        BY <2>14 DEF Keyed
    <3>2. \A i \in Active(t) : content[t.ea[i].key] # content[k]
      <4>. SUFFICES ASSUME NEW i \in Active(t), content[t.ea[i].key] = content[k] PROVE FALSE
          OBVIOUS
      <4>1. i < t.used
          BY <1>1 DEF Entries
      <4>. QED BY <1>1, <1>3, <3>1, <4>1, FoundOnProbe
    <3>3. Distinct(r)
        BY <2>4, <2>9, <3>1, <3>2, AppendDistinct
    <3>4. \A i \in Active(r) : /\ i \in Nat
                               /\ i < t.used => /\ i \in Active(t) /\ t.ea[i].key \in Key
                                                /\ content[r.ea[i].key] = content[t.ea[i].key]
        BY <1>1, <2>9, <2>11
    <3>5. Reachable(r, t.used + 1)
        BY <1>1, <2>7, <2>9, <3>1, <3>4, PutReach
    <3>. QED BY <2>9, <3>3, <3>5 DEF Keyed
  <2>15. r.used <= t.used + 1
      BY <1>1, <2>9
  <2>. QED BY <2>6, <2>13, <2>14, <2>15 DEF Holds
<1>. QED BY <1>2, <1>3

\* Small tables: the search, and the append where there is room
LEMMA ArSearch ==
    ASSUME NEW t, Entries(t), NEW k
    PROVE  ea_get_by_key(t, t.size, k) = {i \in Active(t) : content[k] = content[t.ea[i].key]}
<1>1. Visited(t, t.size) = Active(t)
    BY VisitedAll
<1>2. \A i \in Active(t) : t.ea[i] # Vacant
    BY ActiveFacts DEF Entries
<1>. QED BY <1>1, <1>2 DEF ea_get_by_key, Eql

LEMMA ArAppendGood ==
    ASSUME NEW t, NEW room, Good(t), ~t.ht, Entries(room), ~room.ht, Small(room),
           room.used < room.capa, room.used < EA_MAX_CAPA, room.used <= t.used,
           Distinct(t) => Distinct(room), NEW k \in Key, NEW v \in Val,
           Distinct(t) => \A i \in Active(room) : content[room.ea[i].key] # content[k]
    PROVE  Holds(AppendEntry(room, k, v), t)
<1>1. PICK u : u = AppendEntry(room, k, v)
    OBVIOUS
<1>2. /\ u.ht = room.ht /\ u.used = room.used + 1 /\ u.capa = room.capa
      /\ u.tbl = room.tbl /\ u.ea_at = room.ea_at
      /\ Active(u) = Active(room) \cup {room.used} /\ room.used \notin Active(room)
      /\ u.ea[room.used].key = k /\ (\A i \in Active(room) : u.ea[i].key = room.ea[i].key)
      /\ Entries(u)
    BY <1>1, AppendFacts
<1>3. Good(u)
    BY <1>2 DEF Good, Small
<1>4. Keyed(t) => Keyed(u)
  <2>1. ASSUME Distinct(t) PROVE Distinct(u)
    <3>1. Distinct(room) /\ \A i \in Active(room) : content[room.ea[i].key] # content[k]
        BY <2>1
    <3>2. PICK n : n = room.used
        OBVIOUS
    <3>3. /\ Active(u) = Active(room) \cup {n} /\ n \notin Active(room)
          /\ u.ea[n].key = k /\ (\A i \in Active(room) : u.ea[i].key = room.ea[i].key)
        BY <1>2, <3>2
    <3>. QED BY <3>1, <3>3, AppendDistinct
  <2>. QED BY <1>2, <2>1 DEF Keyed
<1>5. u.used <= t.used + 1
    BY <1>2 DEF Good, Entries, Shape
<1>. QED BY <1>1, <1>3, <1>4, <1>5 DEF Holds

LEMMA HoldsThrough ==
    ASSUME NEW r, NEW q, NEW t, Holds(r, q), Keyed(t) => Keyed(q), q.used \in Nat, t.used \in Nat, q.used <= t.used
    PROVE  Holds(r, t)
<1>1. Good(r) /\ (Keyed(t) => Keyed(r)) /\ r.used <= q.used + 1 /\ r.used \in Nat
    BY DEF Holds, Good, Entries, Shape
<1>. QED BY <1>1 DEF Holds

\* An index built over a packed entry array
LEMMA PackedHt ==
    ASSUME NEW c, Shape(c), NEW size \in Nat, Active(c) = 0 .. size - 1, size <= c.capa, size <= EA_MAX_CAPA,
           NEW bit \in Nat, bit >= 3, size <= ib_bit_to_capa[bit] - 2, content \in [Key -> Key], NEW a
    PROVE  LET q == ht_init(c, size, bit, a)
           IN  Good(q) /\ q.ht /\ q.used = size /\ q.bit = bit /\ (Distinct(c) => Keyed(q))
<1>1. PICK q : q = ht_init(c, size, bit, a)
    OBVIOUS
<1>2. \A i \in 0 .. size - 1 : i \in Active(c)
    OBVIOUS
<1>3. /\ q.ht = TRUE /\ q.size = size /\ q.used = size /\ q.bit = bit /\ q.capa = c.capa
      /\ Shape(q) /\ SameKeys(q, c) /\ Index(q, size) /\ Reachable(q, size)
  <2>. DEFINE r == ht_init(c, size, bit, a)
  <2>1. /\ DOMAIN r = Fields
        /\ r.ht = TRUE /\ r.tbl = a /\ r.size = size /\ r.used = size /\ r.bit = bit
        /\ r.capa = c.capa /\ r.ea = c.ea /\ r.ea_at = c.ea_at
        /\ Shape(r) /\ SameKeys(r, c) /\ Index(r, size) /\ Reachable(r, size)
      BY <1>2, ht_initFacts
  <2>. QED BY <1>1, <2>1
<1>4. Entries(q)
  <2>1. Active(q) = 0 .. size - 1
      BY <1>3 DEF SameKeys
  <2>2. Cardinality(Active(q)) = size /\ \A i \in Active(q) : i < size
      BY <2>1, SlotsCount
  <2>. QED BY <1>3, <2>2 DEF Entries
<1>5. Good(q)
    BY <1>3, <1>4 DEF Good
<1>6. Distinct(c) => Keyed(q)
    BY <1>3, SameDistinct DEF Keyed
<1>. QED BY <1>1, <1>3, <1>5, <1>6

\* Resizing, for an array whose used count is about to be set
LEMMA AdjustShape ==
    ASSUME NEW t, Shape(t), NEW size \in Nat, NEW max \in Nat, NEW a,
           \A i \in Active(t) : i < ea_next_capa_for(size, max)
    PROVE  LET r == adjust_ea(t, size, max, a)
           IN  /\ DOMAIN r = Fields
               /\ r.ht = t.ht /\ r.size = t.size /\ r.used = t.used /\ r.bit = t.bit
               /\ r.ib = t.ib /\ r.ea_at = a /\ r.capa = ea_next_capa_for(size, max)
               /\ r.tbl = (IF t.ht THEN t.tbl ELSE a)
               /\ Shape(r) /\ SameKeys(r, t)
<1>1. PICK c \in Nat : c = ea_next_capa_for(size, max)
    BY NextCapa
<1>2. PICK q : q = ea_resize(t, c, a)
    OBVIOUS
<1>3. \A i \in Active(t) : i < c
    BY <1>1
<1>4. /\ DOMAIN q = Fields
      /\ q.ht = t.ht /\ q.size = t.size /\ q.used = t.used /\ q.bit = t.bit
      /\ q.ib = t.ib /\ q.tbl = t.tbl /\ q.ea_at = a /\ q.capa = c
      /\ Shape(q) /\ SameKeys(q, t)
    BY ONLY Shape(t), <1>2, <1>3, ResizeFacts
<1>5. PICK r : r = adjust_ea(t, size, max, a)
    OBVIOUS
<1>6. r = IF t.ht THEN q ELSE [q EXCEPT !.tbl = a]
    BY <1>1, <1>2, <1>5 DEF adjust_ea
<1>7. /\ DOMAIN r = Fields
      /\ r.ht = t.ht /\ r.size = t.size /\ r.used = t.used /\ r.bit = t.bit
      /\ r.ib = t.ib /\ r.ea_at = a /\ r.capa = c /\ r.ea = q.ea
      /\ r.tbl = IF t.ht THEN t.tbl ELSE a
  <2>1. CASE t.ht
      BY <1>4, <1>6, <2>1
  <2>2. CASE ~t.ht
      BY <1>4, <1>6, <2>2 DEF Fields
  <2>. QED BY <2>1, <2>2
<1>8. Shape(r) /\ SameKeys(r, t)
  <2>1. Slots(r) = Slots(q) /\ Active(r) = Active(q)
      BY <1>4, <1>7 DEF Slots, Active
  <2>. QED BY <1>4, <1>7, <2>1 DEF Shape, SameKeys
<1>. QED BY <1>1, <1>5, <1>7, <1>8

\* The keys of a compressed table are keys of the table.
LEMMA CompressKeys ==
    ASSUME NEW t, Entries(t), NEW i \in Active(ea_compress(t))
    PROVE  \E j \in Active(t) : ea_compress(t).ea[i] = t.ea[j]
<1>1. /\ t.size \in Nat /\ i \in 0 .. t.size - 1 /\ ea_compress(t).ea[i] = t.ea[ActiveList(t)[i + 1]]
    BY CompressFacts
<1>2. i + 1 \in 1 .. Cardinality(Active(t))
    BY <1>1 DEF Entries
<1>3. ActiveList(t)[i + 1] \in Active(t)
    BY <1>2, ListFacts DEF Entries
<1>. QED BY <1>1, <1>3

\* ar_compress() and the other small results: packed, with keys of the table
LEMMA ar_compressFacts ==
    ASSUME NEW t, Good(t), ~t.ht, t.size < t.used, NEW a
    PROVE  LET r == ar_compress(t, a)
           IN  /\ Entries(r) /\ ~r.ht /\ Small(r) /\ r.used < r.capa /\ r.used <= t.used
               /\ Distinct(t) => Distinct(r)
               /\ \A i \in Active(r) : \E j \in Active(t) : r.ea[i].key = t.ea[j].key
<1>1. Entries(t) /\ t.used \in Nat /\ t.capa \in Nat /\ t.used <= t.capa /\ t.capa <= AR_MAX_SIZE /\ t.used <= EA_MAX_CAPA
    BY DEF Good, Entries, Shape, Small
<1>2. PICK c : c = ea_compress(t)
    OBVIOUS
<1>3. /\ DOMAIN c = Fields
      /\ c.ht = t.ht /\ c.size = t.size /\ c.capa = t.capa
      /\ Shape(c) /\ t.size \in Nat /\ t.size <= t.used /\ Active(c) = 0 .. t.size - 1
    BY <1>1, <1>2, CompressFacts
<1>4. PICK d : d = [c EXCEPT !.used = t.size]
    OBVIOUS
<1>5. /\ DOMAIN d = Fields
      /\ d.ht = t.ht /\ d.size = t.size /\ d.used = t.size /\ d.capa = t.capa /\ d.bit = c.bit /\ d.ea = c.ea
    BY <1>3, <1>4 DEF Fields
<1>6. Active(d) = Active(c) /\ Slots(d) = Slots(c)
    BY <1>3, <1>5 DEF Active, Slots
<1>7. Entries(d)
  <2>1. Shape(d)
      BY <1>3, <1>5, <1>6 DEF Shape
  <2>2. Cardinality(Active(d)) = t.size /\ \A i \in Active(d) : i < t.size
      BY <1>3, <1>6, SlotsCount
  <2>3. t.size <= t.capa /\ t.size <= EA_MAX_CAPA
      BY <1>1, <1>3, SizeFacts
  <2>. QED BY <1>5, <2>1, <2>2, <2>3 DEF Entries
<1>8. PICK max \in Nat : max = (IF t.capa < AR_MAX_SIZE THEN t.capa ELSE AR_MAX_SIZE) /\ t.size < max /\ max <= AR_MAX_SIZE
    BY <1>1, <1>3, SizeFacts
<1>9. PICK r : r = ar_compress(t, a)
    OBVIOUS
<1>10. r = adjust_ea(d, t.size, max, a)
    BY <1>2, <1>4, <1>8, <1>9 DEF ar_compress
<1>11. /\ ea_next_capa_for(t.size, max) \in Nat /\ t.size < ea_next_capa_for(t.size, max)
       /\ ea_next_capa_for(t.size, max) <= AR_MAX_SIZE
    BY <1>3, <1>8, NextCapa
<1>12. d.used <= ea_next_capa_for(t.size, max)
    BY <1>3, <1>5, <1>11
<1>13. /\ r.ht = d.ht /\ r.used = d.used /\ r.ea_at = a /\ r.capa = ea_next_capa_for(t.size, max)
       /\ r.tbl = (IF d.ht THEN d.tbl ELSE a) /\ Entries(r) /\ SameKeys(r, d)
    BY ONLY max \in Nat, <1>3, <1>7, <1>10, <1>12, AdjustFacts
<1>14. /\ ~r.ht /\ Small(r) /\ r.used < r.capa /\ r.used <= t.used
    BY <1>3, <1>5, <1>11, <1>13 DEF Small
<1>15. SameKeys(d, c)
    BY <1>5, <1>6 DEF SameKeys
<1>16. Distinct(t) => Distinct(r)
    BY <1>1, <1>2, <1>13, <1>15, CompressDistinct, SameDistinct
<1>17. \A i \in Active(r) : \E j \in Active(t) : r.ea[i].key = t.ea[j].key
  <2>. SUFFICES ASSUME NEW i \in Active(r) PROVE \E j \in Active(t) : r.ea[i].key = t.ea[j].key
      OBVIOUS
  <2>1. i \in Active(c) /\ r.ea[i].key = c.ea[i].key
      BY <1>13, <1>15 DEF SameKeys
  <2>2. PICK j \in Active(t) : c.ea[i] = t.ea[j]
      BY <1>1, <1>2, <2>1, CompressKeys
  <2>. QED BY <2>1, <2>2
<1>. QED BY <1>9, <1>13, <1>14, <1>16, <1>17

LEMMA ht_to_arFacts ==
    ASSUME NEW t, Entries(t), t.size <= AR_MAX_SIZE, NEW a
    PROVE  LET r == ht_to_ar(t, a)
           IN  Good(r) /\ ~r.ht /\ r.size = t.size /\ r.used \in Nat /\ r.used <= t.used /\ (Distinct(t) => Keyed(r))
<1>1. t.used \in Nat /\ t.capa \in Nat /\ t.used <= t.capa /\ t.used <= EA_MAX_CAPA
    BY DEF Entries, Shape
<1>2. PICK c : c = ea_compress(t)
    OBVIOUS
<1>3. /\ DOMAIN c = Fields
      /\ c.size = t.size /\ Shape(c) /\ t.size \in Nat /\ t.size <= t.used /\ Active(c) = 0 .. t.size - 1
    BY <1>2, CompressFacts
<1>4. PICK n \in Nat : n = ea_next_capa_for(t.size, AR_MAX_SIZE) /\ t.size <= n /\ n <= AR_MAX_SIZE
  <2>1. AR_MAX_SIZE \in Nat /\ AR_MAX_SIZE <= AR_MAX_SIZE /\ t.size \in Nat
      BY <1>3, SizeFacts
  <2>. QED BY <2>1, NextCapa
<1>5. PICK q : q = ea_resize(c, n, a)
    OBVIOUS
<1>6. \A i \in Active(c) : i < n
    BY <1>3, <1>4
<1>7. /\ DOMAIN q = Fields /\ q.size = c.size /\ q.bit = c.bit /\ q.ea_at = a /\ q.capa = n
      /\ Shape(q) /\ SameKeys(q, c)
    BY ONLY n \in Nat, <1>3, <1>5, <1>6, ResizeFacts
<1>8. PICK r : r = ht_to_ar(t, a)
    OBVIOUS
<1>9. r = [q EXCEPT !.ht = FALSE, !.tbl = a, !.used = t.size, !.ib = << >>]
    BY <1>2, <1>4, <1>5, <1>8 DEF ht_to_ar
<1>10. /\ DOMAIN r = Fields
       /\ r.ht = FALSE /\ r.tbl = a /\ r.ea_at = a /\ r.used = t.size /\ r.size = t.size
       /\ r.capa = n /\ r.bit = q.bit /\ r.ea = q.ea
    BY <1>3, <1>7, <1>9 DEF Fields
<1>11. Active(r) = Active(q) /\ Slots(r) = Slots(q)
    BY <1>7, <1>10 DEF Active, Slots
<1>12. Shape(r) /\ SameKeys(r, q)
    BY <1>3, <1>7, <1>10, <1>11 DEF Shape, SameKeys
<1>13. Entries(r)
  <2>1. Active(r) = 0 .. t.size - 1
      BY <1>3, <1>7, <1>11 DEF SameKeys
  <2>2. Cardinality(Active(r)) = t.size /\ \A i \in Active(r) : i < t.size
      BY <1>3, <2>1, SlotsCount
  <2>3. t.size <= EA_MAX_CAPA
      BY <1>1, <1>3, SizeFacts
  <2>. QED BY <1>4, <1>10, <1>12, <2>2, <2>3 DEF Entries
<1>14. Good(r)
    BY <1>4, <1>10, <1>13 DEF Good, Small
<1>15. Distinct(t) => Keyed(r)
    BY <1>2, <1>7, <1>10, <1>12, CompressDistinct, SameDistinct DEF Keyed
<1>. QED BY <1>3, <1>8, <1>10, <1>14, <1>15

LEMMA ar_setGood ==
    ASSUME NEW t, Good(t), ~t.ht, t.used < EA_MAX_CAPA, content \in [Key -> Key],
           NEW k \in Key, NEW v \in Val, NEW a
    PROVE  Holds(ar_set(t, k, v, a), t)
<1>1. Entries(t) /\ Shape(t) /\ t.used \in Nat /\ t.capa \in Nat /\ t.used <= t.capa /\ Small(t)
    BY DEF Good, Entries, Shape
<1>2. t.size \in Nat /\ t.size <= t.used /\ t.size = Cardinality(Active(t))
    BY <1>1, CompressFacts DEF Entries
<1>3. PICK S : S = ea_get_by_key(t, t.size, k)
    OBVIOUS
<1>4. S = {i \in Active(t) : content[k] = content[t.ea[i].key]}
    BY <1>1, <1>3, ArSearch
<1>5. PICK room : room = CASE t.capa # t.used -> t
                           [] t.capa = t.used /\ t.size = t.used -> adjust_ea(t, t.size, AR_MAX_SIZE, a)
                           [] t.capa = t.used /\ t.size # t.used -> ar_compress(t, a)
    OBVIOUS
<1>6. ar_set(t, k, v, a) =
         CASE S # {} -> [t EXCEPT !.ea[Min(S)].val = v]
           [] S = {} /\ {t.capa, t.used, t.size} = {AR_MAX_SIZE} ->
                 HtStore(ht_init(t, t.size, IB_INIT_BIT, a), k, v, a)
           [] S = {} /\ {t.capa, t.used, t.size} # {AR_MAX_SIZE} -> AppendEntry(room, k, v)
    BY <1>3, <1>5 DEF ar_set
<1>7. CASE S # {}
  <2>1. S \in SUBSET Nat
      BY <1>1, <1>4, ActiveFacts
  <2>2. Min(S) \in Active(t)
      BY <1>4, <1>7, <2>1, MinFacts
  <2>3. ar_set(t, k, v, a) = [t EXCEPT !.ea[Min(S)].val = v]
      BY <1>6, <1>7
  <2>. QED BY <2>2, <2>3, SetValueGood
<1>8. CASE S = {} /\ {t.capa, t.used, t.size} = {AR_MAX_SIZE}
  <2>1. t.capa = AR_MAX_SIZE /\ t.used = AR_MAX_SIZE /\ t.size = AR_MAX_SIZE
      BY <1>8
  <2>2. Active(t) = 0 .. t.size - 1
    <3>1. Active(t) \in SUBSET (0 .. t.capa - 1)
        BY <1>1, ActiveFacts
    <3>2. Cardinality(Active(t)) = t.capa
        BY <1>2, <2>1
    <3>3. Active(t) = 0 .. t.capa - 1
        BY <1>1, <3>1, <3>2, SlotsFinite
    <3>. QED BY <2>1, <3>3
  <2>3. PICK c \in Nat : c = ib_bit_to_capa[IB_INIT_BIT] /\ (3 * c) \div 4 <= c - 2 /\ AR_MAX_SIZE < (3 * c) \div 4 /\ (3 * c) \div 4 \in Nat
      BY SizeFacts, CapaFacts, HashAssumption DEF ib_upper_bound_for
  <2>4. t.size + 1 <= c - 2 /\ t.size <= ib_bit_to_capa[IB_INIT_BIT] - 2 /\ t.size <= EA_MAX_CAPA /\ t.size <= t.capa
      BY <1>1, <1>2, <2>1, <2>3, SizeFacts
  <2>. DEFINE q == ht_init(t, t.size, IB_INIT_BIT, a)
  <2>5. Good(q) /\ q.ht /\ q.used = t.size /\ q.bit = IB_INIT_BIT /\ (Distinct(t) => Keyed(q))
      BY <1>1, <1>2, <2>2, <2>4, SizeFacts, PackedHt
  <2>6. ar_set(t, k, v, a) = HtStore(q, k, v, a)
      BY <1>6, <1>8
  <2>. HIDE DEF q
  <2>7. q.used + 1 <= DeletedValue(q)
      BY <2>3, <2>4, <2>5 DEF DeletedValue, ib_capa
  <2>8. q.used < EA_MAX_CAPA
      BY <2>1, <2>5
  <2>9. Holds(HtStore(q, k, v, a), q)
      BY <2>5, <2>7, <2>8, HtStoreGood
  <2>10. Keyed(t) => Keyed(q)
      BY <2>5 DEF Keyed
  <2>. QED BY <1>1, <1>2, <2>5, <2>6, <2>9, <2>10, HoldsThrough
<1>9. CASE S = {} /\ {t.capa, t.used, t.size} # {AR_MAX_SIZE}
  <2>1. ar_set(t, k, v, a) = AppendEntry(room, k, v)
      BY <1>6, <1>9
  <2>2. /\ Entries(room) /\ ~room.ht /\ Small(room) /\ room.used < room.capa /\ room.used <= t.used
        /\ Distinct(t) => Distinct(room)
        /\ \A i \in Active(room) : \E j \in Active(t) : room.ea[i].key = t.ea[j].key
    <3>1. CASE t.capa # t.used
      <4>1. room = t
          BY <1>5, <3>1
      <4>2. t.used < t.capa
          BY <1>1, <3>1
      <4>. QED BY <1>1, <4>1, <4>2
    <3>2. CASE t.capa = t.used /\ t.size = t.used
      <4>. DEFINE r == adjust_ea(t, t.size, AR_MAX_SIZE, a)
      <4>1. room = r
          BY <1>5, <3>2
      <4>2. t.size < AR_MAX_SIZE
        <5>1. t.size # AR_MAX_SIZE
            BY <1>9, <3>2
        <5>2. t.size <= AR_MAX_SIZE
            BY <1>1, <3>2 DEF Small
        <5>. QED BY <1>2, <5>1, <5>2, SizeFacts
      <4>3. PICK n \in Nat : n = ea_next_capa_for(t.size, AR_MAX_SIZE) /\ t.size < n /\ n <= AR_MAX_SIZE
        <5>1. AR_MAX_SIZE \in Nat /\ AR_MAX_SIZE <= AR_MAX_SIZE
            BY SizeFacts
        <5>. QED BY <1>2, <4>2, <5>1, NextCapa
      <4>4. t.used <= ea_next_capa_for(t.size, AR_MAX_SIZE)
          BY <1>2, <3>2, <4>3
      <4>5. /\ r.ht = t.ht /\ r.size = t.size /\ r.used = t.used /\ r.bit = t.bit
            /\ r.ib = t.ib /\ r.ea_at = a /\ r.capa = ea_next_capa_for(t.size, AR_MAX_SIZE)
            /\ r.tbl = IF t.ht THEN t.tbl ELSE a
            /\ Entries(r) /\ SameKeys(r, t)
          BY <1>1, <1>2, <4>4, SizeFacts, AdjustFacts
      <4>. HIDE DEF r
      <4>6. Small(r) /\ ~r.ht /\ r.used < r.capa /\ r.used <= t.used
          BY <1>1, <3>2, <4>3, <4>5 DEF Small
      <4>7. Distinct(t) => Distinct(r)
          BY <4>5, SameDistinct
      <4>8. \A i \in Active(r) : \E j \in Active(t) : r.ea[i].key = t.ea[j].key
          BY <4>5 DEF SameKeys
      <4>. QED BY <4>1, <4>5, <4>6, <4>7, <4>8
    <3>3. CASE t.capa = t.used /\ t.size # t.used
      <4>. DEFINE r == ar_compress(t, a)
      <4>1. room = r
          BY <1>5, <3>3
      <4>2. t.size < t.used
          BY <1>1, <1>2, <3>3
      <4>3. /\ Entries(r) /\ ~r.ht /\ Small(r) /\ r.used < r.capa /\ r.used <= t.used
            /\ Distinct(t) => Distinct(r)
            /\ \A i \in Active(r) : \E j \in Active(t) : r.ea[i].key = t.ea[j].key
          BY <4>2, ar_compressFacts
      <4>. HIDE DEF r
      <4>. QED BY <4>1, <4>3
    <3>. QED BY <3>1, <3>2, <3>3
  <2>3. \A i \in Active(room) : content[room.ea[i].key] # content[k]
      BY <1>4, <1>9, <2>2
  <2>4. room.used < EA_MAX_CAPA
      BY <1>1, <2>2, SizeFacts DEF Entries, Shape
  <2>5. Holds(AppendEntry(room, k, v), t)
      BY <2>2, <2>3, <2>4, ArAppendGood
  <2>. QED BY <2>1, <2>5
<1>. QED BY <1>7, <1>8, <1>9

\* ht_set() builds a new index for what it compressed,
LEMMA RebuiltGood ==
    ASSUME NEW t, Good(t), NEW c, Shape(c), SameKeys(c, ea_compress(t)), t.size <= c.capa, NEW bit \in Nat, bit >= 3,
           t.size + 1 <= ib_bit_to_capa[bit] - 2, t.used < EA_MAX_CAPA, content \in [Key -> Key],
           NEW k \in Key, NEW v \in Val, NEW a
    PROVE  Holds(HtStore(ht_init(c, t.size, bit, a), k, v, a), t)
<1>1. Entries(t) /\ t.used \in Nat
    BY DEF Good, Entries, Shape
<1>2. t.size \in Nat /\ t.size <= t.used /\ Active(ea_compress(t)) = 0 .. t.size - 1
    BY <1>1, CompressFacts
<1>3. Active(c) = 0 .. t.size - 1
    BY <1>2 DEF SameKeys
<1>4. PICK n \in Nat : n = ib_bit_to_capa[bit]
    BY ShiftType
<1>5. t.size <= ib_bit_to_capa[bit] - 2 /\ t.size <= EA_MAX_CAPA /\ t.size < EA_MAX_CAPA
    BY <1>1, <1>2, <1>4, SizeFacts
<1>. DEFINE q == ht_init(c, t.size, bit, a)
<1>6. Good(q) /\ q.ht /\ q.used = t.size /\ q.bit = bit /\ (Distinct(c) => Keyed(q))
    BY <1>2, <1>3, <1>5, PackedHt
<1>. HIDE DEF q
<1>7. q.used + 1 <= DeletedValue(q)
    BY <1>2, <1>4, <1>6 DEF DeletedValue, ib_capa
<1>8. q.used < EA_MAX_CAPA
    BY <1>5, <1>6
<1>9. Holds(HtStore(q, k, v, a), q)
    BY <1>6, <1>7, <1>8, HtStoreGood
<1>10. Keyed(t) => Keyed(q)
    BY <1>1, <1>6, CompressDistinct, SameDistinct DEF Keyed
<1>11. Holds(HtStore(q, k, v, a), t)
    BY <1>1, <1>2, <1>6, <1>9, <1>10, HoldsThrough
<1>. QED BY <1>11 DEF q

LEMMA ht_setGood ==
    ASSUME NEW t, Good(t), t.ht, t.used < EA_MAX_CAPA, content \in [Key -> Key],
           NEW k \in Key, NEW v \in Val, NEW a
    PROVE  Holds(ht_set(t, k, v, a), t)
<1>1. Entries(t) /\ Shape(t) /\ t.used \in Nat /\ t.capa \in Nat /\ t.used <= t.capa /\ t.bit \in Nat /\ t.bit >= 3
      /\ Index(t, t.used)
    BY DEF Good, Entries, Shape, Index
<1>2. t.size \in Nat /\ t.size <= t.used
    BY <1>1, CompressFacts
<1>3. PICK n \in Nat : n = ib_capa(t) /\ n >= 8 /\ ib_upper_bound_for(n) \in Nat /\ ib_upper_bound_for(n) <= n - 2
                       /\ DeletedValue(t) = n - 2
    BY <1>1, IndexFacts
<1>4. t.used <= n - 2
    BY <1>3, <1>1 DEF Index
<1>. DEFINE packed == ea_compress(t)
            fitted == adjust_ea(packed, t.size, t.capa, a)
            compressed == ht_init(fitted, t.size, t.bit, a)
<1>5. Shape(packed) /\ packed.capa = t.capa /\ Active(packed) = 0 .. t.size - 1
    BY <1>1, CompressFacts
<1>6. CASE ib_upper_bound_for(ib_capa(t)) <= t.size
  <2>1. ht_set(t, k, v, a) = HtStore(ht_init(packed, t.size, t.bit + 1, a), k, v, a)
    <3>1. Grows(t) /\ ~Demotes(t) /\ ~Compresses(t)
        BY <1>6 DEF Grows, Demotes, Compresses
    <3>. QED BY <3>1 DEF ht_set
  <2>2. ib_bit_to_capa[t.bit + 1] = 2 * n /\ t.bit + 1 \in Nat /\ t.bit + 1 >= 3
      BY <1>1, <1>3, ShiftNext DEF ib_capa
  <2>3. t.size + 1 <= ib_bit_to_capa[t.bit + 1] - 2
      BY <1>1, <1>2, <1>3, <1>4, <2>2
  <2>4. SameKeys(packed, ea_compress(t)) /\ t.size <= packed.capa
      BY <1>1, <1>2, <1>5 DEF SameKeys
  <2>. HIDE DEF packed
  <2>5. PICK b \in Nat : b = t.bit + 1
      BY <2>2
  <2>6. Holds(HtStore(ht_init(packed, t.size, b, a), k, v, a), t)
    <3>1. b >= 3 /\ t.size + 1 <= ib_bit_to_capa[b] - 2
        BY <2>2, <2>3, <2>5
    <3>. QED BY <1>5, <2>4, <3>1, RebuiltGood
  <2>. QED BY <2>1, <2>5, <2>6
<1>7. CASE ~(ib_upper_bound_for(ib_capa(t)) <= t.size)
  <2>1. t.size + 1 <= n - 2 /\ t.size + 1 <= ib_bit_to_capa[t.bit] - 2
      BY <1>2, <1>3, <1>7 DEF ib_capa
  <2>2. Holds(HtStore(compressed, k, v, a), t)
    <3>1. \A i \in Active(packed) : i < ea_next_capa_for(t.size, t.capa)
      <4>1. t.size <= t.capa
          BY <1>1, <1>2
      <4>2. t.size <= ea_next_capa_for(t.size, t.capa) /\ ea_next_capa_for(t.size, t.capa) \in Nat
          BY <1>1, <1>2, <4>1, NextCapa
      <4>. QED BY <1>2, <1>5, <4>2
    <3>2. t.size <= ea_next_capa_for(t.size, t.capa)
      <4>1. t.size <= t.capa
          BY <1>1, <1>2
      <4>. QED BY <1>1, <1>2, <4>1, NextCapa
    <3>3. fitted.capa = ea_next_capa_for(t.size, t.capa) /\ Shape(fitted) /\ SameKeys(fitted, packed)
      <4>. HIDE DEF packed
      <4>. QED BY <1>1, <1>2, <1>5, <3>1, AdjustShape
    <3>. HIDE DEF fitted
    <3>. QED BY <1>1, <2>1, <3>2, <3>3, RebuiltGood
  <2>. HIDE DEF compressed
  <2>3. CASE t.size = t.used
    <3>1. ht_set(t, k, v, a) = HtStore(t, k, v, a)
        BY <1>7, <2>3 DEF ht_set, Grows, Demotes, Compresses
    <3>2. t.used + 1 <= DeletedValue(t)
        BY <1>3, <2>1, <2>3
    <3>. QED BY <3>1, <3>2, HtStoreGood
  <2>4. CASE t.size # t.used /\ ib_capa(t) - 2 <= t.used
    <3>1. ht_set(t, k, v, a) = HtStore(compressed, k, v, a)
        BY <1>7, <2>4 DEF ht_set, compressed, fitted, packed, Grows, Demotes, Compresses, Tight, Fitted
    <3>. QED BY <2>2, <3>1
  <2>5. CASE t.size # t.used /\ ~(ib_capa(t) - 2 <= t.used)
    <3>1. Holds(HtStore(t, k, v, a), t)
      <4>1. t.used + 1 <= DeletedValue(t)
          BY <1>1, <1>3, <2>5
      <4>. QED BY <4>1, HtStoreGood
    <3>2. CASE t.capa = t.used /\ t.size <= AR_MAX_SIZE
      <4>1. ht_set(t, k, v, a) = ar_set(ht_to_ar(t, a), k, v, a)
        <5>1. ~(t.size > AR_MAX_SIZE)
            BY <1>2, <3>2, HashAssumption
        <5>2. ~Grows(t) /\ Demotes(t) /\ ~Compresses(t)
            BY <1>7, <2>5, <3>2, <5>1 DEF Grows, Demotes, Compresses, Tight
        <5>. QED BY <5>2 DEF ht_set
      <4>. DEFINE q == ht_to_ar(t, a)
      <4>2. Good(q) /\ ~q.ht /\ q.used \in Nat /\ q.used <= t.used /\ (Distinct(t) => Keyed(q))
          BY <1>1, <3>2, ht_to_arFacts
      <4>. HIDE DEF q
      <4>3. q.used < EA_MAX_CAPA
          BY <1>1, <4>2, SizeFacts
      <4>4. Holds(ar_set(q, k, v, a), q)
          BY <4>2, <4>3, ar_setGood
      <4>5. Keyed(t) => Keyed(q)
          BY <4>2 DEF Keyed
      <4>6. Holds(ar_set(q, k, v, a), t)
          BY <1>1, <4>2, <4>4, <4>5, HoldsThrough
      <4>. QED BY <4>1, <4>6 DEF q
    <3>3. CASE ~(t.capa = t.used /\ t.size <= AR_MAX_SIZE)
      <4>1. ht_set(t, k, v, a) = HtStore(compressed, k, v, a) \/ ht_set(t, k, v, a) = HtStore(t, k, v, a)
          BY <1>7, <2>5, <3>3 DEF ht_set, compressed, fitted, packed, Grows, Demotes, Compresses, Tight, Fitted
      <4>. QED BY <2>2, <3>1, <4>1
    <3>. QED BY <3>2, <3>3
  <2>. QED BY <2>3, <2>4, <2>5
<1>. QED BY <1>6, <1>7

LEMMA h_setGood ==
    ASSUME NEW t, Good(t), t.used < EA_MAX_CAPA, content \in [Key -> Key], NEW k \in Key, NEW v \in Val, NEW a
    PROVE  Holds(h_set(t, k, v, a), t)
    BY ar_setGood, ht_setGood DEF h_set

-----------------------------------------------------------------------------
(* Deleting.                                                               *)

\* What a method that adds nothing makes of a good table
Keeps(r, t) == Good(r) /\ (Keyed(t) => Keyed(r))

LEMMA DropFacts ==
    ASSUME NEW t, Shape(t), t.size = Cardinality(Active(t)), NEW i \in Active(t)
    PROVE  LET u == Drop(t, i)
           IN  /\ DOMAIN u = Fields
               /\ u.ht = t.ht /\ u.used = t.used /\ u.capa = t.capa /\ u.bit = t.bit
               /\ u.ib = t.ib /\ u.tbl = t.tbl /\ u.ea_at = t.ea_at
               /\ u.ea = [t.ea EXCEPT ![i] = Vacant]
               /\ Shape(u) /\ Active(u) = Active(t) \ {i} /\ u.size = Cardinality(Active(u))
               /\ u.size = t.size - 1
               /\ \A j \in Active(u) : u.ea[j] = t.ea[j]
<1>. DEFINE u == Drop(t, i)
<1>1. t.capa \in Nat /\ i \in 0 .. t.capa - 1 /\ t.ea \in [0 .. t.capa - 1 -> Slot] /\ DOMAIN t = Fields
    BY DEF Shape, Slots, Active
<1>2. /\ DOMAIN u = Fields
      /\ u.ht = t.ht /\ u.used = t.used /\ u.capa = t.capa /\ u.bit = t.bit
      /\ u.ib = t.ib /\ u.tbl = t.tbl /\ u.ea_at = t.ea_at /\ u.size = t.size - 1
      /\ u.ea = [t.ea EXCEPT ![i] = Vacant]
    BY <1>1 DEF Drop, Fields
<1>. HIDE DEF u
<1>3. u.ea \in [0 .. t.capa - 1 -> Slot] /\ u.ea[i] = Vacant
      /\ \A j \in 0 .. t.capa - 1 : j # i => u.ea[j] = t.ea[j]
    BY <1>1, <1>2, SlotFacts
<1>4. Shape(u)
    BY <1>2, <1>3 DEF Shape, Slots
<1>5. \A j : j \in Active(u) <=> j \in Active(t) /\ j # i
  <2>1. \A j : j \in Active(u) <=> j \in 0 .. t.capa - 1 /\ u.ea[j] # Vacant
      BY <1>2 DEF Active, Slots
  <2>2. \A j : j \in Active(t) <=> j \in 0 .. t.capa - 1 /\ t.ea[j] # Vacant
      BY DEF Active, Slots
  <2>. QED BY <1>3, <2>1, <2>2
<1>6. Active(u) = Active(t) \ {i}
    BY <1>5
<1>7. u.size = Cardinality(Active(u))
  <2>1. IsFiniteSet(Active(t))
      BY ActiveFacts
  <2>2. Cardinality(Active(t) \ {i}) = Cardinality(Active(t)) - 1
      BY <2>1, FS_RemoveElement
  <2>. QED BY <1>2, <1>6, <2>2
<1>8. \A j \in Active(u) : u.ea[j] = t.ea[j]
    BY <1>2, <1>3, <1>5 DEF Active, Slots
<1>. QED BY <1>2, <1>4, <1>6, <1>7, <1>8 DEF u

\* Fewer entries of the same keys are as distinct.
LEMMA FewerDistinct ==
    ASSUME NEW u, NEW t, Distinct(t), Active(u) \subseteq Active(t), \A j \in Active(u) : u.ea[j].key = t.ea[j].key
    PROVE  Distinct(u)
    BY DEF Distinct

LEMMA DropEntries ==
    ASSUME NEW t, Entries(t), NEW i \in Active(t) PROVE Entries(Drop(t, i))
<1>. DEFINE u == Drop(t, i)
<1>1. /\ u.used = t.used /\ u.capa = t.capa /\ Shape(u) /\ Active(u) = Active(t) \ {i} /\ u.size = Cardinality(Active(u))
    BY DropFacts DEF Entries
<1>. HIDE DEF u
<1>2. Entries(u)
    BY <1>1 DEF Entries
<1>. QED BY <1>2 DEF u

LEMMA ArDrop ==
    ASSUME NEW t, Good(t), ~t.ht, NEW i \in Active(t) PROVE Keeps(Drop(t, i), t)
<1>. DEFINE u == Drop(t, i)
<1>1. /\ u.ht = t.ht /\ u.used = t.used /\ u.capa = t.capa /\ u.tbl = t.tbl /\ u.ea_at = t.ea_at
      /\ Active(u) = Active(t) \ {i} /\ \A j \in Active(u) : u.ea[j] = t.ea[j]
    BY DropFacts, ZenonT(60) DEF Good, Entries
<1>2. Entries(u)
    BY DropEntries DEF Good
<1>. HIDE DEF u
<1>3. Good(u)
    BY <1>1, <1>2 DEF Good, Small
<1>4. Keyed(t) => Keyed(u)
    BY <1>1, FewerDistinct DEF Keyed
<1>5. Keeps(u, t)
    BY <1>3, <1>4 DEF Keeps
<1>. QED BY <1>5 DEF u

\* An entry goes and its bucket is marked deleted.
LEMMA HtDrop ==
    ASSUME NEW t, Good(t), t.ht, content \in [Key -> Key], NEW i \in Active(t),
           NEW p \in 0 .. ib_capa(t) - 1, t.ib[p] = i
    PROVE  Keeps([Drop(t, i) EXCEPT !.ib[p] = DeletedValue(t)], t)
<1>1. Entries(t) /\ Shape(t) /\ t.used \in Nat /\ t.bit \in Nat /\ Index(t, t.used) /\ i \in Nat /\ i < t.used
    BY ActiveFacts DEF Good, Entries, Shape
<1>2. PICK c \in Nat : c = ib_capa(t) /\ c >= 8 /\ DeletedValue(t) = c - 2 /\ EmptyValue(t) = c - 1
    BY <1>1, IndexFacts
<1>3. t.bit >= 3 /\ t.used <= c - 2 /\ i < c - 2
    BY <1>1, <1>2 DEF Index
<1>4. t.ib \in [0 .. c - 1 -> 0 .. c - 1]
    BY <1>1, <1>2 DEF Index
<1>5. \A q \in 0 .. c - 1 : t.ib[q] < c - 2 => t.ib[q] < t.used
    BY <1>1, <1>2 DEF Index
<1>6. \A q, r \in 0 .. c - 1 : t.ib[q] < c - 2 /\ t.ib[q] = t.ib[r] => q = r
    BY <1>1, <1>2 DEF Index
<1>7. \A j \in Active(t) : j < t.used => \E q \in 0 .. c - 1 : t.ib[q] = j
    BY <1>1, <1>2 DEF Index
<1>. DEFINE d == Drop(t, i)
            u == [d EXCEPT !.ib[p] = DeletedValue(t)]
<1>8. /\ DOMAIN d = Fields /\ d.ht = t.ht /\ d.used = t.used /\ d.bit = t.bit /\ d.ib = t.ib
      /\ Active(d) = Active(t) \ {i} /\ \A j \in Active(d) : d.ea[j] = t.ea[j]
  <2>1. t.size = Cardinality(Active(t)) /\ Shape(t)
      BY <1>1 DEF Entries
  <2>2. /\ DOMAIN d = Fields
        /\ d.ht = t.ht /\ d.used = t.used /\ d.capa = t.capa /\ d.bit = t.bit
        /\ d.ib = t.ib /\ d.tbl = t.tbl /\ d.ea_at = t.ea_at
        /\ d.ea = [t.ea EXCEPT ![i] = Vacant]
        /\ Shape(d) /\ Active(d) = Active(t) \ {i} /\ d.size = Cardinality(Active(d))
        /\ d.size = t.size - 1
        /\ \A j \in Active(d) : d.ea[j] = t.ea[j]
      BY ONLY <2>1, i \in Active(t), DropFacts
  <2>. HIDE DEF d
  <2>. QED BY <2>2
<1>9. Entries(d)
    BY <1>1, DropEntries
<1>. HIDE DEF d
<1>10. Alike(u, d) /\ u.ib = [t.ib EXCEPT ![p] = c - 2]
    BY <1>2, <1>8 DEF Alike, Fields
<1>. HIDE DEF u
<1>11. Active(u) = Active(d) /\ Slots(u) = Slots(d)
    BY <1>10, AlikeActive
<1>12. /\ u.ht = t.ht /\ u.used = t.used /\ u.bit = t.bit /\ Active(u) = Active(t) \ {i}
       /\ \A j \in Active(u) : j \in Active(t) /\ j # i /\ u.ea[j] = t.ea[j]
    BY <1>8, <1>10, <1>11 DEF Alike
<1>13. Entries(u)
    BY <1>9, <1>10, <1>11 DEF Entries, Shape, Alike
<1>14. ib_capa(u) = c /\ DeletedValue(u) = c - 2 /\ EmptyValue(u) = c - 1
    BY <1>2, <1>12 DEF ib_capa, DeletedValue, EmptyValue
<1>15. u.ib \in [0 .. c - 1 -> 0 .. c - 1] /\ u.ib[p] = c - 2 /\ p \in 0 .. c - 1
       /\ \A q \in 0 .. c - 1 : q # p => u.ib[q] = t.ib[q]
  <2>1. c - 2 \in 0 .. c - 1
      BY <1>2
  <2>. QED BY <1>2, <1>4, <1>10, <2>1
<1>16. Index(u, u.used)
  <2>1. \A q \in 0 .. c - 1 : u.ib[q] < c - 2 => q # p /\ u.ib[q] = t.ib[q] /\ u.ib[q] < t.used
      BY <1>5, <1>15, SMTT(40)
  <2>2. \A q, r \in 0 .. c - 1 : u.ib[q] < c - 2 /\ u.ib[q] = u.ib[r] => q = r
      BY <1>6, <2>1
  <2>3. \A j \in Active(u) : j < t.used => \E q \in 0 .. c - 1 : u.ib[q] = j
    <3>. SUFFICES ASSUME NEW j \in Active(u), j < t.used PROVE \E q \in 0 .. c - 1 : u.ib[q] = j
        OBVIOUS
    <3>1. PICK q \in 0 .. c - 1 : t.ib[q] = j
        BY <1>7, <1>12
    <3>2. q # p
        BY <1>12, <3>1
    <3>. QED BY <1>15, <3>1, <3>2
  <2>4. Taken(u) = Taken(t)
    <3>1. t.ib[p] # c - 1 /\ u.ib[p] # c - 1
        BY <1>1, <1>2, <1>3, <1>15
    <3>. QED BY <1>2, <1>14, <1>15, <3>1 DEF Taken
  <2>5. Cardinality(Taken(u)) <= t.used
      BY <1>1, <2>4 DEF Index
  <2>6. u.bit >= 3 /\ t.used <= DeletedValue(u)
      BY <1>3, <1>12, <1>14
  <2>7. u.ib \in [0 .. ib_capa(u) - 1 -> 0 .. ib_capa(u) - 1]
      BY <1>14, <1>15
  <2>8. \A q \in 0 .. ib_capa(u) - 1 : u.ib[q] < DeletedValue(u) => u.ib[q] < t.used
      BY <1>14, <2>1
  <2>9. \A q, r \in 0 .. ib_capa(u) - 1 : u.ib[q] < DeletedValue(u) /\ u.ib[q] = u.ib[r] => q = r
      BY <1>14, <2>2
  <2>10. \A j \in Active(u) : j < t.used => \E q \in 0 .. ib_capa(u) - 1 : u.ib[q] = j
      BY <1>14, <2>3
  <2>11. Index(u, t.used)
      BY <2>5, <2>6, <2>7, <2>8, <2>9, <2>10 DEF Index
  <2>. QED BY <1>12, <2>11
<1>17. Good(u)
    BY <1>12, <1>13, <1>16 DEF Good
<1>18. ASSUME Keyed(t) PROVE Keyed(u)
  <2>1. Distinct(u)
      BY <1>12, <1>18, FewerDistinct DEF Keyed
  <2>2. ASSUME NEW j \in Active(u), j < t.used PROVE OnProbe(u, j)
    <3>1. j \in Active(t) /\ j # i /\ u.ea[j] = t.ea[j] /\ t.ea[j].key \in Key /\ j \in Nat
        BY <1>1, <1>12, ActiveFacts
    <3>2. OnProbe(t, j)
        BY <1>18, <2>2, <3>1 DEF Keyed, Reachable
    <3>3. \A q \in 0 .. ib_capa(t) - 1 : t.ib[q] = j => u.ib[q] = j
        BY <1>2, <1>15, <3>1
    <3>4. \A q \in 0 .. ib_capa(t) - 1 : t.ib[q] # EmptyValue(t) => u.ib[q] # EmptyValue(t)
        BY <1>2, <1>15
    <3>5. u.bit = t.bit /\ content[u.ea[j].key] = content[t.ea[j].key]
        BY <1>12, <3>1
    <3>. QED BY <1>1, <3>1, <3>2, <3>3, <3>4, <3>5, StaysOnProbe
  <2>3. Reachable(u, u.used)
      BY <1>12, <2>2 DEF Reachable
  <2>. QED BY <2>1, <2>3 DEF Keyed
<1>19. Keeps(u, t)
    BY <1>17, <1>18 DEF Keeps
<1>. QED BY <1>19 DEF u, d

LEMMA h_deleteGood ==
    ASSUME NEW t, Good(t), content \in [Key -> Key], NEW k \in Key, h_get(t, k) # Vacant
    PROVE  Keeps(h_delete(t, k), t)
<1>1. Entries(t) /\ Shape(t) /\ t.used \in Nat /\ t.capa \in Nat /\ t.used <= t.capa /\ t.bit \in Nat /\ t.ht \in BOOLEAN
    BY DEF Good, Entries, Shape
<1>2. CASE t.ht
  <2>1. Found(t, k) /\ Index(t, t.used)
      BY <1>2 DEF h_get, ht_get, Good
  <2>2. Min(Hits(t, k)) \in Hits(t, k)
      BY <1>1, <2>1, FoundHits, FirstHit
  <2>. DEFINE s == Min(Hits(t, k))
              p == Probe(t, k, s)
  <2>3. p \in 0 .. ib_capa(t) - 1 /\ t.ib[p] \in Active(t)
      BY <1>1, <2>1, <2>2, HitFacts
  <2>4. h_delete(t, k) = [Drop(t, t.ib[p]) EXCEPT !.ib[p] = DeletedValue(t)]
      BY <1>2 DEF h_delete, ht_delete
  <2>. QED BY <1>2, <2>3, <2>4, HtDrop
<1>3. CASE ~t.ht
  <2>. DEFINE S == ea_get_by_key(t, t.size, k)
  <2>1. S # {}
      BY <1>3 DEF h_get, ar_get
  <2>2. S \in SUBSET Active(t)
      BY <1>1, ArSearch
  <2>3. S \in SUBSET Nat
      BY <1>1, <2>2, ActiveFacts
  <2>4. Min(S) \in Active(t)
      BY <2>1, <2>2, <2>3, MinFacts
  <2>5. h_delete(t, k) = Drop(t, Min(S))
      BY <1>3 DEF h_delete, ar_delete
  <2>. QED BY <1>3, <2>4, <2>5, ArDrop
<1>. QED BY <1>1, <1>2, <1>3

LEMMA h_shiftGood ==
    ASSUME NEW t, Good(t), content \in [Key -> Key], t.size # 0
    PROVE  Keeps(h_shift(t), t)
<1>1. Entries(t) /\ Shape(t) /\ t.used \in Nat /\ t.capa \in Nat /\ t.used <= t.capa /\ t.bit \in Nat /\ t.ht \in BOOLEAN
    BY DEF Good, Entries, Shape
<1>2. Active(t) # {} /\ Active(t) \in SUBSET Nat
    BY <1>1, ActiveFacts, FS_EmptySet DEF Entries
<1>3. PICK i \in Active(t) : i = Min(Active(t))
    BY <1>2, MinFacts
<1>4. CASE t.ht
  <2>1. Index(t, t.used) /\ i < t.used /\ t.ea[i].key \in Key
      BY <1>1, <1>4, ActiveFacts DEF Good, Entries
  <2>2. PICK q \in 0 .. ib_capa(t) - 1 : t.ib[q] = i
      BY <2>1 DEF Index
  <2>3. PICK r \in Steps(t) : Probe(t, t.ea[i].key, r) = q
      BY <1>1, <2>1, ProbeOnto
  <2>. DEFINE S == {n \in Steps(t) : Bucket(t, t.ea[i].key, n) = i}
              s == Min(S)
              p == Probe(t, t.ea[i].key, s)
  <2>4. r \in S
      BY <2>2, <2>3 DEF Bucket
  <2>5. S \in SUBSET Nat
      BY <1>1, ShiftType DEF Steps, ib_capa
  <2>6. s \in S /\ s \in Nat
      BY <2>4, <2>5, MinFacts
  <2>7. t.ib[p] = i
      BY <2>6 DEF Bucket
  <2>8. p \in 0 .. ib_capa(t) - 1
      BY <1>1, <2>1, <2>6, ProbeType
  <2>9. h_shift(t) = [Drop(t, i) EXCEPT !.ib[p] = DeletedValue(t)]
      BY <1>3, <1>4 DEF h_shift, ht_shift
  <2>. HIDE DEF p
  <2>. QED BY <1>4, <2>7, <2>8, <2>9, HtDrop
<1>5. CASE ~t.ht
  <2>1. h_shift(t) = Drop(t, i)
      BY <1>3, <1>5 DEF h_shift, ar_shift
  <2>. QED BY <1>5, <2>1, ArDrop
<1>. QED BY <1>1, <1>4, <1>5

\* An index stays one when entries go and their buckets do not.
LEMMA FewerIndex ==
    ASSUME NEW u, NEW t, NEW n, Active(u) \subseteq Active(t), \A j \in Active(u) : u.ea[j].key = t.ea[j].key,
           u.bit = t.bit, u.ib = t.ib
    PROVE  (Index(t, n) => Index(u, n)) /\ (Reachable(t, n) => Reachable(u, n))
<1>1. ib_capa(u) = ib_capa(t) /\ EmptyValue(u) = EmptyValue(t) /\ DeletedValue(u) = DeletedValue(t)
      /\ Steps(u) = Steps(t)
    BY DEF ib_capa, EmptyValue, DeletedValue, Steps
<1>2. Taken(u) = Taken(t)
    BY <1>1 DEF Taken
<1>3. Index(t, n) => Index(u, n)
    BY <1>1, <1>2 DEF Index
<1>4. \A k, s : Bucket(u, k, s) = Bucket(t, k, s)
    BY <1>1 DEF Bucket, Probe
<1>5. \A i \in Active(u) : OnProbe(t, i) => OnProbe(u, i)
    BY <1>1, <1>4 DEF OnProbe
<1>6. Reachable(t, n) => Reachable(u, n)
    BY <1>5 DEF Reachable
<1>. QED BY <1>3, <1>6

LEMMA CompactGood ==
    ASSUME NEW t, Good(t), NEW dead \in SUBSET Active(t)
    PROVE  Keeps([t EXCEPT !.ea = [i \in Slots(t) |-> IF i \in dead THEN Vacant ELSE t.ea[i]],
                           !.size = @ - Cardinality(dead)], t)
<1>. DEFINE u == [t EXCEPT !.ea = [i \in Slots(t) |-> IF i \in dead THEN Vacant ELSE t.ea[i]],
                           !.size = @ - Cardinality(dead)]
<1>1. Entries(t) /\ Shape(t) /\ DOMAIN t = Fields /\ t.capa \in Nat /\ t.ea \in [0 .. t.capa - 1 -> Slot]
      /\ t.size = Cardinality(Active(t)) /\ IsFiniteSet(Active(t)) /\ Cardinality(Active(t)) \in Nat
    BY ActiveFacts DEF Good, Entries, Shape, Slots
<1>2. /\ DOMAIN u = Fields
      /\ u.ht = t.ht /\ u.used = t.used /\ u.capa = t.capa /\ u.bit = t.bit
      /\ u.ib = t.ib /\ u.tbl = t.tbl /\ u.ea_at = t.ea_at /\ u.size = t.size - Cardinality(dead)
      /\ u.ea = [i \in 0 .. t.capa - 1 |-> IF i \in dead THEN Vacant ELSE t.ea[i]]
    BY <1>1 DEF Fields, Slots
<1>. HIDE DEF u
<1>3. u.ea \in [0 .. t.capa - 1 -> Slot]
      /\ \A i \in 0 .. t.capa - 1 : u.ea[i] = IF i \in dead THEN Vacant ELSE t.ea[i]
    BY <1>1, <1>2, SlotFacts
<1>4. Shape(u)
    BY <1>1, <1>2, <1>3 DEF Shape, Slots
<1>5. \A j : j \in Active(u) <=> j \in Active(t) /\ j \notin dead
  <2>1. \A j : j \in Active(u) <=> j \in 0 .. t.capa - 1 /\ u.ea[j] # Vacant
      BY <1>2 DEF Active, Slots
  <2>2. \A j : j \in Active(t) <=> j \in 0 .. t.capa - 1 /\ t.ea[j] # Vacant
      BY DEF Active, Slots
  <2>. QED BY <1>3, <2>1, <2>2
<1>6. Active(u) = Active(t) \ dead
    BY <1>5
<1>7. \A j \in Active(u) : u.ea[j] = t.ea[j]
    BY <1>3, <1>5 DEF Active, Slots
<1>8. u.size = Cardinality(Active(u))
  <2>1. IsFiniteSet(dead) /\ IsFiniteSet(Active(u))
      BY <1>1, <1>6, FS_Subset, FS_Difference
  <2>2. Active(t) = Active(u) \cup dead /\ Active(u) \cap dead = {}
      BY <1>6
  <2>3. Cardinality(Active(u) \cup dead) = Cardinality(Active(u)) + Cardinality(dead) - Cardinality({})
      BY <2>1, <2>2, FS_Union
  <2>4. Cardinality({}) = 0 /\ Cardinality(dead) \in Nat /\ Cardinality(Active(u)) \in Nat
      BY <2>1, FS_EmptySet, FS_CardinalityType
  <2>. QED BY <1>1, <1>2, <2>2, <2>3, <2>4
<1>9. Entries(u)
    BY <1>1, <1>2, <1>4, <1>5, <1>8 DEF Entries
<1>10. Active(u) \subseteq Active(t) /\ \A j \in Active(u) : u.ea[j].key = t.ea[j].key
    BY <1>5, <1>7
<1>11. Good(u)
    BY <1>2, <1>9, <1>10, FewerIndex DEF Good, Small
<1>12. Keyed(t) => Keyed(u)
    BY <1>2, <1>10, FewerIndex, FewerDistinct DEF Keyed
<1>13. Keeps(u, t)
    BY <1>11, <1>12 DEF Keeps
<1>. QED BY <1>13 DEF u

-----------------------------------------------------------------------------
(* New tables.                                                             *)

\* The index width that ib_bit_for() finds is wide enough, and not too narrow.
LEMMA ib_bit_forFacts ==
    ASSUME NEW size \in Nat, size > AR_MAX_SIZE, size <= EA_MAX_CAPA
    PROVE  /\ ib_bit_for(size) \in Nat /\ ib_bit_for(size) >= 3
           /\ size <= ib_bit_to_capa[ib_bit_for(size)] - 2
<1>. DEFINE M == {n \in Nat : ib_bit_to_capa[n] > size}
            Fits(n) == ib_bit_to_capa[n] > size /\ (n = 0 \/ ib_bit_to_capa[n - 1] <= size)
            b == CHOOSE n \in 0 .. 31 : Fits(n)
<1>1. size >= 4
    BY SizeFacts
<1>2. ib_bit_to_capa[31] > size
  <2>1. PICK c \in Nat : c = ib_bit_to_capa[30]
      BY ShiftType
  <2>2. ib_bit_to_capa[31] = 2 * c
      BY <2>1, ShiftNext
  <2>3. EA_MAX_CAPA \in Nat /\ EA_MAX_CAPA \div 2 < c
      BY <2>1, HashAssumption
  <2>4. EA_MAX_CAPA < 2 * c
      BY <2>1, <2>3
  <2>. QED BY <2>1, <2>2, <2>3, <2>4
<1>3. PICK m \in M : \A n \in M : m <= n
    BY <1>2, LeastMember
<1>4. m \in Nat /\ ib_bit_to_capa[m] > size /\ m <= 31
    BY <1>2, <1>3
<1>5. m = 0 \/ ib_bit_to_capa[m - 1] <= size
  <2>. SUFFICES ASSUME m # 0 PROVE ib_bit_to_capa[m - 1] <= size
      OBVIOUS
  <2>1. m - 1 \in Nat /\ ~(m <= m - 1)
      BY <1>4
  <2>2. m - 1 \notin M
      BY <1>3, <2>1
  <2>3. ib_bit_to_capa[m - 1] \in Nat
      BY <2>1, ShiftType
  <2>. QED BY <2>1, <2>2, <2>3
<1>6. m \in 0 .. 31 /\ Fits(m)
    BY <1>4, <1>5
<1>7. b \in 0 .. 31 /\ Fits(b)
    BY <1>6
<1>8. ib_bit_for(size) = IF ib_upper_bound_for(ib_bit_to_capa[b]) < size THEN b + 1 ELSE b
    BY DEF ib_bit_for
<1>. HIDE DEF b
<1>9. b \in Nat /\ ib_bit_to_capa[b] > size
    BY <1>7
<1>10. b >= 3
  <2>1. ib_bit_to_capa[0] = 1 /\ ib_bit_to_capa[1] = 2 /\ ib_bit_to_capa[2] = 4
    <3>1. ib_bit_to_capa[0] = 1
        BY ShiftNext
    <3>2. ib_bit_to_capa[1] = 2
        BY <3>1, ShiftNext
    <3>. QED BY <3>1, <3>2, ShiftNext
  <2>2. b # 0 /\ b # 1 /\ b # 2
      BY <1>1, <1>9, <2>1
  <2>. QED BY <1>9, <2>2
<1>11. PICK c \in Nat : c = ib_bit_to_capa[b] /\ c > size /\ c >= 8
    BY <1>9, <1>10, ShiftType, ShiftEight
<1>12. ib_bit_to_capa[b + 1] = 2 * c
    BY <1>9, <1>11, ShiftNext
<1>13. CASE ib_upper_bound_for(c) < size
    BY <1>8, <1>9, <1>10, <1>11, <1>12, <1>13
<1>14. CASE ~(ib_upper_bound_for(c) < size)
  <2>1. (3 * c) \div 4 \in Nat /\ (3 * c) \div 4 <= c - 2
      BY <1>11
  <2>2. size <= c - 2
      BY <1>11, <1>14, <2>1 DEF ib_upper_bound_for
  <2>. QED BY <1>8, <1>9, <1>10, <1>11, <1>14, <2>2
<1>. QED BY <1>13, <1>14

LEMMA h_initGood == Good(h_init) /\ Keyed(h_init) /\ h_init.used = 0
<1>1. /\ DOMAIN h_init = Fields
      /\ h_init.ht = FALSE /\ h_init.size = 0 /\ h_init.used = 0 /\ h_init.capa = 0 /\ h_init.bit = 0
      /\ h_init.ea = << >> /\ h_init.tbl = NULL /\ h_init.ea_at = NULL
    BY DEF h_init, Fields
<1>2. Slots(h_init) = {}
    BY <1>1 DEF Slots
<1>3. h_init.ea \in [Slots(h_init) -> Slot]
    BY <1>1, <1>2
<1>4. Active(h_init) = {}
    BY <1>2 DEF Active
<1>5. Shape(h_init)
  <2>1. h_init.used \in Nat /\ h_init.capa \in Nat /\ h_init.bit \in Nat
      BY <1>1
  <2>2. h_init.ht \in BOOLEAN
      BY <1>1, Zenon
  <2>. QED BY <1>1, <1>3, <2>1, <2>2 DEF Shape
<1>6. Entries(h_init)
    BY <1>1, <1>4, <1>5, SizeFacts, FS_EmptySet DEF Entries
<1>. QED BY <1>1, <1>4, <1>6, SizeFacts DEF Good, Small, Keyed, Distinct

LEMMA mrb_hash_new_capaGood ==
    ASSUME content \in [Key -> Key], NEW n \in Capas, NEW a
    PROVE  Good(mrb_hash_new_capa(n, a)) /\ Keyed(mrb_hash_new_capa(n, a))
<1>1. n \in Nat /\ n <= EA_MAX_CAPA
    BY HashAssumption
<1>2. Good(h_init) /\ h_init.used = 0 /\ h_init.size = 0 /\ h_init.ht = FALSE /\ Active(h_init) = {}
  <2>1. h_init.capa = 0
      BY DEF h_init
  <2>2. Active(h_init) = {}
      BY <2>1 DEF Active, Slots
  <2>. QED BY <2>2, h_initGood DEF h_init
<1>3. PICK t : t = ea_resize(h_init, n, a)
    OBVIOUS
<1>4. /\ DOMAIN t = Fields
      /\ t.ht = FALSE /\ t.size = 0 /\ t.used = 0 /\ t.ea_at = a /\ t.capa = n /\ Shape(t) /\ Active(t) = {}
  <2>. DEFINE r == ea_resize(h_init, n, a)
  <2>1. Shape(h_init) /\ \A i \in Active(h_init) : i < n
      BY <1>2 DEF Good, Entries
  <2>2. /\ DOMAIN r = Fields
        /\ r.ht = h_init.ht /\ r.size = h_init.size /\ r.used = h_init.used /\ r.bit = h_init.bit
        /\ r.ib = h_init.ib /\ r.tbl = h_init.tbl /\ r.ea_at = a /\ r.capa = n
        /\ Shape(r) /\ SameKeys(r, h_init)
      BY <1>1, <2>1, ResizeFacts
  <2>. HIDE DEF r
  <2>3. Active(r) = {}
      BY <1>2, <2>2 DEF SameKeys
  <2>. QED BY <1>2, <1>3, <2>2, <2>3 DEF r
<1>5. CASE n <= AR_MAX_SIZE
  <2>1. PICK r : r = [t EXCEPT !.tbl = a]
      OBVIOUS
  <2>2. mrb_hash_new_capa(n, a) = r
      BY <1>3, <1>5, <2>1 DEF mrb_hash_new_capa
  <2>3. /\ DOMAIN r = Fields
        /\ r.ht = FALSE /\ r.size = 0 /\ r.used = 0 /\ r.ea_at = a /\ r.capa = n /\ r.tbl = a /\ r.ea = t.ea /\ r.bit = t.bit
      BY <1>4, <2>1 DEF Fields
  <2>4. Active(r) = {} /\ Slots(r) = Slots(t)
      BY <1>4, <2>3 DEF Active, Slots
  <2>5. Shape(r)
      BY <1>4, <2>3, <2>4 DEF Shape
  <2>6. Entries(r)
      BY <1>1, <2>3, <2>4, <2>5, SizeFacts, FS_EmptySet DEF Entries
  <2>. QED BY <1>5, <2>2, <2>3, <2>4, <2>6 DEF Good, Small, Keyed, Distinct
<1>6. CASE ~(n <= AR_MAX_SIZE)
  <2>1. n > AR_MAX_SIZE
      BY <1>1, <1>6, SizeFacts
  <2>2. PICK b \in Nat : b = ib_bit_for(n) /\ b >= 3 /\ n <= ib_bit_to_capa[b] - 2
      BY <1>1, <2>1, ib_bit_forFacts
  <2>3. mrb_hash_new_capa(n, a) = ht_init(t, 0, b, a)
      BY <1>3, <1>6, <2>2 DEF mrb_hash_new_capa
  <2>4. 0 <= ib_bit_to_capa[b] - 2
      BY <1>1, <2>2, ShiftType
  <2>5. Active(t) = 0 .. 0 - 1 /\ 0 <= t.capa /\ 0 <= EA_MAX_CAPA
      BY <1>1, <1>4, SizeFacts
  <2>. DEFINE q == ht_init(t, 0, b, a)
  <2>6. Good(q) /\ q.ht /\ q.used = 0 /\ q.bit = b /\ (Distinct(t) => Keyed(q))
    <3>1. PICK z \in Nat : z = 0
        OBVIOUS
    <3>2. Shape(t) /\ Active(t) = 0 .. z - 1 /\ z <= t.capa /\ z <= EA_MAX_CAPA /\ z <= ib_bit_to_capa[b] - 2
        BY <1>4, <2>4, <2>5, <3>1
    <3>3. Good(ht_init(t, z, b, a)) /\ ht_init(t, z, b, a).ht /\ ht_init(t, z, b, a).used = z
          /\ ht_init(t, z, b, a).bit = b /\ (Distinct(t) => Keyed(ht_init(t, z, b, a)))
        BY <2>2, <3>2, PackedHt
    <3>. QED BY <3>1, <3>3
  <2>7. Distinct(t)
      BY <1>4 DEF Distinct
  <2>. QED BY <2>3, <2>6, <2>7
<1>. QED BY <1>5, <1>6

\* The recursion of Filled()
Stores(d, keys, a, n) ==
    d = [m \in 0 .. n |-> IF m = 0 THEN h_init ELSE h_set(d[m - 1], keys[m], Given, a)]

LEMMA StoresExists == ASSUME NEW keys, NEW a PROVE \A n \in Nat : \E d : Stores(d, keys, a, n)
<1>. DEFINE S == {n \in Nat : \E d : Stores(d, keys, a, n)}
<1>1. 0 \in S
  <2>. DEFINE d == [m \in 0 .. 0 |-> h_init]
  <2>1. Stores(d, keys, a, 0)
      BY DEF Stores
  <2>. QED BY <2>1
<1>2. ASSUME NEW n \in Nat, n \in S PROVE n + 1 \in S
  <2>1. PICK d : Stores(d, keys, a, n)
      BY <1>2
  <2>. DEFINE f == [m \in 0 .. n + 1 |-> IF m <= n THEN d[m] ELSE h_set(d[n], keys[n + 1], Given, a)]
  <2>2. ASSUME NEW m \in 0 .. n + 1 PROVE f[m] = IF m = 0 THEN h_init ELSE h_set(f[m - 1], keys[m], Given, a)
    <3>1. CASE m = 0
        BY <2>1, <3>1 DEF Stores
    <3>2. CASE m # 0 /\ m <= n
      <4>1. m \in 0 .. n /\ m - 1 \in 0 .. n + 1 /\ m - 1 <= n
          BY <3>2
      <4>2. f[m] = d[m] /\ f[m - 1] = d[m - 1]
          BY <3>2, <4>1
      <4>3. d[m] = h_set(d[m - 1], keys[m], Given, a)
          BY <2>1, <3>2, <4>1 DEF Stores
      <4>. QED BY <3>2, <4>2, <4>3
    <3>3. CASE m = n + 1
      <4>1. m - 1 = n /\ n \in 0 .. n + 1 /\ m # 0 /\ ~(n + 1 <= n)
          BY <3>3
      <4>2. f[n] = d[n] /\ f[n + 1] = h_set(d[n], keys[n + 1], Given, a)
          BY <4>1
      <4>. QED BY <3>3, <4>1, <4>2
    <3>. QED BY <3>1, <3>2, <3>3
  <2>3. f = [m \in 0 .. n + 1 |-> IF m = 0 THEN h_init ELSE h_set(f[m - 1], keys[m], Given, a)]
      BY <2>2
  <2>. HIDE DEF f
  <2>4. Stores(f, keys, a, n + 1)
      BY <2>3 DEF Stores
  <2>. QED BY <2>4
<1>. HIDE DEF S
<1>3. \A n \in Nat : n \in S
    BY <1>1, <1>2, InductionInSet
<1>. QED BY <1>3 DEF S

\* A hash made of a list of keys
LEMMA FilledGood ==
    ASSUME content \in [Key -> Key], NEW keys \in Fills, NEW a
    PROVE  Good(Filled(keys, a)) /\ Keyed(Filled(keys, a))
<1>. DEFINE N == Len(keys)
            d == CHOOSE d : Stores(d, keys, a, N)
<1>1. keys \in Seq(Key) /\ N \in Nat /\ N <= EA_MAX_CAPA /\ \A m \in 1 .. N : keys[m] \in Key
  <2>1. keys \in Seq(Key \ Mutable) /\ N <= EA_MAX_CAPA
      BY HashAssumption
  <2>2. N \in Nat /\ \A m \in 1 .. N : keys[m] \in Key \ Mutable
      BY <2>1
  <2>. QED BY <2>1, <2>2
<1>2. Stores(d, keys, a, N)
    BY <1>1, StoresExists
<1>3. Filled(keys, a) = d[N]
    BY DEF Filled, Stores
<1>4. Given \in Val
    BY HashAssumption DEF Given
<1>. HIDE DEF d, N
<1>. DEFINE S == {m \in Nat : m <= N => Good(d[m]) /\ Keyed(d[m]) /\ d[m].used <= m}
<1>5. 0 \in S
  <2>1. d[0] = h_init
      BY <1>1, <1>2 DEF Stores
  <2>. QED BY <2>1, h_initGood
<1>6. ASSUME NEW m \in Nat, m \in S PROVE m + 1 \in S
  <2>. SUFFICES ASSUME m + 1 <= N PROVE Good(d[m + 1]) /\ Keyed(d[m + 1]) /\ d[m + 1].used <= m + 1
      OBVIOUS
  <2>1. d[m + 1] = h_set(d[m], keys[m + 1], Given, a)
    <3>1. PICK j \in 0 .. N : j = m + 1 /\ j # 0 /\ j - 1 = m
        BY <1>1
    <3>2. d[j] = h_set(d[j - 1], keys[j], Given, a)
        BY <1>2, <3>1 DEF Stores
    <3>. QED BY <3>1, <3>2
  <2>2. PICK t : t = d[m]
      OBVIOUS
  <2>3. Good(t) /\ Keyed(t) /\ t.used <= m /\ t.used \in Nat
      BY <1>1, <1>6, <2>2 DEF Good, Entries, Shape
  <2>4. t.used < EA_MAX_CAPA
      BY <1>1, <2>3, SizeFacts
  <2>5. keys[m + 1] \in Key
      BY <1>1
  <2>6. Holds(h_set(t, keys[m + 1], Given, a), t)
      BY <1>4, <2>3, <2>4, <2>5, h_setGood
  <2>7. PICK r : r = d[m + 1]
      OBVIOUS
  <2>8. Good(r) /\ Keyed(r) /\ r.used <= t.used + 1
      BY <2>1, <2>2, <2>3, <2>6, <2>7 DEF Holds
  <2>9. r.used \in Nat
      BY <2>8 DEF Good, Entries, Shape
  <2>. QED BY <2>3, <2>7, <2>8, <2>9
<1>. HIDE DEF S
<1>7. \A m \in Nat : m \in S
    BY <1>5, <1>6, InductionInSet
<1>8. Good(d[N]) /\ Keyed(d[N])
    BY <1>1, <1>7 DEF S
<1>. QED BY <1>3, <1>8

-----------------------------------------------------------------------------
(* Rehash: the recursion of Walk().                                        *)

Twin(r, i, w) == IF ~r.ht THEN ea_get_by_key(r, w, r.ea[i].key)
                 ELSE IF Found(r, r.ea[i].key)
                 THEN {Bucket(r, r.ea[i].key, Min(Hits(r, r.ea[i].key)))}
                 ELSE {}
WalkStep(list, d, m) == [t |-> WalkEntry(d.t, list[m], d.w, Twin(d.t, list[m], d.w)),
                         w |-> IF Twin(d.t, list[m], d.w) = {} THEN d.w + 1 ELSE d.w]
Walked(d, t, list, n) ==
    d = [m \in 0 .. n |-> IF m = 0 THEN [t |-> t, w |-> 0] ELSE WalkStep(list, d[m - 1], m)]

LEMMA WalkedExists == ASSUME NEW t, NEW list PROVE \A n \in Nat : \E d : Walked(d, t, list, n)
<1>. DEFINE S == {n \in Nat : \E d : Walked(d, t, list, n)}
            z == [t |-> t, w |-> 0]
<1>1. 0 \in S
  <2>. DEFINE d == [m \in 0 .. 0 |-> z]
  <2>1. Walked(d, t, list, 0)
      BY DEF Walked
  <2>. QED BY <2>1
<1>2. ASSUME NEW n \in Nat, n \in S PROVE n + 1 \in S
  <2>1. PICK d : Walked(d, t, list, n)
      BY <1>2
  <2>. HIDE DEF z
  <2>. DEFINE f == [m \in 0 .. n + 1 |-> IF m <= n THEN d[m] ELSE WalkStep(list, d[n], n + 1)]
  <2>2. ASSUME NEW m \in 0 .. n + 1 PROVE f[m] = IF m = 0 THEN z ELSE WalkStep(list, f[m - 1], m)
    <3>1. CASE m = 0
        BY <2>1, <3>1 DEF Walked, z
    <3>2. CASE m # 0 /\ m <= n
      <4>1. m \in 0 .. n /\ m - 1 \in 0 .. n + 1 /\ m - 1 <= n
          BY <3>2
      <4>2. f[m] = d[m] /\ f[m - 1] = d[m - 1]
          BY <3>2, <4>1
      <4>3. d[m] = WalkStep(list, d[m - 1], m)
          BY <2>1, <3>2, <4>1 DEF Walked
      <4>. QED BY <3>2, <4>2, <4>3
    <3>3. CASE m = n + 1
      <4>1. m - 1 = n /\ n \in 0 .. n + 1 /\ m # 0 /\ ~(n + 1 <= n)
          BY <3>3
      <4>2. f[n] = d[n] /\ f[n + 1] = WalkStep(list, d[n], n + 1)
          BY <4>1
      <4>. QED BY <3>3, <4>1, <4>2
    <3>. QED BY <3>1, <3>2, <3>3
  <2>3. f = [m \in 0 .. n + 1 |-> IF m = 0 THEN z ELSE WalkStep(list, f[m - 1], m)]
      BY <2>2
  <2>. HIDE DEF f
  <2>4. Walked(f, t, list, n + 1)
      BY <2>3 DEF Walked, z
  <2>. QED BY <2>4
<1>. HIDE DEF S
<1>3. \A n \in Nat : n \in S
    BY <1>1, <1>2, InductionInSet
<1>. QED BY <1>3 DEF S

LEMMA WalkIs ==
    ASSUME NEW t, NEW n \in Nat
    PROVE  \E d : Walked(d, t, ActiveList(t), n) /\ Walk(t, n) = d[n].t
<1>. DEFINE d == CHOOSE d : Walked(d, t, ActiveList(t), n)
<1>1. Walked(d, t, ActiveList(t), n)
    BY WalkedExists
<1>2. Walk(t, n) = d[n].t
    BY DEF Walk, Walked, WalkStep, Twin
<1>. QED BY <1>1, <1>2

-----------------------------------------------------------------------------
(* Rehash: the table in the middle of the walk.                            *)

\* The first w slots have been written, the entries in the slots R are still to
\* come: no two of the former have equal keys, and the index is theirs.
Midway(r, w, R, t) ==
    /\ Shape(r) /\ r.ht = t.ht /\ r.used = t.used /\ r.capa = t.capa /\ r.bit = t.bit
    /\ r.tbl = t.tbl /\ r.ea_at = t.ea_at
    /\ Active(r) = (0 .. w - 1) \cup R /\ r.size = Cardinality(Active(r))
    /\ \A j \in R : w <= j
    /\ \A i, j \in 0 .. w - 1 : content[r.ea[i].key] = content[r.ea[j].key] => i = j
    /\ Distinct(t) => Distinct(r)
    /\ r.ht => Index(r, w) /\ Reachable(r, w)

\* What the walk takes for a twin is one of the entries written.
LEMMA ArTwin ==
    ASSUME NEW r, NEW w \in Nat, NEW R \in SUBSET Nat, NEW i \in R, Shape(r),
           Active(r) = (0 .. w - 1) \cup R, \A j \in R : w <= j
    PROVE  Visited(r, w) = 0 .. w - 1
<1>1. PICK A \in SUBSET (0 .. r.capa - 1) : A = Active(r) /\ r.capa \in Nat
    BY ActiveFacts DEF Shape
<1>2. IsFiniteSet(A) /\ Cardinality(A) \in Nat
    BY <1>1, SlotsFinite
<1>3. /\ \A j \in Nat : Rank(A, j) \in Nat /\ Rank(A, j) <= j
      /\ \A j \in A : Rank(A, j) < Cardinality(A)
    BY <1>1, RankFacts
<1>4. ASSUME NEW j \in R PROVE w <= Rank(A, j)
  <2>1. 0 .. w - 1 \subseteq {x \in A : x < j}
      BY <1>1
  <2>2. IsFiniteSet({x \in A : x < j})
      BY <1>2, FS_Subset
  <2>3. Cardinality(0 .. w - 1) = w
      BY SlotsCount
  <2>4. w <= Cardinality({x \in A : x < j})
      BY <2>1, <2>2, <2>3, FS_Subset
  <2>. QED BY <2>4 DEF Rank
<1>5. ~(Cardinality(A) <= w)
  <2>1. i \in A /\ i \in Nat
      BY <1>1
  <2>2. w <= Rank(A, i) /\ Rank(A, i) < Cardinality(A) /\ Rank(A, i) \in Nat
      BY <1>3, <1>4, <2>1
  <2>. QED BY <1>2, <2>2
<1>6. Visited(r, w) = {j \in A : Rank(A, j) < w}
    BY <1>1, <1>5 DEF Visited
<1>7. \A j \in A : Rank(A, j) < w <=> j \in 0 .. w - 1
  <2>. SUFFICES ASSUME NEW j \in A PROVE Rank(A, j) < w <=> j \in 0 .. w - 1
      OBVIOUS
  <2>1. CASE j \in R
    <3>1. j \in Nat /\ w <= j /\ w <= Rank(A, j) /\ Rank(A, j) \in Nat
        BY <1>3, <1>4, <2>1
    <3>. QED BY <3>1
  <2>2. CASE j \in 0 .. w - 1
    <3>1. j \in Nat /\ j < w /\ Rank(A, j) <= j /\ Rank(A, j) \in Nat
        BY <1>3, <2>2
    <3>. QED BY <2>2, <3>1
  <2>. QED BY <1>1, <2>1, <2>2
<1>8. 0 .. w - 1 \subseteq A
    BY <1>1
<1>. QED BY <1>6, <1>7, <1>8

LEMMA TwinFacts ==
    ASSUME content \in [Key -> Key], NEW r, NEW t, NEW w \in Nat, NEW R \in SUBSET Nat, Midway(r, w, R, t), NEW i \in R
    PROVE  /\ Twin(r, i, w) \subseteq 0 .. w - 1
           /\ Twin(r, i, w) = {} => \A j \in 0 .. w - 1 : content[r.ea[j].key] # content[r.ea[i].key]
<1>1. /\ Shape(r) /\ Active(r) = (0 .. w - 1) \cup R /\ (\A j \in R : w <= j)
      /\ r.ht => Index(r, w) /\ Reachable(r, w)
    BY DEF Midway
<1>2. PICK k \in Key : k = r.ea[i].key
    BY <1>1, ActiveFacts
<1>3. r.ht \in BOOLEAN /\ r.capa \in Nat /\ r.bit \in Nat
    BY <1>1 DEF Shape
<1>4. \A j \in 0 .. w - 1 : j \in Active(r) /\ r.ea[j] # Vacant
    BY <1>1, ActiveFacts
<1>5. CASE ~r.ht
  <2>1. Visited(r, w) = 0 .. w - 1
      BY <1>1, ArTwin
  <2>2. Twin(r, i, w) = {j \in 0 .. w - 1 : Eql(k, r.ea[j])}
      BY <1>2, <1>5, <2>1 DEF Twin, ea_get_by_key
  <2>. QED BY <1>2, <1>4, <2>2 DEF Eql
<1>6. CASE r.ht
  <2>1. w <= r.capa
    <3>1. i \in Nat /\ i < r.capa /\ w <= i
        BY <1>1, ActiveFacts
    <3>. QED BY <1>3, <3>1
  <2>2. CASE Found(r, k)
    <3>1. PICK s \in Hits(r, k) : s = Min(Hits(r, k))
        BY <1>3, <2>2, FoundHits, FirstHit
    <3>2. Bucket(r, k, s) \in Active(r) /\ Bucket(r, k, s) < w
        BY <1>1, <1>6, <2>1, HitFacts
    <3>3. Bucket(r, k, s) \in 0 .. w - 1
      <4>1. PICK b \in Active(r) : b = Bucket(r, k, s) /\ b < w
          BY <3>2
      <4>2. b \in Nat
          BY <1>1, ActiveFacts
      <4>. QED BY <4>1, <4>2
    <3>4. Twin(r, i, w) = {Bucket(r, k, s)}
        BY <1>2, <1>6, <2>2, <3>1 DEF Twin
    <3>. QED BY <3>3, <3>4
  <2>3. CASE ~Found(r, k)
    <3>1. Twin(r, i, w) = {}
        BY <1>2, <1>6, <2>3 DEF Twin
    <3>2. ASSUME NEW j \in 0 .. w - 1 PROVE content[r.ea[j].key] # content[k]
      <4>1. j \in Active(r) /\ j < w
          BY <1>4
      <4>. QED BY <1>1, <1>6, <2>1, <2>3, <4>1, FoundOnProbe
    <3>. QED BY <1>2, <3>1, <3>2
  <2>. QED BY <2>2, <2>3
<1>. QED BY <1>3, <1>5, <1>6

\* A turn of the walk that merges the entry into its twin
LEMMA MergeTwin ==
    ASSUME NEW r, NEW t, NEW w \in Nat, NEW R \in SUBSET Nat, Midway(r, w, R, t), NEW i \in R, NEW j \in 0 .. w - 1
    PROVE  Midway(Drop([r EXCEPT !.ea[j].val = r.ea[i].val], i), w, R \ {i}, t)
<1>1. /\ Shape(r) /\ r.ht = t.ht /\ r.used = t.used /\ r.capa = t.capa /\ r.bit = t.bit
      /\ r.tbl = t.tbl /\ r.ea_at = t.ea_at
      /\ Active(r) = (0 .. w - 1) \cup R /\ r.size = Cardinality(Active(r))
      /\ \A l \in R : w <= l
    BY DEF Midway
<1>2. \A l, m \in 0 .. w - 1 : content[r.ea[l].key] = content[r.ea[m].key] => l = m
    BY DEF Midway
<1>3. Distinct(t) => Distinct(r)
    BY DEF Midway
<1>4. r.ht => Index(r, w) /\ Reachable(r, w)
    BY DEF Midway
<1>5. i \in Active(r) /\ j \in Active(r) /\ i \notin 0 .. w - 1
    BY <1>1
<1>6. PICK v \in Val : v = r.ea[i].val
    BY <1>1, <1>5, ActiveFacts, SlotFacts
<1>. DEFINE q == [r EXCEPT !.ea[j].val = v]
            u == Drop(q, i)
<1>7. /\ DOMAIN q = Fields
      /\ q.ht = r.ht /\ q.size = r.size /\ q.used = r.used /\ q.capa = r.capa /\ q.bit = r.bit
      /\ q.ib = r.ib /\ q.tbl = r.tbl /\ q.ea_at = r.ea_at
      /\ Shape(q) /\ SameKeys(q, r)
    BY <1>1, <1>5, <1>6, SetValue
<1>. HIDE DEF q
<1>8. Active(q) = Active(r) /\ q.size = Cardinality(Active(q)) /\ i \in Active(q)
    BY <1>1, <1>5, <1>7 DEF SameKeys
<1>9. /\ DOMAIN u = Fields
      /\ u.ht = q.ht /\ u.used = q.used /\ u.capa = q.capa /\ u.bit = q.bit
      /\ u.ib = q.ib /\ u.tbl = q.tbl /\ u.ea_at = q.ea_at
      /\ u.ea = [q.ea EXCEPT ![i] = Vacant]
      /\ Shape(u) /\ Active(u) = Active(q) \ {i} /\ u.size = Cardinality(Active(u))
      /\ u.size = q.size - 1
      /\ \A l \in Active(u) : u.ea[l] = q.ea[l]
    BY <1>7, <1>8, DropFacts
<1>. HIDE DEF u
<1>10. Active(u) \subseteq Active(r) /\ \A l \in Active(u) : u.ea[l].key = r.ea[l].key
    BY <1>7, <1>8, <1>9 DEF SameKeys
<1>11. Active(u) = (0 .. w - 1) \cup (R \ {i})
    BY <1>1, <1>5, <1>8, <1>9
<1>12. \A l \in 0 .. w - 1 : u.ea[l].key = r.ea[l].key
    BY <1>10, <1>11
<1>13. Distinct(t) => Distinct(u)
    BY <1>3, <1>10, FewerDistinct
<1>14. u.ht => Index(u, w) /\ Reachable(u, w)
    BY <1>4, <1>7, <1>9, <1>10, FewerIndex
<1>15. \A l, m \in 0 .. w - 1 : content[u.ea[l].key] = content[u.ea[m].key] => l = m
    BY <1>2, <1>12
<1>16. Midway(u, w, R \ {i}, t)
    BY <1>1, <1>7, <1>9, <1>11, <1>13, <1>14, <1>15 DEF Midway
<1>17. u = Drop([r EXCEPT !.ea[j].val = r.ea[i].val], i)
    BY <1>6 DEF u, q
<1>. QED BY <1>16, <1>17

\* A turn that moves the entry to slot w
LEMMA MoveEntry ==
    ASSUME content \in [Key -> Key], NEW r, NEW t, NEW w \in Nat, NEW R \in SUBSET Nat, Midway(r, w, R, t),
           NEW i \in R, \A l \in R : i <= l, r.ht => w + 1 <= DeletedValue(r),
           \A j \in 0 .. w - 1 : content[r.ea[j].key] # content[r.ea[i].key]
    PROVE  Midway(WalkEntry(r, i, w, {}), w + 1, R \ {i}, t)
<1>1. /\ Shape(r) /\ r.ht = t.ht /\ r.used = t.used /\ r.capa = t.capa /\ r.bit = t.bit
      /\ r.tbl = t.tbl /\ r.ea_at = t.ea_at
      /\ Active(r) = (0 .. w - 1) \cup R /\ r.size = Cardinality(Active(r))
      /\ \A l \in R : w <= l
    BY DEF Midway
<1>2. \A l, m \in 0 .. w - 1 : content[r.ea[l].key] = content[r.ea[m].key] => l = m
    BY DEF Midway
<1>3. Distinct(t) => Distinct(r)
    BY DEF Midway
<1>4. r.ht => Index(r, w) /\ Reachable(r, w)
    BY DEF Midway
<1>5. i \in Active(r) /\ i \in Nat /\ w <= i /\ i < r.capa /\ r.capa \in Nat /\ w \in 0 .. r.capa - 1 /\ i \in 0 .. r.capa - 1
      /\ r.ea \in [0 .. r.capa - 1 -> Slot] /\ DOMAIN r = Fields
    BY <1>1, ActiveFacts DEF Shape, Slots
<1>6. PICK e : e = r.ea[i] /\ e \in Slot /\ e # Vacant /\ e.key \in Key
    BY <1>1, <1>5, ActiveFacts
<1>. DEFINE moved == [r.ea EXCEPT ![i] = Vacant, ![w] = r.ea[i]]
            q == [r EXCEPT !.ea = moved]
            u == WalkEntry(r, i, w, {})
<1>7. /\ moved \in [0 .. r.capa - 1 -> Slot] /\ moved[w] = e
      /\ i # w => moved[i] = Vacant
      /\ \A l \in 0 .. r.capa - 1 : l # i /\ l # w => moved[l] = r.ea[l]
    BY <1>5, <1>6, SlotFacts
<1>8. u = [r EXCEPT !.ea = moved, !.ib = IF r.ht THEN IndexEntry(q, w).ib ELSE r.ib]
    BY DEF WalkEntry
<1>. HIDE DEF moved, q
<1>9. /\ DOMAIN u = Fields
      /\ u.ht = r.ht /\ u.size = r.size /\ u.used = r.used /\ u.capa = r.capa /\ u.bit = r.bit
      /\ u.tbl = r.tbl /\ u.ea_at = r.ea_at /\ u.ea = moved
      /\ u.ib = IF r.ht THEN IndexEntry(q, w).ib ELSE r.ib
    BY <1>5, <1>8 DEF Fields
<1>. HIDE DEF u
<1>10. Shape(u)
    BY <1>1, <1>7, <1>9 DEF Shape, Slots
<1>11. \A l : l \in Active(u) <=> (l \in Active(r) /\ l # i) \/ l = w
  <2>1. \A l : l \in Active(u) <=> l \in 0 .. r.capa - 1 /\ moved[l] # Vacant
      BY <1>9 DEF Active, Slots
  <2>2. \A l : l \in Active(r) <=> l \in 0 .. r.capa - 1 /\ r.ea[l] # Vacant
      BY DEF Active, Slots
  <2>3. CASE i = w
      BY <1>5, <1>6, <1>7, <2>1, <2>2, <2>3
  <2>4. CASE i # w
    <3>1. w \notin Active(r)
      <4>1. w \notin R
          BY <1>5, <2>4
      <4>. QED BY <1>1, <4>1
    <3>. QED BY <1>5, <1>6, <1>7, <2>1, <2>2, <2>4, <3>1
  <2>. QED BY <2>3, <2>4
<1>12. Active(u) = (0 .. (w + 1) - 1) \cup (R \ {i})
  <2>1. 0 .. (w + 1) - 1 = (0 .. w - 1) \cup {w}
      OBVIOUS
  <2>2. i \notin 0 .. w - 1
      BY <1>5
  <2>. QED BY <1>1, <1>11, <2>1, <2>2
<1>13. \A l \in R \ {i} : w + 1 <= l
  <2>. SUFFICES ASSUME NEW l \in R, l # i PROVE w + 1 <= l
      OBVIOUS
  <2>1. l \in Nat /\ i <= l
      OBVIOUS
  <2>. QED BY <1>5, <2>1
<1>14. /\ u.ea[w] = e
       /\ \A l \in Active(u) : l # w => l \in Active(r) /\ l # i /\ u.ea[l] = r.ea[l]
  <2>1. \A l \in Active(r) : l \in 0 .. r.capa - 1
      BY DEF Active, Slots
  <2>. QED BY <1>7, <1>9, <1>11, <2>1
<1>15. u.size = Cardinality(Active(u))
  <2>1. IsFiniteSet(Active(r))
      BY <1>1, ActiveFacts
  <2>2. CASE i = w
    <3>1. Active(u) = Active(r)
        BY <1>5, <1>11, <2>2
    <3>. QED BY <1>1, <1>9, <3>1
  <2>3. CASE i # w
    <3>1. w \notin Active(r)
        BY <1>1, <1>5, <2>3
    <3>2. Active(u) = (Active(r) \ {i}) \cup {w}
        BY <1>11
    <3>3. IsFiniteSet(Active(r) \ {i}) /\ Cardinality(Active(r) \ {i}) = Cardinality(Active(r)) - 1
        BY <1>5, <2>1, FS_RemoveElement
    <3>4. Cardinality((Active(r) \ {i}) \cup {w}) = Cardinality(Active(r) \ {i}) + 1
        BY <3>1, <3>3, FS_AddElement
    <3>5. Cardinality(Active(r)) \in Nat
        BY <2>1, FS_CardinalityType
    <3>. QED BY <1>1, <1>9, <3>2, <3>3, <3>4, <3>5
  <2>. QED BY <2>2, <2>3
<1>16. \A l, m \in 0 .. (w + 1) - 1 : content[u.ea[l].key] = content[u.ea[m].key] => l = m
  <2>1. \A l \in 0 .. w - 1 : u.ea[l] = r.ea[l]
      BY <1>12, <1>14
  <2>2. \A l \in 0 .. (w + 1) - 1 : l \in 0 .. w - 1 \/ l = w
      OBVIOUS
  <2>3. u.ea[w].key = r.ea[i].key
      BY <1>6, <1>14
  <2>. QED BY <1>2, <2>1, <2>2, <2>3
<1>17. ASSUME Distinct(t) PROVE Distinct(u)
  <2>1. \A l, m \in Active(r) : content[r.ea[l].key] = content[r.ea[m].key] => l = m
      BY <1>3, <1>17 DEF Distinct
  <2>. SUFFICES ASSUME NEW l \in Active(u), NEW m \in Active(u), content[u.ea[l].key] = content[u.ea[m].key]
                PROVE  l = m
      BY DEF Distinct
  <2>2. CASE l = w /\ m = w
      BY <2>2
  <2>3. CASE l = w /\ m # w
      BY <1>5, <1>6, <1>14, <2>1, <2>3
  <2>4. CASE l # w /\ m = w
      BY <1>5, <1>6, <1>14, <2>1, <2>4
  <2>5. CASE l # w /\ m # w
      BY <1>14, <2>1, <2>5
  <2>. QED BY <2>2, <2>3, <2>4, <2>5
<1>18. ASSUME r.ht PROVE Index(u, w + 1) /\ Reachable(u, w + 1)
  <2>. DEFINE k == e.key
  <2>1. DOMAIN q = Fields /\ q.bit = r.bit /\ q.ib = r.ib /\ q.ea = moved
      BY <1>5 DEF q, Fields
  <2>2. IndexEntry(q, w).ib = [q.ib EXCEPT ![Probe(q, k, Min(Gaps(q, k)))] = w]
      BY <1>7, <2>1 DEF IndexEntry, Fields
  <2>3. \A s : Probe(q, k, s) = Probe(r, k, s)
      BY <2>1 DEF Probe, ib_capa
  <2>4. Gaps(q, k) = Gaps(r, k)
      BY <2>1, <2>3 DEF Gaps, Steps, Bucket, EmptyValue, ib_capa
  <2>5. u.ib = [r.ib EXCEPT ![Probe(r, k, Min(Gaps(r, k)))] = w]
      BY <1>9, <1>18, <2>1, <2>2, <2>3, <2>4
  <2>6. r.bit \in Nat /\ u.bit = r.bit /\ k \in Key /\ Index(r, w) /\ Reachable(r, w) /\ w + 1 <= DeletedValue(r)
      BY <1>1, <1>4, <1>6, <1>9, <1>18 DEF Shape
  <2>. HIDE DEF k
  <2>7. \A l \in Active(u) : l \in Nat /\ (l < w => l \in Active(r) /\ r.ea[l].key \in Key
                                                    /\ content[u.ea[l].key] = content[r.ea[l].key])
    <3>. SUFFICES ASSUME NEW l \in Active(u)
                  PROVE  l \in Nat /\ (l < w => l \in Active(r) /\ r.ea[l].key \in Key
                                                  /\ content[u.ea[l].key] = content[r.ea[l].key])
        OBVIOUS
    <3>1. l \in Nat
        BY <1>10, ActiveFacts
    <3>2. ASSUME l < w PROVE l \in Active(r) /\ r.ea[l].key \in Key /\ u.ea[l] = r.ea[l]
      <4>1. l # w
          BY <3>1, <3>2
      <4>. QED BY <1>1, <1>14, <4>1, ActiveFacts
    <3>. QED BY <3>1, <3>2
  <2>8. Index(u, w + 1)
      BY <2>5, <2>6, <2>7, PutIndex
  <2>9. w \in Active(u) => content[u.ea[w].key] = content[k]
      BY <1>14 DEF k
  <2>10. Reachable(u, w + 1)
      BY <2>5, <2>6, <2>7, <2>9, PutReach
  <2>. QED BY <2>8, <2>10
<1>19. Midway(u, w + 1, R \ {i}, t)
    BY <1>1, <1>9, <1>10, <1>12, <1>13, <1>15, <1>16, <1>17, <1>18 DEF Midway
<1>. QED BY <1>19 DEF u

\* A turn of the walk
LEMMA WalkStepFacts ==
    ASSUME content \in [Key -> Key], NEW r, NEW t, NEW w \in Nat, NEW R \in SUBSET Nat, Midway(r, w, R, t),
           NEW i \in R, \A l \in R : i <= l, r.ht => w + 1 <= DeletedValue(r)
    PROVE  LET twin == Twin(r, i, w)
           IN  Midway(WalkEntry(r, i, w, twin), IF twin = {} THEN w + 1 ELSE w, R \ {i}, t)
<1>. DEFINE twin == Twin(r, i, w)
<1>1. twin \subseteq 0 .. w - 1 /\ (twin = {} => \A j \in 0 .. w - 1 : content[r.ea[j].key] # content[r.ea[i].key])
    BY TwinFacts
<1>. HIDE DEF twin
<1>2. CASE twin = {}
  <2>1. Midway(WalkEntry(r, i, w, {}), w + 1, R \ {i}, t)
      BY <1>1, <1>2, MoveEntry
  <2>. QED BY <1>2, <2>1 DEF twin
<1>3. CASE twin # {}
  <2>1. PICK j \in 0 .. w - 1 : j = Min(twin)
    <3>1. twin \in SUBSET Nat
        BY <1>1
    <3>. QED BY <1>1, <1>3, <3>1, MinFacts
  <2>2. WalkEntry(r, i, w, twin) = Drop([r EXCEPT !.ea[j].val = r.ea[i].val], i)
      BY <1>3, <2>1 DEF WalkEntry
  <2>3. Midway(WalkEntry(r, i, w, twin), w, R \ {i}, t)
      BY <2>2, MergeTwin
  <2>. QED BY <1>3, <2>3 DEF twin
<1>. QED BY <1>2, <1>3 DEF twin

\* The entries the walk has not read after m turns
Rest(t, m) == {ActiveList(t)[l] : l \in m + 1 .. t.size}

\* The walk, turn by turn
LEMMA WalkedFacts ==
    ASSUME content \in [Key -> Key], NEW t, Shape(t), t.size = Cardinality(Active(t)), NEW n \in Nat, n <= t.size,
           t.ht => Index(t, 0) /\ Reachable(t, 0) /\ t.size <= DeletedValue(t),
           NEW d, Walked(d, t, ActiveList(t), n)
    PROVE  \A m \in 0 .. n : d[m].w \in Nat /\ d[m].w <= m /\ Midway(d[m].t, d[m].w, Rest(t, m), t)
<1>. DEFINE list == ActiveList(t)
<1>1. t.size \in Nat /\ t.ht \in BOOLEAN /\ t.bit \in Nat
    BY ActiveFacts DEF Shape
<1>2. /\ \A m \in 1 .. t.size : list[m] \in Active(t) /\ m - 1 <= list[m]
      /\ \A l, m \in 1 .. t.size : l < m => list[l] < list[m]
      /\ \A i \in Active(t) : \E m \in 1 .. t.size : list[m] = i
    BY ListFacts
<1>3. \A m \in 1 .. t.size : list[m] \in Nat
    BY <1>2, ActiveFacts
<1>4. Walked(d, t, list, n)
    OBVIOUS
<1>. HIDE DEF list
<1>5. \A m : Rest(t, m) = {list[l] : l \in m + 1 .. t.size}
    BY DEF Rest, list
<1>. DEFINE S == {m \in Nat : m <= n => d[m].w \in Nat /\ d[m].w <= m /\ Midway(d[m].t, d[m].w, Rest(t, m), t)}
<1>6. 0 \in S
  <2>1. d[0] = [t |-> t, w |-> 0]
      BY <1>4 DEF Walked
  <2>2. d[0].t = t /\ d[0].w = 0
      BY <2>1
  <2>3. Rest(t, 0) = Active(t)
    <3>1. Rest(t, 0) = {list[l] : l \in 1 .. t.size}
        BY <1>5
    <3>. QED BY <1>2, <3>1
  <2>4. \A j \in Active(t) : 0 <= j
      BY ActiveFacts
  <2>5. 0 .. 0 - 1 = {}
      OBVIOUS
  <2>6. Active(t) = (0 .. 0 - 1) \cup Active(t)
      BY <2>5
  <2>7. Midway(t, 0, Active(t), t)
      BY <2>4, <2>5, <2>6 DEF Midway
  <2>. QED BY <2>2, <2>3, <2>7
<1>7. ASSUME NEW m \in Nat, m \in S PROVE m + 1 \in S
  <2>. SUFFICES ASSUME m + 1 <= n
                PROVE  d[m + 1].w \in Nat /\ d[m + 1].w <= m + 1 /\ Midway(d[m + 1].t, d[m + 1].w, Rest(t, m + 1), t)
      OBVIOUS
  <2>1. m <= n /\ m + 1 \in 1 .. t.size
      BY <1>1
  <2>2. PICK r : r = d[m].t
      OBVIOUS
  <2>3. PICK w \in Nat : w = d[m].w /\ w <= m /\ Midway(r, w, Rest(t, m), t) /\ r = d[m].t
      BY <1>7, <2>1, <2>2
  <2>4. PICK i : i = list[m + 1]
      OBVIOUS
  <2>5. d[m + 1] = WalkStep(list, d[m], m + 1)
    <3>1. PICK j \in 0 .. n : j = m + 1 /\ j # 0 /\ j - 1 = m
        OBVIOUS
    <3>2. d[j] = WalkStep(list, d[j - 1], j)
        BY <1>4, <3>1 DEF Walked
    <3>. QED BY <3>1, <3>2
  <2>6. d[m + 1] = [t |-> WalkEntry(r, i, w, Twin(r, i, w)), w |-> IF Twin(r, i, w) = {} THEN w + 1 ELSE w]
      BY <2>3, <2>4, <2>5 DEF WalkStep
  <2>7. d[m + 1].t = WalkEntry(r, i, w, Twin(r, i, w)) /\ d[m + 1].w = IF Twin(r, i, w) = {} THEN w + 1 ELSE w
      BY <2>6
  <2>8. PICK R \in SUBSET Nat : R = Rest(t, m)
    <3>1. \A l \in m + 1 .. t.size : list[l] \in Nat
      <4>1. \A l \in m + 1 .. t.size : l \in 1 .. t.size
          BY <1>1
      <4>. QED BY <1>3, <4>1
    <3>. QED BY <1>5, <3>1
  <2>9. i \in R /\ \A l \in R : i <= l
    <3>1. m + 1 \in m + 1 .. t.size
        BY <1>1, <2>1
    <3>2. i \in R
        BY <1>5, <2>4, <2>8, <3>1
    <3>3. ASSUME NEW l \in m + 1 .. t.size PROVE i <= list[l]
      <4>1. l \in 1 .. t.size /\ (l = m + 1 \/ m + 1 < l)
          BY <1>1, <3>3
      <4>2. list[l] \in Nat /\ i \in Nat
          BY <1>3, <2>1, <2>4, <4>1
      <4>. QED BY <1>2, <2>1, <2>4, <4>1, <4>2
    <3>. QED BY <1>5, <2>8, <3>2, <3>3
  <2>10. R \ {i} = Rest(t, m + 1)
    <3>1. ASSUME NEW l \in m + 1 .. t.size PROVE list[l] # i <=> l \in (m + 1) + 1 .. t.size
      <4>1. l \in 1 .. t.size /\ (l = m + 1 \/ m + 1 < l)
          BY <1>1, <3>1
      <4>2. list[l] \in Nat /\ i \in Nat
          BY <1>3, <2>1, <2>4, <4>1
      <4>3. CASE l = m + 1
          BY <2>4, <4>3
      <4>4. CASE m + 1 < l
        <5>1. i < list[l]
            BY <1>2, <2>1, <2>4, <4>1, <4>4
        <5>. QED BY <1>1, <4>1, <4>2, <4>4, <5>1
      <4>. QED BY <4>1, <4>3, <4>4
    <3>2. (m + 1) + 1 .. t.size \subseteq m + 1 .. t.size
        BY <1>1
    <3>3. Rest(t, m + 1) = {list[l] : l \in (m + 1) + 1 .. t.size}
        BY <1>5
    <3>. QED BY <1>5, <2>8, <3>1, <3>2, <3>3
  <2>11. r.ht => w + 1 <= DeletedValue(r)
    <3>. SUFFICES ASSUME r.ht PROVE w + 1 <= DeletedValue(r)
        OBVIOUS
    <3>1. r.ht = t.ht /\ r.bit = t.bit
        BY <2>3 DEF Midway
    <3>2. PICK c \in Nat : c = ib_capa(t)
        BY <1>1, ShiftType DEF ib_capa
    <3>3. DeletedValue(r) = c - 2 /\ t.size <= c - 2
        BY <3>1, <3>2 DEF DeletedValue, ib_capa
    <3>. QED BY <1>1, <2>1, <2>3, <3>2, <3>3
  <2>12. Midway(r, w, R, t)
      BY <2>3, <2>8
  <2>13. Midway(WalkEntry(r, i, w, Twin(r, i, w)), IF Twin(r, i, w) = {} THEN w + 1 ELSE w, R \ {i}, t)
      BY <2>9, <2>11, <2>12, WalkStepFacts
  <2>14. d[m + 1].w \in Nat /\ d[m + 1].w <= m + 1
      BY <2>3, <2>7
  <2>. QED BY <2>7, <2>10, <2>13, <2>14
<1>. HIDE DEF S
<1>8. \A m \in Nat : m \in S
    BY <1>6, <1>7, InductionInSet
<1>. QED BY <1>8 DEF S

\* The walk up to turn n
LEMMA WalkFacts ==
    ASSUME content \in [Key -> Key], NEW t, Shape(t), t.size = Cardinality(Active(t)), NEW n \in Nat, n <= t.size,
           t.ht => Index(t, 0) /\ Reachable(t, 0) /\ t.size <= DeletedValue(t)
    PROVE  \E w \in Nat : w <= n /\ Midway(Walk(t, n), w, Rest(t, n), t)
<1>1. PICK d : Walked(d, t, ActiveList(t), n) /\ Walk(t, n) = d[n].t
    BY WalkIs
<1>2. n \in 0 .. n /\ \A m \in 0 .. n : d[m].w \in Nat /\ d[m].w <= m /\ Midway(d[m].t, d[m].w, Rest(t, m), t)
    BY <1>1, WalkedFacts
<1>. QED BY <1>1, <1>2

-----------------------------------------------------------------------------
(* Rehash: what it leaves behind.                                          *)

\* A walk to the end leaves distinct keys in the first slots.
LEMMA WalkedThrough ==
    ASSUME content \in [Key -> Key], NEW t, Shape(t), t.size = Cardinality(Active(t)),
           t.ht => Index(t, 0) /\ Reachable(t, 0) /\ t.size <= DeletedValue(t)
    PROVE  LET r == Walk(t, t.size)
           IN  /\ Shape(r) /\ r.ht = t.ht /\ r.capa = t.capa /\ r.bit = t.bit /\ r.tbl = t.tbl /\ r.ea_at = t.ea_at
               /\ r.used = t.used /\ r.size \in Nat /\ r.size <= t.size /\ Active(r) = 0 .. r.size - 1 /\ Distinct(r)
               /\ r.ht => Index(r, r.size) /\ Reachable(r, r.size)
<1>1. t.size \in Nat /\ t.size <= t.size
    BY ActiveFacts
<1>. DEFINE r == Walk(t, t.size)
<1>2. PICK w \in Nat : w <= t.size /\ Midway(r, w, Rest(t, t.size), t)
    BY <1>1, WalkFacts
<1>. HIDE DEF r
<1>3. Rest(t, t.size) = {}
  <2>1. t.size + 1 .. t.size = {}
      BY <1>1
  <2>. QED BY <2>1 DEF Rest
<1>4. Active(r) = 0 .. w - 1 /\ r.size = Cardinality(Active(r))
    BY <1>2, <1>3 DEF Midway
<1>5. r.size = w
    BY <1>4, SlotsCount
<1>6. Distinct(r)
    BY <1>2, <1>4 DEF Midway, Distinct
<1>7. /\ Shape(r) /\ r.ht = t.ht /\ r.capa = t.capa /\ r.bit = t.bit /\ r.tbl = t.tbl /\ r.ea_at = t.ea_at
      /\ r.used = t.used /\ (r.ht => Index(r, w) /\ Reachable(r, w))
    BY <1>2 DEF Midway
<1>8. /\ Shape(r) /\ r.ht = t.ht /\ r.capa = t.capa /\ r.bit = t.bit /\ r.tbl = t.tbl /\ r.ea_at = t.ea_at
      /\ r.used = t.used /\ r.size \in Nat /\ r.size <= t.size /\ Active(r) = 0 .. r.size - 1 /\ Distinct(r)
      /\ r.ht => Index(r, r.size) /\ Reachable(r, r.size)
    BY <1>2, <1>4, <1>5, <1>6, <1>7
<1>. QED BY <1>8 DEF r

\* The last lines of both rehashes: the used slots are the first `size` ones.
LEMMA TrimmedEntries ==
    ASSUME NEW r, Shape(r), r.size \in Nat, Active(r) = 0 .. r.size - 1, r.size <= EA_MAX_CAPA
    PROVE  LET u == [r EXCEPT !.used = r.size]
           IN  /\ Entries(u) /\ SameKeys(u, r) /\ u.ht = r.ht /\ u.size = r.size /\ u.used = r.size
               /\ u.capa = r.capa /\ u.bit = r.bit /\ u.ib = r.ib /\ u.tbl = r.tbl /\ u.ea_at = r.ea_at
<1>. DEFINE u == [r EXCEPT !.used = r.size]
<1>1. /\ DOMAIN u = Fields
      /\ u.ht = r.ht /\ u.size = r.size /\ u.used = r.size /\ u.capa = r.capa /\ u.bit = r.bit
      /\ u.ib = r.ib /\ u.tbl = r.tbl /\ u.ea_at = r.ea_at /\ u.ea = r.ea
    BY DEF Shape, Fields
<1>. HIDE DEF u
<1>2. Active(u) = Active(r) /\ Slots(u) = Slots(r)
    BY <1>1 DEF Active, Slots
<1>3. Shape(u)
    BY <1>1, <1>2 DEF Shape
<1>4. SameKeys(u, r)
    BY <1>1, <1>2 DEF SameKeys
<1>5. r.size <= r.capa /\ r.capa \in Nat
  <2>1. r.capa \in Nat
      BY DEF Shape
  <2>2. CASE r.size = 0
      BY <2>1, <2>2
  <2>3. CASE r.size # 0
    <3>1. r.size - 1 \in Active(r)
        BY <2>3
    <3>2. r.size - 1 < r.capa
        BY <3>1, ActiveFacts
    <3>. QED BY <2>1, <3>2
  <2>. QED BY <2>1, <2>2, <2>3
<1>6. u.size = Cardinality(Active(u))
    BY <1>1, <1>2, SlotsCount
<1>7. \A i \in Active(u) : i < u.used
    BY <1>1, <1>2
<1>8. Entries(u)
    BY <1>1, <1>3, <1>5, <1>6, <1>7 DEF Entries
<1>9. /\ Entries(u) /\ SameKeys(u, r) /\ u.ht = r.ht /\ u.size = r.size /\ u.used = r.size
      /\ u.capa = r.capa /\ u.bit = r.bit /\ u.ib = r.ib /\ u.tbl = r.tbl /\ u.ea_at = r.ea_at
    BY <1>1, <1>4, <1>8
<1>. QED BY <1>9 DEF u

\* A rehash of a small table, to the end or not
LEMMA ar_rehashGood ==
    ASSUME content \in [Key -> Key], NEW t, Good(t), ~t.ht, NEW n \in Nat, n <= t.size, NEW a
    PROVE  Keeps(ar_rehash(t, n, a), t) /\ (n = t.size => Keyed(ar_rehash(t, n, a)))
<1>1. /\ Entries(t) /\ Shape(t) /\ t.size = Cardinality(Active(t)) /\ t.used \in Nat /\ t.capa \in Nat
      /\ t.used <= t.capa /\ t.used <= EA_MAX_CAPA /\ t.capa <= AR_MAX_SIZE /\ t.tbl = t.ea_at
      /\ \A i \in Active(t) : i < t.used
    BY DEF Good, Entries, Shape, Small
<1>2. t.size \in Nat /\ t.size <= t.used
    BY <1>1, CompressFacts
<1>3. CASE n < t.size
  <2>1. PICK r : r = Walk(t, n) /\ r = ar_rehash(t, n, a)
      BY <1>3 DEF ar_rehash
  <2>2. PICK w \in Nat : w <= n /\ Midway(r, w, Rest(t, n), t)
      BY <1>1, <2>1, WalkFacts
  <2>3. /\ Shape(r) /\ r.ht = t.ht /\ r.used = t.used /\ r.capa = t.capa /\ r.bit = t.bit
        /\ r.tbl = t.tbl /\ r.ea_at = t.ea_at
        /\ Active(r) = (0 .. w - 1) \cup Rest(t, n) /\ r.size = Cardinality(Active(r))
        /\ Distinct(t) => Distinct(r)
      BY <2>2 DEF Midway
  <2>4. \A i \in Active(r) : i < r.used
    <3>1. \A i \in Rest(t, n) : i \in Active(t)
      <4>1. \A l \in n + 1 .. t.size : l \in 1 .. Cardinality(Active(t))
          BY <1>1, <1>2
      <4>. QED BY <1>1, <4>1, ListFacts DEF Rest
    <3>2. \A i \in 0 .. w - 1 : i < t.used
        BY <1>1, <1>2, <2>2
    <3>. QED BY <1>1, <2>3, <3>1, <3>2
  <2>5. Entries(r)
      BY <1>1, <2>3, <2>4 DEF Entries
  <2>6. Good(r)
      BY <1>1, <2>3, <2>5 DEF Good, Small
  <2>7. Keyed(t) => Keyed(r)
      BY <2>3 DEF Keyed
  <2>. QED BY <1>2, <1>3, <2>1, <2>6, <2>7 DEF Keeps
<1>4. CASE ~(n < t.size)
  <2>1. n = t.size
      BY <1>2, <1>4
  <2>. DEFINE r == Walk(t, t.size)
              u == [r EXCEPT !.used = r.size]
              v == adjust_ea(u, r.size, t.capa, a)
  <2>2. ar_rehash(t, n, a) = v
      BY <1>4, <2>1 DEF ar_rehash
  <2>3. /\ Shape(r) /\ r.ht = t.ht /\ r.capa = t.capa /\ r.bit = t.bit /\ r.tbl = t.tbl /\ r.ea_at = t.ea_at
        /\ r.used = t.used /\ r.size \in Nat /\ r.size <= t.size /\ Active(r) = 0 .. r.size - 1 /\ Distinct(r)
        /\ r.ht => Index(r, r.size) /\ Reachable(r, r.size)
      BY <1>1, WalkedThrough
  <2>. HIDE DEF r
  <2>4. r.size <= EA_MAX_CAPA /\ r.size <= t.capa
      BY <1>1, <1>2, <2>3, SizeFacts
  <2>5. /\ Entries(u) /\ SameKeys(u, r) /\ u.ht = r.ht /\ u.size = r.size /\ u.used = r.size
        /\ u.capa = r.capa /\ u.bit = r.bit /\ u.ib = r.ib /\ u.tbl = r.tbl /\ u.ea_at = r.ea_at
      BY <2>3, <2>4, TrimmedEntries
  <2>. HIDE DEF u
  <2>6. r.size <= ea_next_capa_for(r.size, t.capa) /\ ea_next_capa_for(r.size, t.capa) <= AR_MAX_SIZE
      BY <1>1, <2>3, <2>4, NextCapa
  <2>7. u.used <= ea_next_capa_for(r.size, t.capa)
      BY <2>5, <2>6
  <2>8. /\ v.ht = u.ht /\ v.size = u.size /\ v.used = u.used /\ v.bit = u.bit
        /\ v.ib = u.ib /\ v.ea_at = a /\ v.capa = ea_next_capa_for(r.size, t.capa)
        /\ v.tbl = IF u.ht THEN u.tbl ELSE a
        /\ Entries(v) /\ SameKeys(v, u)
      BY <1>1, <2>3, <2>5, <2>7, AdjustFacts
  <2>. HIDE DEF v
  <2>9. ~v.ht /\ Small(v)
      BY <2>3, <2>5, <2>6, <2>8 DEF Small
  <2>10. Distinct(v)
      BY <2>3, <2>5, <2>8, SameDistinct
  <2>. QED BY <2>2, <2>8, <2>9, <2>10 DEF Keeps, Good, Keyed
<1>. QED BY <1>3, <1>4

\* A rehash of a large table, to the end
LEMMA ht_rehashGood ==
    ASSUME content \in [Key -> Key], NEW t, Good(t), t.ht, t.size > AR_MAX_SIZE, NEW a
    PROVE  Good(ht_rehash(t, t.size, a)) /\ Keyed(ht_rehash(t, t.size, a))
<1>1. /\ Entries(t) /\ Shape(t) /\ t.size = Cardinality(Active(t)) /\ t.used \in Nat /\ t.capa \in Nat
      /\ t.used <= t.capa /\ t.used <= EA_MAX_CAPA
    BY DEF Good, Entries, Shape
<1>2. t.size \in Nat /\ t.size <= t.used /\ t.size <= EA_MAX_CAPA /\ t.size <= t.capa
  <2>1. t.size \in Nat /\ t.size <= t.used
      BY <1>1, CompressFacts
  <2>. QED BY <1>1, <2>1, SizeFacts
<1>3. PICK b \in Nat : b = ib_bit_for(t.size) /\ b >= 3 /\ t.size <= ib_bit_to_capa[b] - 2
    BY <1>2, ib_bit_forFacts
<1>. DEFINE p == ht_init(t, 0, b, a)
            q == [p EXCEPT !.size = t.size]
            r == Walk(q, t.size)
            u == [r EXCEPT !.used = r.size]
<1>4. ht_rehash(t, t.size, a) = IF u.size <= AR_MAX_SIZE THEN ht_to_ar(u, a) ELSE adjust_ea(u, u.size, t.capa, a)
  <2>1. ~(t.size <= AR_MAX_SIZE) /\ ~(t.size < t.size)
      BY <1>2, SizeFacts
  <2>. QED BY <1>3, <2>1 DEF ht_rehash
<1>5. /\ DOMAIN p = Fields
      /\ p.ht = TRUE /\ p.tbl = a /\ p.size = 0 /\ p.used = 0 /\ p.bit = b
      /\ p.capa = t.capa /\ p.ea = t.ea /\ p.ea_at = t.ea_at
      /\ Shape(p) /\ SameKeys(p, t) /\ Index(p, 0) /\ Reachable(p, 0)
  <2>1. PICK z \in Nat : z = 0
      OBVIOUS
  <2>2. z <= ib_bit_to_capa[b] - 2 /\ \A i \in 0 .. z - 1 : i \in Active(t)
      BY <1>2, <1>3, <2>1, ShiftType
  <2>. DEFINE g == ht_init(t, z, b, a)
  <2>3. /\ DOMAIN g = Fields
        /\ g.ht = TRUE /\ g.tbl = a /\ g.size = z /\ g.used = z /\ g.bit = b
        /\ g.capa = t.capa /\ g.ea = t.ea /\ g.ea_at = t.ea_at
        /\ Shape(g) /\ SameKeys(g, t) /\ Index(g, z) /\ Reachable(g, z)
    <3>1. Shape(t) /\ b \in Nat /\ b >= 3
        BY <1>1, <1>3
    <3>. QED BY ONLY content \in [Key -> Key], z \in Nat, <2>2, <3>1, ht_initFacts
  <2>. QED BY <2>1, <2>3
<1>. HIDE DEF p
<1>6. /\ DOMAIN q = Fields
      /\ q.ht = TRUE /\ q.size = t.size /\ q.used = 0 /\ q.bit = b /\ q.capa = t.capa /\ q.ea = p.ea
      /\ q.ib = p.ib
    BY <1>5 DEF Fields
<1>. HIDE DEF q
<1>7. Active(q) = Active(p) /\ Slots(q) = Slots(p)
    BY <1>5, <1>6 DEF Active, Slots
<1>8. Shape(q) /\ q.size = Cardinality(Active(q)) /\ SameKeys(q, p)
  <2>1. q.ht \in BOOLEAN
      BY <1>6, Zenon
  <2>2. q.used \in Nat /\ q.capa \in Nat /\ q.bit \in Nat /\ q.ea \in [Slots(q) -> Slot]
      BY <1>1, <1>5, <1>6, <1>7 DEF Shape
  <2>. QED BY <1>1, <1>5, <1>6, <1>7, <2>1, <2>2 DEF Shape, SameKeys
<1>9. Index(q, 0) /\ Reachable(q, 0)
    BY <1>5, <1>6, <1>8, SameIndex
<1>10. q.size <= DeletedValue(q)
    BY <1>3, <1>6 DEF DeletedValue, ib_capa
<1>11. /\ Shape(r) /\ r.ht = q.ht /\ r.capa = q.capa /\ r.bit = q.bit /\ r.tbl = q.tbl /\ r.ea_at = q.ea_at
       /\ r.used = q.used /\ r.size \in Nat /\ r.size <= q.size /\ Active(r) = 0 .. r.size - 1 /\ Distinct(r)
       /\ r.ht => Index(r, r.size) /\ Reachable(r, r.size)
  <2>. DEFINE g == Walk(q, q.size)
  <2>1. /\ Shape(g) /\ g.ht = q.ht /\ g.capa = q.capa /\ g.bit = q.bit /\ g.tbl = q.tbl /\ g.ea_at = q.ea_at
        /\ g.used = q.used /\ g.size \in Nat /\ g.size <= q.size /\ Active(g) = 0 .. g.size - 1 /\ Distinct(g)
        /\ g.ht => Index(g, g.size) /\ Reachable(g, g.size)
      BY <1>8, <1>9, <1>10, WalkedThrough
  <2>. QED BY <1>6, <2>1
<1>. HIDE DEF r
<1>12. r.ht /\ Index(r, r.size) /\ Reachable(r, r.size) /\ r.size <= t.size /\ r.capa = t.capa
    BY <1>6, <1>11
<1>13. r.size <= EA_MAX_CAPA /\ r.size <= t.capa
    BY <1>1, <1>2, <1>11, <1>12, SizeFacts
<1>14. /\ Entries(u) /\ SameKeys(u, r) /\ u.ht = r.ht /\ u.size = r.size /\ u.used = r.size
       /\ u.capa = r.capa /\ u.bit = r.bit /\ u.ib = r.ib /\ u.tbl = r.tbl /\ u.ea_at = r.ea_at
    BY <1>11, <1>13, TrimmedEntries
<1>. HIDE DEF u
<1>15. Distinct(u) /\ Index(u, u.used) /\ Reachable(u, u.used)
    BY <1>11, <1>12, <1>14, SameIndex, SameDistinct
<1>16. CASE u.size <= AR_MAX_SIZE
  <2>. DEFINE v == ht_to_ar(u, a)
  <2>1. Good(v) /\ ~v.ht /\ v.size = u.size /\ v.used \in Nat /\ v.used <= u.used /\ (Distinct(u) => Keyed(v))
      BY <1>14, <1>16, ht_to_arFacts
  <2>. QED BY <1>4, <1>15, <1>16, <2>1
<1>17. CASE ~(u.size <= AR_MAX_SIZE)
  <2>. DEFINE v == adjust_ea(u, u.size, t.capa, a)
  <2>1. u.size \in Nat /\ u.used <= ea_next_capa_for(u.size, t.capa)
      BY <1>1, <1>11, <1>13, <1>14, NextCapa
  <2>2. /\ v.ht = u.ht /\ v.size = u.size /\ v.used = u.used /\ v.bit = u.bit
        /\ v.ib = u.ib /\ v.ea_at = a /\ v.capa = ea_next_capa_for(u.size, t.capa)
        /\ v.tbl = IF u.ht THEN u.tbl ELSE a
        /\ Entries(v) /\ SameKeys(v, u)
      BY <1>1, <1>14, <2>1, AdjustFacts
  <2>3. ht_rehash(t, t.size, a) = v
      BY <1>4, <1>17
  <2>. HIDE DEF v
  <2>4. Distinct(v) /\ Index(v, v.used) /\ Reachable(v, v.used)
      BY <1>15, <2>2, SameIndex, SameDistinct
  <2>5. v.ht
      BY <1>12, <1>14, <2>2
  <2>. QED BY <2>2, <2>3, <2>4, <2>5 DEF Good, Keyed
<1>. QED BY <1>16, <1>17

\* A rehash that is not interrupted in the middle of a large table
LEMMA h_rehashGood ==
    ASSUME content \in [Key -> Key], NEW t, Good(t), NEW n \in Nat, n <= t.size, NEW a,
           t.ht /\ t.size > AR_MAX_SIZE => n = t.size
    PROVE  Keeps(h_rehash(t, n, a), t) /\ (n = t.size => Keyed(h_rehash(t, n, a)))
<1>1. Entries(t) /\ t.ht \in BOOLEAN /\ t.size \in Nat
    BY CompressFacts DEF Good, Entries, Shape
<1>2. CASE t.size = 0
    BY <1>2, h_initGood DEF h_rehash, Keeps
<1>3. CASE t.size # 0 /\ ~t.ht
    BY <1>3, ar_rehashGood DEF h_rehash
<1>4. CASE t.size # 0 /\ t.ht /\ ~(t.size <= AR_MAX_SIZE)
  <2>1. t.size > AR_MAX_SIZE
      BY <1>1, <1>4, SizeFacts
  <2>2. Good(ht_rehash(t, t.size, a)) /\ Keyed(ht_rehash(t, t.size, a))
      BY <1>4, <2>1, ht_rehashGood
  <2>3. h_rehash(t, n, a) = ht_rehash(t, t.size, a)
      BY <1>4, <2>1 DEF h_rehash
  <2>. QED BY <2>2, <2>3 DEF Keeps
<1>5. CASE t.size # 0 /\ t.ht /\ t.size <= AR_MAX_SIZE
  <2>. DEFINE r == ht_to_ar(t, a)
  <2>1. h_rehash(t, n, a) = ar_rehash(r, n, a)
      BY <1>1, <1>5, SizeFacts DEF h_rehash, ht_rehash
  <2>2. Good(r) /\ ~r.ht /\ r.size = t.size /\ r.used \in Nat /\ r.used <= t.used /\ (Distinct(t) => Keyed(r))
      BY <1>1, <1>5, ht_to_arFacts
  <2>. HIDE DEF r
  <2>3. Keeps(ar_rehash(r, n, a), r) /\ (n = r.size => Keyed(ar_rehash(r, n, a)))
      BY <2>2, ar_rehashGood
  <2>. QED BY <2>1, <2>2, <2>3 DEF Keeps, Keyed
<1>. QED BY <1>1, <1>2, <1>3, <1>4, <1>5

-----------------------------------------------------------------------------
(* The steps.                                                              *)

\* The next table is as good as the record that describes it.
LEMMA NextGood == ASSUME NEW r, h' = r, Good(r) PROVE Good(h)'
    BY DEF Good, Entries, Shape, Slots, Active, Index, Taken, ib_capa, EmptyValue, DeletedValue, Small

LEMMA NextKeyed == ASSUME NEW r, h' = r, content' = content, Keyed(r) PROVE Keyed(h)'
<1>1. Active(h)' = Active(r)
    BY DEF Active, Slots
<1>2. Distinct(h)'
    BY <1>1 DEF Keyed, Distinct
<1>3. /\ Steps(h)' = Steps(r) /\ EmptyValue(h)' = EmptyValue(r)
      /\ \A i, s : Bucket(h, h.ea[i].key, s)' = Bucket(r, r.ea[i].key, s)
    BY DEF Bucket, Probe, Steps, ib_capa, EmptyValue
<1>4. ASSUME NEW i, OnProbe(r, i) PROVE OnProbe(h, i)'
  <2>1. PICK s \in Steps(r) : /\ Bucket(r, r.ea[i].key, s) = i
                              /\ \A g \in Steps(r) : g < s => Bucket(r, r.ea[i].key, g) # EmptyValue(r)
      BY <1>4 DEF OnProbe
  <2>2. /\ s \in Steps(h)' /\ Bucket(h, h.ea[i].key, s)' = i
        /\ \A g \in Steps(h)' : g < s => Bucket(h, h.ea[i].key, g)' # EmptyValue(h)'
      BY <1>3, <2>1
  <2>. QED BY <2>2 DEF OnProbe
<1>5. h.ht' => Reachable(h, h.used)'
    BY <1>1, <1>4 DEF Keyed, Reachable
<1>. QED BY <1>2, <1>5 DEF Keyed

\* A method leaves a good table, whose keys can be found unless they are stale.
LEMMA MethodKeeps ==
    ASSUME HInv, Count, content' = content, stale' \in BOOLEAN, NEW r, h' = r, Good(r), ~stale' => Keyed(r)
    PROVE  HInv'
<1>1. Good(h)' /\ (~stale' => Keyed(h)')
    BY NextGood, NextKeyed
<1>2. content' \in [Key -> Key]
    BY DEF HInv
<1>3. (it.on \in BOOLEAN)' /\ Watching'
  <2>1. CASE it.on
    <3>1. DOMAIN it = IterFields /\ it' = [it EXCEPT !.calls = @ + 1]
        BY <2>1 DEF HInv, Watching, Count
    <3>2. /\ DOMAIN it' = IterFields /\ it'.on = it.on /\ it'.pos = it.pos /\ it'.end = it.end
          /\ it'.chk = it.chk /\ it'.at = it.at
        BY <3>1 DEF IterFields
    <3>. QED BY <2>1, <3>2 DEF HInv, Watching
  <2>2. CASE ~it.on
    <3>1. it' = it
        BY <2>2 DEF Count
    <3>. QED BY <2>2, <3>1 DEF HInv, Watching
  <2>. QED BY <2>1, <2>2
<1>. QED BY <1>1, <1>2, <1>3 DEF HInv

\* An iteration ends.
LEMMA SettledGood == ASSUME NEW t, Good(t) PROVE Keeps(Settled(t), t)
<1>. DEFINE u == Settled(t)
<1>1. Shape(t) /\ DOMAIN t = Fields
    BY DEF Good, Entries, Shape
<1>2. /\ DOMAIN u = Fields
      /\ u.ht = t.ht /\ u.size = t.size /\ u.used = t.used /\ u.capa = t.capa /\ u.bit = t.bit
      /\ u.ib = t.ib /\ u.ea = t.ea
      /\ u.tbl = (IF t.tbl = NULL THEN NULL ELSE Home) /\ u.ea_at = (IF t.ea_at = NULL THEN NULL ELSE Home)
    BY <1>1 DEF Settled, Fields
<1>. HIDE DEF u
<1>3. Active(u) = Active(t) /\ Slots(u) = Slots(t) /\ SameKeys(u, t)
    BY <1>2 DEF Active, Slots, SameKeys
<1>4. Entries(u)
    BY <1>2, <1>3 DEF Good, Entries, Shape
<1>5. t.ht => Index(u, u.used) /\ (Reachable(t, t.used) => Reachable(u, u.used))
    BY <1>2, <1>3, SameIndex DEF Good
<1>6. ~t.ht => Small(u)
    BY <1>2 DEF Good, Small
<1>7. Keeps(u, t)
    BY <1>2, <1>3, <1>4, <1>5, <1>6, SameDistinct DEF Keeps, Good, Keyed
<1>. QED BY <1>7 DEF u

LEMMA EachEndKeeps ==
    ASSUME HInv, EachEnd, UNCHANGED <<content, stale>> PROVE HInv' /\ ~it'.on
<1>1. Good(h) /\ (~stale => Keyed(h)) /\ content \in [Key -> Key] /\ stale \in BOOLEAN
    BY DEF HInv
<1>2. PICK r : r = Settled(h)
    OBVIOUS
<1>3. Good(r) /\ (~stale => Keyed(r))
    BY <1>1, <1>2, SettledGood DEF Keeps
<1>4. h' = r /\ it' = NoIter
    BY <1>2 DEF EachEnd
<1>5. Good(h)' /\ (~stale => Keyed(h)')
    BY <1>3, <1>4, NextGood, NextKeyed
<1>6. it'.on = FALSE
    BY <1>4 DEF NoIter
<1>7. (it.on \in BOOLEAN)' /\ Watching'
    BY <1>6 DEF Watching
<1>. QED BY <1>1, <1>5, <1>6, <1>7 DEF HInv

\* A key changes: the stored keys are as before, or they are stale now.
LEMMA ChangeKeyKeeps == ASSUME HInv, NEW k \in Mutable, ChangeKey(k) PROVE HInv'
<1>1. Good(h) /\ (~stale => Keyed(h)) /\ content \in [Key -> Key] /\ stale \in BOOLEAN /\ Watching /\ it.on \in BOOLEAN
    BY DEF HInv
<1>2. h' = h /\ it' = it /\ stale' = (stale \/ \E i \in Active(h) : h.ea[i].key = k)
    BY DEF ChangeKey
<1>3. PICK c \in Key : content' = [content EXCEPT ![k] = c]
  <2>1. ChangedTo \subseteq Key
      BY HashAssumption
  <2>. QED BY <2>1 DEF ChangeKey
<1>4. content' \in [Key -> Key] /\ \A l \in Key : l # k => content'[l] = content[l]
    BY <1>1, <1>3
<1>5. Good(h)'
    BY <1>1, <1>2, NextGood
<1>6. ASSUME ~stale' PROVE Keyed(h)'
  <2>1. Keyed(h) /\ \A i \in Active(h) : h.ea[i].key # k
      BY <1>1, <1>2, <1>6
  <2>2. Shape(h)
      BY <1>1 DEF Good, Entries
  <2>3. \A i \in Active(h) : content'[h.ea[i].key] = content[h.ea[i].key]
      BY <1>4, <2>1, <2>2, ActiveFacts
  <2>4. Active(h)' = Active(h) /\ Steps(h)' = Steps(h) /\ EmptyValue(h)' = EmptyValue(h) /\ ib_capa(h)' = ib_capa(h)
      BY <1>2 DEF Active, Slots, Steps, EmptyValue, ib_capa
  <2>5. Distinct(h)'
      BY <1>2, <2>1, <2>3, <2>4 DEF Keyed, Distinct
  <2>6. ASSUME h.ht, NEW i \in Active(h), i < h.used PROVE OnProbe(h, i)'
    <3>1. OnProbe(h, i)
        BY <2>1, <2>6 DEF Keyed, Reachable
    <3>2. \A s : Bucket(h, h.ea[i].key, s)' = Bucket(h, h.ea[i].key, s)
        BY <1>2, <2>3, <2>4 DEF Bucket, Probe
    <3>. QED BY <1>2, <2>4, <3>1, <3>2 DEF OnProbe
  <2>7. h.ht => Reachable(h, h.used)'
      BY <1>2, <2>4, <2>6 DEF Reachable
  <2>. QED BY <1>2, <2>5, <2>7 DEF Keyed
<1>7. stale' \in BOOLEAN
    BY <1>2
<1>8. Watching' /\ (it.on \in BOOLEAN)'
    BY <1>1, <1>2 DEF Watching
<1>. QED BY <1>4, <1>5, <1>6, <1>7, <1>8 DEF HInv

-----------------------------------------------------------------------------
(* The iteration.                                                          *)

\* What the snapshot tells of the table: its end and where its array is
LEMMA SnapshotFacts ==
    ASSUME NEW t, Good(t), NEW c, Snapshot(t) = c
    PROVE  c[4] = t.capa /\ t.ea_at = IF c[1] THEN c[6] ELSE c[3]
<1>1. c[1] = t.ht /\ c[3] = t.tbl /\ c[4] = t.capa
    BY DEF Snapshot
<1>2. t.ht => c[6] = t.ea_at
    BY DEF Snapshot
<1>3. ~t.ht => t.tbl = t.ea_at
    BY DEF Good, Small
<1>. QED BY <1>1, <1>2, <1>3

\* The next entry is a live one if the array is the table's.
LEMMA SkipFacts ==
    ASSUME Shape(h), NEW e \in Nat, e <= h.capa
    PROVE  LET p == Skip(e, h.capa, h.ea_at)
           IN  p = h.capa \/ (p \in Nat /\ p < h.capa /\ p \in Slots(h) /\ h.ea[p] # Vacant)
<1>. DEFINE S == {p \in e .. h.capa - 1 : h.ea_at # h.ea_at \/ p \notin Slots(h) \/ h.ea[p] # Vacant}
<1>1. h.capa \in Nat
    BY DEF Shape
<1>2. S \in SUBSET Nat
    BY <1>1
<1>3. Skip(e, h.capa, h.ea_at) = IF S = {} THEN h.capa ELSE Min(S)
    BY DEF Skip
<1>4. CASE S # {}
  <2>1. PICK p \in S : p = Min(S)
      BY <1>2, <1>4, MinFacts
  <2>2. p \in Nat /\ p < h.capa /\ p \in Slots(h)
      BY <1>1, <2>1 DEF Slots
  <2>3. h.ea[p] # Vacant
      BY <2>1, <2>2
  <2>. QED BY <1>3, <1>4, <2>1, <2>2, <2>3
<1>. QED BY <1>3, <1>4

\* The property of one step of the iteration
ReadsLive == /\ it'.at = h.ea_at /\ it'.pos \in Slots(h)
             /\ h.ea[it'.pos] # Vacant /\ it'.got = it'.key

\* An iteration goes to the next entry, or ends.
LEMMA VisitKeeps ==
    ASSUME HInv, NEW e \in Nat, e <= h.capa, NEW left, UNCHANGED <<content, stale>>,
           Visit(Skip(e, h.capa, h.ea_at), h.capa, left, h.ea_at)
    PROVE  HInv' /\ (it'.on => ReadsLive)
<1>1. Good(h) /\ (~stale => Keyed(h)) /\ content \in [Key -> Key] /\ stale \in BOOLEAN /\ Shape(h) /\ h.capa \in Nat
    BY DEF HInv, Good, Entries, Shape
<1>2. PICK p : p = Skip(e, h.capa, h.ea_at)
    OBVIOUS
<1>3. p = h.capa \/ (p \in Nat /\ p < h.capa /\ p \in Slots(h) /\ h.ea[p] # Vacant)
    BY <1>1, <1>2, SkipFacts
<1>4. CASE left = 0 \/ p = h.capa
  <2>1. EachEnd
      BY <1>2, <1>4 DEF Visit
  <2>. QED BY <2>1, EachEndKeeps
<1>5. CASE ~(left = 0 \/ p = h.capa)
  <2>1. PICK k : k = h.ea[p].key
      OBVIOUS
  <2>2. /\ it' = [on |-> TRUE, pos |-> p, end |-> h.capa, left |-> left, at |-> h.ea_at,
                  key |-> k, got |-> k, chk |-> Snapshot(h), calls |-> 0]
        /\ h' = h
      BY <1>2, <1>3, <1>5, <2>1 DEF Visit
  <2>3. /\ DOMAIN it' = IterFields /\ it'.on = TRUE /\ it'.pos = p /\ it'.end = h.capa /\ it'.at = h.ea_at
        /\ it'.key = k /\ it'.got = k /\ it'.chk = Snapshot(h)
      BY <2>2 DEF IterFields
  <2>4. PICK c : c = Snapshot(h)
      OBVIOUS
  <2>5. c[4] = h.capa /\ h.ea_at = IF c[1] THEN c[6] ELSE c[3]
      BY <1>1, <2>4, SnapshotFacts
  <2>6. Watching'
      BY <1>1, <1>3, <1>5, <2>3, <2>4, <2>5 DEF Watching
  <2>7. Good(h)' /\ (~stale => Keyed(h)')
      BY <1>1, <2>2, NextGood, NextKeyed
  <2>8. (it.on \in BOOLEAN)'
      BY <2>3
  <2>9. HInv'
      BY <1>1, <2>6, <2>7, <2>8 DEF HInv
  <2>10. ReadsLive
      BY <1>3, <1>5, <2>3 DEF ReadsLive
  <2>. QED BY <2>9, <2>10
<1>. QED BY <1>4, <1>5

LEMMA EachStartKeeps == ASSUME HInv, EachStart PROVE HInv' /\ (it'.on => ReadsLive)
<1>1. 0 \in Nat /\ 0 <= h.capa
    BY DEF HInv, Good, Entries, Shape
<1>. QED BY <1>1, VisitKeeps DEF EachStart

\* Snapshot unchanged: the iteration's end and address are the table's.
LEMMA Unmodified ==
    ASSUME HInv, it.on, Snapshot(h) = it.chk
    PROVE  it.end = h.capa /\ it.at = h.ea_at /\ it.pos \in Nat /\ it.pos < h.capa /\ DOMAIN it = IterFields
<1>1. PICK c : c = it.chk
    OBVIOUS
<1>2. Good(h) /\ Snapshot(h) = c
    BY <1>1 DEF HInv
<1>3. c[4] = h.capa /\ h.ea_at = IF c[1] THEN c[6] ELSE c[3]
    BY <1>2, SnapshotFacts
<1>4. /\ DOMAIN it = IterFields
      /\ it.pos \in Nat /\ it.end \in Nat /\ it.pos < it.end
      /\ it.end = c[4] /\ it.at = IF c[1] THEN c[6] ELSE c[3]
    BY <1>1 DEF HInv, Watching
<1>. QED BY <1>3, <1>4

LEMMA EachNextKeeps == ASSUME HInv, EachNext PROVE HInv' /\ (it'.on => ReadsLive)
<1>1. it.on /\ UNCHANGED <<content, stale>>
    BY DEF EachNext
<1>2. CASE Snapshot(h) # it.chk
  <2>1. EachEnd
      BY <1>2 DEF EachNext
  <2>. QED BY <1>1, <2>1, EachEndKeeps
<1>3. CASE Snapshot(h) = it.chk
  <2>1. it.end = h.capa /\ it.at = h.ea_at /\ it.pos \in Nat /\ it.pos < h.capa
      BY <1>1, <1>3, Unmodified
  <2>2. h.capa \in Nat
      BY DEF HInv, Good, Entries, Shape
  <2>3. PICK e \in Nat : e = it.pos + 1 /\ e <= h.capa
      BY <2>1, <2>2
  <2>4. Visit(Skip(e, h.capa, h.ea_at), h.capa, it.left - 1, h.ea_at)
      BY <1>3, <2>1, <2>3 DEF EachNext
  <2>. QED BY <1>1, <2>3, <2>4, VisitKeeps
<1>. QED BY <1>2, <1>3

LEMMA EachRereadKeeps == ASSUME HInv, EachReread PROVE HInv' /\ (it'.on => ReadsLive)
<1>1. it.on /\ UNCHANGED <<content, stale>>
    BY DEF EachReread
<1>2. CASE Snapshot(h) # it.chk \/ Vacated(it.key)
  <2>1. EachEnd
      BY <1>2 DEF EachReread
  <2>. QED BY <1>1, <2>1, EachEndKeeps
<1>3. CASE ~(Snapshot(h) # it.chk \/ Vacated(it.key))
  <2>1. it.end = h.capa /\ it.at = h.ea_at /\ it.pos \in Nat /\ it.pos < h.capa /\ DOMAIN it = IterFields
      BY <1>1, <1>3, Unmodified
  <2>2. h.ea[it.pos] # Vacant /\ h.ea[it.pos].key = it.key
      BY <1>3 DEF Vacated
  <2>3. it' = [it EXCEPT !.got = h.ea[it.pos].key] /\ h' = h
      BY <1>3 DEF EachReread
  <2>4. /\ DOMAIN it' = IterFields /\ it'.on = it.on /\ it'.pos = it.pos /\ it'.end = it.end
        /\ it'.chk = it.chk /\ it'.at = it.at /\ it'.key = it.key /\ it'.got = h.ea[it.pos].key
      BY <2>1, <2>3 DEF IterFields
  <2>5. h.capa \in Nat
      BY DEF HInv, Good, Entries, Shape
  <2>6. ReadsLive
      BY <2>1, <2>2, <2>4, <2>5 DEF ReadsLive, Slots
  <2>7. Watching' /\ (it.on \in BOOLEAN)'
      BY <1>1, <2>4 DEF HInv, Watching
  <2>8. Good(h)' /\ (~stale => Keyed(h)')
      BY <1>1, <2>3, NextGood, NextKeyed DEF HInv
  <2>9. HInv'
      BY <1>1, <2>7, <2>8 DEF HInv
  <2>. QED BY <2>6, <2>9
<1>. QED BY <1>2, <1>3

-----------------------------------------------------------------------------
(* A store that hash or eql? ends with an exception.                       *)

\* The first `size` slots of c hold the pairs of t, and an index of that width
\* has room for them.
Ready(c, t, size, bit) ==
    /\ Shape(c) /\ size \in Nat /\ Active(c) = 0 .. size - 1 /\ size <= c.capa /\ size <= EA_MAX_CAPA
    /\ bit \in Nat /\ bit >= 3 /\ size <= ib_bit_to_capa[bit] - 2
    /\ Distinct(t) => Distinct(c)

LEMMA PromoteReady ==
    ASSUME NEW t, Good(t), ~t.ht, NEW k, Promotes(t, k) PROVE Ready(t, t, t.size, IB_INIT_BIT)
<1>1. Entries(t) /\ Shape(t) /\ t.used \in Nat /\ t.capa \in Nat /\ t.size = Cardinality(Active(t)) /\ t.used <= EA_MAX_CAPA
    BY DEF Good, Entries, Shape
<1>2. t.capa = AR_MAX_SIZE /\ t.used = AR_MAX_SIZE /\ t.size = AR_MAX_SIZE
    BY DEF Promotes
<1>3. Active(t) = 0 .. t.size - 1
  <2>1. Active(t) \in SUBSET (0 .. t.capa - 1)
      BY <1>1, ActiveFacts
  <2>2. Cardinality(Active(t)) = t.capa
      BY <1>1, <1>2
  <2>3. Active(t) = 0 .. t.capa - 1
      BY <1>1, <2>1, <2>2, SlotsFinite
  <2>. QED BY <1>2, <2>3
<1>4. PICK c \in Nat : c = ib_bit_to_capa[IB_INIT_BIT] /\ (3 * c) \div 4 <= c - 2 /\ AR_MAX_SIZE < (3 * c) \div 4 /\ (3 * c) \div 4 \in Nat
    BY SizeFacts, CapaFacts, HashAssumption DEF ib_upper_bound_for
<1>5. t.size <= ib_bit_to_capa[IB_INIT_BIT] - 2 /\ t.size \in Nat /\ t.size <= t.capa /\ t.size <= EA_MAX_CAPA
    BY <1>1, <1>2, <1>4, SizeFacts
<1>. QED BY <1>1, <1>3, <1>5, SizeFacts DEF Ready

LEMMA GrowReady ==
    ASSUME NEW t, Good(t), t.ht PROVE Ready(ea_compress(t), t, t.size, t.bit + 1)
<1>1. Entries(t) /\ t.used \in Nat /\ t.capa \in Nat /\ t.used <= t.capa /\ t.used <= EA_MAX_CAPA
      /\ t.bit \in Nat /\ t.bit >= 3 /\ Index(t, t.used)
    BY DEF Good, Entries, Shape, Index
<1>2. PICK c : c = ea_compress(t)
    OBVIOUS
<1>3. c.capa = t.capa /\ Shape(c) /\ t.size \in Nat /\ t.size <= t.used /\ Active(c) = 0 .. t.size - 1
    BY <1>1, <1>2, CompressFacts
<1>4. PICK n \in Nat : n = ib_capa(t) /\ n >= 8 /\ DeletedValue(t) = n - 2
    BY <1>1, IndexFacts
<1>5. t.used <= n - 2
    BY <1>1, <1>4 DEF Index
<1>6. ib_bit_to_capa[t.bit + 1] = 2 * n /\ t.bit + 1 \in Nat /\ t.bit + 1 >= 3
    BY <1>1, <1>4, ShiftNext DEF ib_capa
<1>7. t.size <= ib_bit_to_capa[t.bit + 1] - 2 /\ t.size <= c.capa /\ t.size <= EA_MAX_CAPA
    BY <1>1, <1>3, <1>4, <1>5, <1>6, SizeFacts
<1>8. Distinct(t) => Distinct(c)
    BY <1>1, <1>2, CompressDistinct
<1>9. Ready(c, t, t.size, t.bit + 1)
    BY <1>3, <1>6, <1>7, <1>8 DEF Ready
<1>. QED BY <1>2, <1>9

LEMMA FittedReady ==
    ASSUME NEW t, Good(t), t.ht, NEW a PROVE Ready(Fitted(t, a), t, t.size, t.bit)
<1>1. Entries(t) /\ t.used \in Nat /\ t.capa \in Nat /\ t.used <= t.capa /\ t.used <= EA_MAX_CAPA
      /\ t.bit \in Nat /\ t.bit >= 3 /\ Index(t, t.used)
    BY DEF Good, Entries, Shape, Index
<1>2. PICK c : c = ea_compress(t)
    OBVIOUS
<1>3. c.capa = t.capa /\ Shape(c) /\ t.size \in Nat /\ t.size <= t.used /\ Active(c) = 0 .. t.size - 1
    BY <1>1, <1>2, CompressFacts
<1>4. PICK n \in Nat : n = ea_next_capa_for(t.size, t.capa) /\ t.size <= n
  <2>1. t.size <= t.capa
      BY <1>1, <1>3
  <2>. QED BY <1>1, <1>3, <2>1, NextCapa
<1>5. \A i \in Active(c) : i < ea_next_capa_for(t.size, t.capa)
    BY <1>3, <1>4
<1>6. PICK f : f = Fitted(t, a)
    OBVIOUS
<1>7. f = adjust_ea(c, t.size, t.capa, a)
    BY <1>2, <1>6 DEF Fitted
<1>8. f.capa = ea_next_capa_for(t.size, t.capa) /\ Shape(f) /\ SameKeys(f, c)
    BY <1>1, <1>3, <1>5, <1>7, AdjustShape
<1>9. Active(f) = 0 .. t.size - 1 /\ t.size <= f.capa
    BY <1>3, <1>4, <1>8 DEF SameKeys
<1>10. Distinct(t) => Distinct(f)
    BY <1>1, <1>2, <1>8, CompressDistinct, SameDistinct
<1>11. PICK m \in Nat : m = ib_bit_to_capa[t.bit] /\ m = ib_capa(t) /\ DeletedValue(t) = m - 2
    BY <1>1, IndexFacts DEF ib_capa
<1>12. t.size <= ib_bit_to_capa[t.bit] - 2 /\ t.size <= EA_MAX_CAPA
    BY <1>1, <1>3, <1>11, SizeFacts DEF Index
<1>13. Ready(f, t, t.size, t.bit)
    BY <1>1, <1>3, <1>8, <1>9, <1>10, <1>12 DEF Ready
<1>. QED BY <1>6, <1>13

\* A whole index is the one ht_init() leaves.
LEMMA IndexesWhole ==
    ASSUME "index" \notin RaiseIn, NEW c, NEW t, NEW size, NEW bit, Ready(c, t, size, bit), NEW a,
           Indexes(Switched(c, size, bit, a))
    PROVE  h' = ht_init(c, size, bit, a)
<1>. DEFINE q == Switched(c, size, bit, a)
<1>1. q.used = size /\ size \in Nat
    BY DEF Ready, Shape, Fields, Switched
<1>2. PICK n \in q.used .. q.used : h' = IndexUpTo(q, n)
    BY DEF Indexes
<1>. HIDE DEF q
<1>3. n = q.used
    BY <1>1
<1>. QED BY <1>2, <1>3 DEF ht_init, ib_init, q

LEMMA ReadyGood ==
    ASSUME NEW c, NEW t, NEW size, NEW bit, Ready(c, t, size, bit), content \in [Key -> Key], NEW a
    PROVE  Keeps(ht_init(c, size, bit, a), t)
<1>1. /\ Shape(c) /\ size \in Nat /\ Active(c) = 0 .. size - 1 /\ size <= c.capa /\ size <= EA_MAX_CAPA
      /\ bit \in Nat /\ bit >= 3 /\ size <= ib_bit_to_capa[bit] - 2
    BY DEF Ready
<1>2. PICK q : q = ht_init(c, size, bit, a)
    OBVIOUS
<1>3. Good(q) /\ (Distinct(c) => Keyed(q))
    BY <1>1, <1>2, PackedHt
<1>. QED BY <1>2, <1>3 DEF Ready, Keeps, Keyed

\* What a store has made of t when the exception is raised, with a whole index
Prepared(r, t, a) ==
    \/ \E c, size, bit : Ready(c, t, size, bit) /\ r = ht_init(c, size, bit, a) /\ c \in {t, ea_compress(t), Fitted(t, a)}
    \/ t.size <= AR_MAX_SIZE /\ r = ht_to_ar(t, a)
    \/ /\ t.size <= AR_MAX_SIZE
       /\ \E ar, size, bit : /\ ar = ht_to_ar(t, a) /\ Ready(ar, ar, size, bit)
                             /\ r = ht_init(ar, size, bit, a)

LEMMA StoreRaisesPrepares ==
    ASSUME "index" \notin RaiseIn, Good(h), NEW k \in Key, StoreRaises(k)
    PROVE  \E a, r : h' = r /\ Prepared(r, h, a)
<1>. DEFINE Goal == \E a, r : h' = r /\ Prepared(r, h, a)
<1>0. Entries(h)
    BY DEF Good
<1>1. ASSUME NEW a, ~h.ht, Promotes(h, k), Indexes(Switched(h, h.size, IB_INIT_BIT, a)) PROVE Goal
  <2>1. Ready(h, h, h.size, IB_INIT_BIT)
      BY <1>1, PromoteReady
  <2>2. PICK r : r = ht_init(h, h.size, IB_INIT_BIT, a)
      OBVIOUS
  <2>3. h' = r
      BY <1>1, <2>1, <2>2, IndexesWhole
  <2>4. Prepared(r, h, a)
      BY <2>1, <2>2 DEF Prepared
  <2>. QED BY <2>3, <2>4
<1>2. ASSUME NEW a, h.ht, Indexes(Switched(ea_compress(h), h.size, h.bit + 1, a)) PROVE Goal
  <2>1. Ready(ea_compress(h), h, h.size, h.bit + 1)
      BY <1>2, GrowReady
  <2>2. PICK c, b, r : c = ea_compress(h) /\ b = h.bit + 1 /\ r = ht_init(c, h.size, b, a)
      OBVIOUS
  <2>3. h' = r
      BY <1>2, <2>1, <2>2, IndexesWhole
  <2>4. Prepared(r, h, a)
      BY <2>1, <2>2 DEF Prepared
  <2>. QED BY <2>3, <2>4
<1>3. ASSUME NEW a, h.ht, Indexes(Switched(Fitted(h, a), h.size, h.bit, a)) PROVE Goal
  <2>1. Ready(Fitted(h, a), h, h.size, h.bit)
      BY <1>3, FittedReady
  <2>2. PICK c, r : c = Fitted(h, a) /\ r = ht_init(c, h.size, h.bit, a)
      OBVIOUS
  <2>3. h' = r
      BY <1>3, <2>1, <2>2, IndexesWhole
  <2>4. Prepared(r, h, a)
      BY <2>1, <2>2 DEF Prepared
  <2>. QED BY <2>3, <2>4
<1>4. ASSUME NEW a, Demotes(h), h' = ht_to_ar(h, a) PROVE Goal
  <2>1. Prepared(ht_to_ar(h, a), h, a)
      BY <1>4 DEF Prepared, Demotes
  <2>. QED BY <1>4, <2>1
<1>5. ASSUME NEW a, Demotes(h), Promotes(ht_to_ar(h, a), k),
             Indexes(Switched(ht_to_ar(h, a), ht_to_ar(h, a).size, IB_INIT_BIT, a))
      PROVE  Goal
  <2>1. PICK ar : ar = ht_to_ar(h, a)
      OBVIOUS
  <2>2. h.size <= AR_MAX_SIZE
      BY <1>5 DEF Demotes
  <2>3. Good(ar) /\ ~ar.ht
      BY <1>0, <2>1, <2>2, ht_to_arFacts
  <2>4. Ready(ar, ar, ar.size, IB_INIT_BIT)
      BY <1>5, <2>1, <2>3, PromoteReady
  <2>5. PICK r : r = ht_init(ar, ar.size, IB_INIT_BIT, a)
      OBVIOUS
  <2>6. h' = r
      BY <1>5, <2>1, <2>4, <2>5, IndexesWhole
  <2>7. Prepared(r, h, a)
      BY <2>1, <2>2, <2>4, <2>5 DEF Prepared
  <2>. QED BY <2>6, <2>7
<1>. HIDE DEF Goal
<1>6. Goal
    BY <1>1, <1>2, <1>3, <1>4, <1>5 DEF StoreRaises
<1>. QED BY <1>6 DEF Goal

LEMMA PreparedGood ==
    ASSUME NEW t, Good(t), content \in [Key -> Key], NEW a, NEW r, Prepared(r, t, a) PROVE Keeps(r, t)
<1>1. ASSUME NEW c, NEW size, NEW bit, Ready(c, t, size, bit), r = ht_init(c, size, bit, a) PROVE Keeps(r, t)
    BY <1>1, ReadyGood
<1>2. ASSUME t.size <= AR_MAX_SIZE PROVE Keeps(ht_to_ar(t, a), t)
  <2>1. Entries(t)
      BY DEF Good
  <2>2. PICK q : q = ht_to_ar(t, a)
      OBVIOUS
  <2>3. Good(q) /\ (Distinct(t) => Keyed(q))
      BY <1>2, <2>1, <2>2, ht_to_arFacts
  <2>. QED BY <2>2, <2>3 DEF Keeps, Keyed
<1>3. ASSUME t.size <= AR_MAX_SIZE, NEW ar, NEW size, NEW bit, ar = ht_to_ar(t, a), Ready(ar, ar, size, bit),
             r = ht_init(ar, size, bit, a)
      PROVE  Keeps(r, t)
  <2>1. Keeps(ar, t)
      BY <1>2, <1>3
  <2>2. Keeps(r, ar)
      BY <1>3, ReadyGood
  <2>. QED BY <2>1, <2>2 DEF Keeps
<1>. QED BY <1>1, <1>2, <1>3 DEF Prepared

-----------------------------------------------------------------------------
(* The theorems.                                                           *)

LEMMA HashInitHInv == HashInit => HInv
<1>. SUFFICES ASSUME HashInit PROVE HInv
    OBVIOUS
<1>1. content \in [Key -> Key] /\ stale = FALSE /\ it.on = FALSE
    BY DEF HashInit, NoIter
<1>2. Good(h) /\ Keyed(h)
  <2>1. CASE \E keys \in Fills : h = Filled(keys, Home)
      BY <1>1, <2>1, FilledGood
  <2>2. CASE \E n \in Capas : h = mrb_hash_new_capa(n, Home)
      BY <1>1, <2>2, mrb_hash_new_capaGood
  <2>. QED BY <2>1, <2>2 DEF HashInit
<1>. QED BY <1>1, <1>2 DEF HInv, Watching

\* Each method, and each step of an iteration, keeps the invariant.
LEMMA HashNextHInv == ASSUME "ht" \notin RaiseIn, "index" \notin RaiseIn, HInv, HashNext PROVE HInv'
<1>1. /\ Good(h) /\ (~stale => Keyed(h)) /\ content \in [Key -> Key] /\ stale \in BOOLEAN
      /\ Entries(h) /\ h.used \in Nat
    BY DEF HInv, Good, Entries, Shape
<1>2. Stored \subseteq Key /\ Deleted \subseteq Key
    BY HashAssumption
<1>3. ASSUME NEW k \in Stored, NEW v \in Val, mrb_hash_set(k, v) PROVE HInv'
  <2>1. PICK a \in Addresses : h' = h_set(h, k, v, a)
      BY <1>3 DEF mrb_hash_set
  <2>2. h.used < EA_MAX_CAPA
    <3>1. h.used < MaxUsed
        BY <1>3 DEF mrb_hash_set
    <3>2. MaxUsed \in Nat /\ MaxUsed <= EA_MAX_CAPA
        BY HashAssumption
    <3>. QED BY <1>1, <3>1, <3>2, SizeFacts
  <2>3. PICK r : r = h_set(h, k, v, a)
      OBVIOUS
  <2>4. k \in Key
      BY <1>2
  <2>5. Holds(r, h)
      BY <1>1, <2>2, <2>3, <2>4, h_setGood
  <2>6. Count /\ content' = content /\ stale' = stale
      BY <1>3 DEF mrb_hash_set
  <2>7. Good(r) /\ (~stale' => Keyed(r)) /\ h' = r /\ stale' \in BOOLEAN
      BY <1>1, <2>1, <2>3, <2>5, <2>6 DEF Holds
  <2>. QED BY <2>6, <2>7, MethodKeeps
<1>4. ASSUME NEW k \in Deleted, mrb_hash_delete_key(k) PROVE HInv'
  <2>1. PICK r : r = h_delete(h, k)
      OBVIOUS
  <2>2. /\ h_get(h, k) # Vacant /\ h' = h_delete(h, k)
        /\ Count /\ content' = content /\ stale' = stale
      BY <1>4 DEF mrb_hash_delete_key
  <2>3. k \in Key
      BY <1>2
  <2>4. Keeps(r, h)
      BY <1>1, <2>1, <2>2, <2>3, h_deleteGood
  <2>5. Good(r) /\ (~stale' => Keyed(r)) /\ h' = r /\ stale' \in BOOLEAN
      BY <1>1, <2>1, <2>2, <2>4 DEF Keeps
  <2>. QED BY <2>2, <2>5, MethodKeeps
<1>5. ASSUME mrb_hash_shift PROVE HInv'
  <2>1. PICK r : r = h_shift(h)
      OBVIOUS
  <2>2. h.size # 0 /\ h' = h_shift(h) /\ Count /\ content' = content /\ stale' = stale
      BY <1>5 DEF mrb_hash_shift
  <2>3. Keeps(r, h)
      BY <1>1, <2>1, <2>2, h_shiftGood
  <2>4. Good(r) /\ (~stale' => Keyed(r)) /\ h' = r /\ stale' \in BOOLEAN
      BY <1>1, <2>1, <2>2, <2>3 DEF Keeps
  <2>. QED BY <2>2, <2>4, MethodKeeps
<1>6. ASSUME mrb_hash_clear PROVE HInv'
  <2>1. PICK r : r = h_init
      OBVIOUS
  <2>2. h' = r /\ stale' = FALSE /\ Count /\ content' = content
      BY <1>6, <2>1 DEF mrb_hash_clear
  <2>3. Good(r) /\ (~stale' => Keyed(r)) /\ stale' \in BOOLEAN
      BY <2>1, <2>2, h_initGood
  <2>. QED BY <2>2, <2>3, MethodKeeps
<1>7. ASSUME mrb_hash_compact PROVE HInv'
  <2>. DEFINE dead == {i \in Visited(h, h.size) : h.ea[i].val = Nil}
  <2>1. PICK r : r = [h EXCEPT !.ea = [i \in Slots(h) |-> IF i \in dead THEN Vacant ELSE h.ea[i]],
                               !.size = @ - Cardinality(dead)]
      OBVIOUS
  <2>2. h' = r /\ Count /\ content' = content /\ stale' = stale
      BY <1>7, <2>1 DEF mrb_hash_compact
  <2>3. dead \in SUBSET Active(h)
      BY <1>1, VisitedAll
  <2>. HIDE DEF dead
  <2>4. Keeps(r, h)
      BY <1>1, <2>1, <2>3, CompactGood
  <2>5. Good(r) /\ (~stale' => Keyed(r)) /\ stale' \in BOOLEAN
      BY <1>1, <2>2, <2>4 DEF Keeps
  <2>. QED BY <2>2, <2>5, MethodKeeps
<1>8. ASSUME NEW keys \in Fills, h_replace(keys) PROVE HInv'
  <2>1. PICK a \in Addresses : h' = Filled(keys, a)
      BY <1>8 DEF h_replace
  <2>2. PICK r : r = Filled(keys, a)
      OBVIOUS
  <2>3. Good(r) /\ Keyed(r)
      BY <1>1, <2>2, FilledGood
  <2>4. h' = r /\ Count /\ content' = content /\ stale' \in BOOLEAN
      BY <1>8, <2>1, <2>2 DEF h_replace
  <2>. QED BY <2>3, <2>4, MethodKeeps
<1>9. h.size \in Nat
    BY <1>1, CompressFacts
<1>10. ASSUME mrb_hash_rehash PROVE HInv'
  <2>1. PICK a \in Addresses : h' = h_rehash(h, h.size, a)
      BY <1>10 DEF mrb_hash_rehash
  <2>2. PICK r : r = h_rehash(h, h.size, a)
      OBVIOUS
  <2>3. h.size <= h.size
      BY <1>9
  <2>4. Keeps(r, h) /\ Keyed(r)
      BY <1>1, <1>9, <2>2, <2>3, h_rehashGood
  <2>5. h' = r /\ Count /\ content' = content /\ stale' \in BOOLEAN
      BY <1>10, <2>1, <2>2 DEF mrb_hash_rehash
  <2>. QED BY <2>4, <2>5, MethodKeeps DEF Keeps
<1>11. ASSUME RehashRaises PROVE HInv'
  <2>1. PICK a \in Addresses, n \in 0 .. h.size - 1 : h' = h_rehash(h, n, a)
      BY <1>11 DEF RehashRaises
  <2>2. n \in Nat /\ n <= h.size
      BY <1>9
  <2>3. ~(h.ht /\ h.size > AR_MAX_SIZE)
      BY <1>11 DEF RehashRaises
  <2>4. PICK r : r = h_rehash(h, n, a)
      OBVIOUS
  <2>5. Keeps(r, h)
      BY <1>1, <2>2, <2>3, <2>4, h_rehashGood
  <2>6. h' = r /\ Count /\ content' = content /\ stale' = stale
      BY <1>11, <2>1, <2>4 DEF RehashRaises
  <2>7. Good(r) /\ (~stale' => Keyed(r)) /\ stale' \in BOOLEAN
      BY <1>1, <2>5, <2>6 DEF Keeps
  <2>. QED BY <2>6, <2>7, MethodKeeps
<1>12. ASSUME NEW k \in Mutable, ChangeKey(k) PROVE HInv'
    BY <1>12, ChangeKeyKeeps
<1>13. ASSUME EachBreak PROVE HInv'
    BY <1>13, EachEndKeeps DEF EachBreak
<1>14. ASSUME NEW k \in Stored, StoreRaises(k) PROVE HInv'
  <2>1. k \in Key
      BY <1>2
  <2>2. PICK a, r : h' = r /\ Prepared(r, h, a)
      BY <1>1, <1>14, <2>1, StoreRaisesPrepares
  <2>3. Keeps(r, h)
      BY <1>1, <2>2, PreparedGood
  <2>4. Count /\ content' = content /\ stale' = stale
      BY <1>14 DEF StoreRaises
  <2>5. Good(r) /\ (~stale' => Keyed(r)) /\ stale' \in BOOLEAN
      BY <1>1, <2>3, <2>4 DEF Keeps
  <2>. QED BY <2>2, <2>4, <2>5, MethodKeeps
<1>. QED BY <1>3, <1>4, <1>5, <1>6, <1>7, <1>8, <1>10, <1>11, <1>12, <1>13, <1>14,
            EachStartKeeps, EachNextKeeps, EachRereadKeeps DEF HashNext

LEMMA HashStutter == ASSUME HInv, UNCHANGED hashVars PROVE HInv'
<1>1. h' = h /\ content' = content /\ stale' = stale /\ it' = it
    BY DEF hashVars
<1>2. Good(h)' /\ (~stale => Keyed(h)')
    BY <1>1, NextGood, NextKeyed DEF HInv
<1>3. Watching' /\ (it.on \in BOOLEAN)'
    BY <1>1 DEF HInv, Watching
<1>. QED BY <1>1, <1>2, <1>3 DEF HInv

\* The inductive invariant holds in every state, for tables of every size and
\* every hash function, unless an exception ends the rehash of a large table or
\* the building of an index in the middle (RaiseIn).
THEOREM HashInvariant == ASSUME "ht" \notin RaiseIn, "index" \notin RaiseIn PROVE HashSpec => []HInv
<1>1. HInv /\ [HashNext]_hashVars => HInv'
    BY HashNextHInv, HashStutter
<1>. QED BY <1>1, HashInitHInv, PTL DEF HashSpec

\* A good table is well formed.
LEMMA WellFormed == HInv => TableWellFormed
<1>. SUFFICES ASSUME HInv PROVE TableWellFormed
    OBVIOUS
<1>1. Good(h) /\ Entries(h) /\ Shape(h) /\ h.used \in Nat /\ h.bit \in Nat /\ h.ht \in BOOLEAN
    BY DEF HInv, Good, Entries, Shape
<1>2. EntriesCounted
    BY <1>1 DEF Entries, EntriesCounted
<1>3. ASSUME h.ht
      PROVE  /\ \A i \in Active(h) : Cardinality({p \in DOMAIN h.ib : h.ib[p] = i}) = 1
             /\ h.used <= DeletedValue(h)
             /\ \E p \in DOMAIN h.ib : h.ib[p] = EmptyValue(h)
  <2>1. Index(h, h.used)
      BY <1>1, <1>3 DEF Good
  <2>2. PICK c \in Nat : c = ib_capa(h) /\ EmptyValue(h) = c - 1 /\ DeletedValue(h) = c - 2 /\ Cardinality(Taken(h)) < c
      BY <1>1, <2>1, IndexFacts
  <2>3. DOMAIN h.ib = 0 .. c - 1 /\ h.used <= DeletedValue(h)
      BY <2>1, <2>2 DEF Index
  <2>4. ASSUME NEW i \in Active(h) PROVE Cardinality({p \in DOMAIN h.ib : h.ib[p] = i}) = 1
    <3>1. i \in Nat /\ i < h.used
        BY <1>1, ActiveFacts DEF Entries
    <3>2. PICK p \in 0 .. c - 1 : h.ib[p] = i
        BY <2>1, <2>2, <3>1 DEF Index
    <3>3. i < c - 2
        BY <1>1, <2>2, <2>3, <3>1
    <3>4. \A q \in 0 .. c - 1 : h.ib[q] = i => q = p
        BY <2>1, <2>2, <3>2, <3>3 DEF Index
    <3>5. {q \in DOMAIN h.ib : h.ib[q] = i} = {p}
        BY <2>3, <3>2, <3>4
    <3>. QED BY <3>5, FS_Singleton
  <2>5. \E p \in 0 .. c - 1 : h.ib[p] = EmptyValue(h)
    <3>1. Taken(h) # 0 .. c - 1
        BY <2>2, SlotsCount
    <3>. QED BY <2>2, <3>1 DEF Taken
  <2>. QED BY <2>3, <2>4, <2>5
<1>4. ~h.ht => h.capa <= AR_MAX_SIZE /\ h.tbl = h.ea_at
    BY <1>1 DEF Good, Small
<1>. QED BY <1>2, <1>3, <1>4 DEF TableWellFormed

\* The table is well formed in every state: the entries are counted, and in a
\* large table every entry has one bucket and a probe comes to an empty one
\* (ea_compress, ib_init, ht_set, ar_set, h_delete, compact!, rehash).
THEOREM TableAlwaysWellFormed ==
    ASSUME "ht" \notin RaiseIn, "index" \notin RaiseIn PROVE HashSpec => []TableWellFormed
    BY HashInvariant, WellFormed, PTL

LEMMA Agrees == HInv => LookupAgrees
<1>. SUFFICES ASSUME HInv, ~stale, NEW k \in Key
              PROVE  LET S == {i \in Active(h) : Eql(k, h.ea[i])}
                     IN  /\ Cardinality(S) <= 1
                         /\ h_get(h, k) = IF S = {} THEN Vacant ELSE h.ea[CHOOSE i \in S : TRUE]
    BY DEF LookupAgrees
<1>. DEFINE S == {i \in Active(h) : Eql(k, h.ea[i])}
<1>1. /\ Good(h) /\ Entries(h) /\ Shape(h) /\ h.used \in Nat /\ h.capa \in Nat /\ h.used <= h.capa /\ h.bit \in Nat
      /\ h.ht \in BOOLEAN /\ content \in [Key -> Key] /\ Keyed(h)
    BY DEF HInv, Good, Entries, Shape
<1>2. S = {i \in Active(h) : content[k] = content[h.ea[i].key]}
    BY <1>1, ActiveFacts DEF Eql
<1>. HIDE DEF S
<1>3. \A i, j \in S : i = j
    BY <1>1, <1>2 DEF Keyed, Distinct
<1>4. CASE S = {}
  <2>1. Cardinality(S) <= 1
      BY <1>4, FS_EmptySet
  <2>2. h_get(h, k) = Vacant
    <3>1. CASE h.ht
      <4>1. Index(h, h.used)
          BY <1>1, <3>1 DEF Good
      <4>2. ~Found(h, k)
        <5>. SUFFICES ASSUME Found(h, k) PROVE FALSE
            OBVIOUS
        <5>1. PICK s \in Hits(h, k) : TRUE
            BY FoundHits
        <5>2. Bucket(h, k, s) \in Active(h) /\ content[k] = content[h.ea[Bucket(h, k, s)].key]
            BY <1>1, <4>1, HitFacts
        <5>. QED BY <1>2, <1>4, <5>2
      <4>. QED BY <3>1, <4>2 DEF h_get, ht_get
    <3>2. CASE ~h.ht
      <4>1. ea_get_by_key(h, h.size, k) = {}
          BY <1>1, <1>2, <1>4, ArSearch
      <4>. QED BY <3>2, <4>1 DEF h_get, ar_get
    <3>. QED BY <1>1, <3>1, <3>2
  <2>. QED BY <1>4, <2>1, <2>2 DEF S
<1>5. CASE S # {}
  <2>1. PICK i \in S : S = {i}
      BY <1>3, <1>5
  <2>2. Cardinality(S) <= 1
      BY <2>1, FS_Singleton
  <2>3. (CHOOSE j \in S : TRUE) = i
      BY <2>1
  <2>4. i \in Active(h) /\ content[k] = content[h.ea[i].key]
      BY <1>2, <2>1
  <2>5. h_get(h, k) = h.ea[i]
    <3>1. CASE h.ht
      <4>1. Index(h, h.used) /\ Reachable(h, h.used) /\ i < h.used
          BY <1>1, <2>4, <3>1 DEF Good, Keyed, Entries
      <4>2. Found(h, k)
          BY <1>1, <2>4, <4>1, FoundOnProbe
      <4>3. PICK s \in Hits(h, k) : s = Min(Hits(h, k))
          BY <1>1, <4>2, FoundHits, FirstHit
      <4>4. Bucket(h, k, s) \in Active(h) /\ content[k] = content[h.ea[Bucket(h, k, s)].key]
          BY <1>1, <4>1, HitFacts
      <4>5. Bucket(h, k, s) = i
          BY <1>2, <1>3, <2>1, <4>4
      <4>. QED BY <3>1, <4>2, <4>3, <4>5 DEF h_get, ht_get
    <3>2. CASE ~h.ht
      <4>1. ea_get_by_key(h, h.size, k) = {i}
          BY <1>1, <1>2, <2>1, ArSearch
      <4>2. Min({i}) = i
        <5>1. {i} \in SUBSET Nat
            BY <1>1, <2>4, ActiveFacts
        <5>2. Min({i}) \in {i}
            BY <5>1, MinFacts
        <5>. QED BY <5>2
      <4>. QED BY <3>2, <4>1, <4>2 DEF h_get, ar_get
    <3>. QED BY <1>1, <3>1, <3>2
  <2>. QED BY <1>5, <2>2, <2>3, <2>5 DEF S
<1>. QED BY <1>4, <1>5

\* Unless a stored key has changed, h_get() finds a key exactly when it is there:
\* triangular probing reaches every bucket, no deletion hides what is behind it,
\* and no growth, compression, conversion or rehash loses or doubles a key.
THEOREM LookupAlwaysAgrees ==
    ASSUME "ht" \notin RaiseIn, "index" \notin RaiseIn PROVE HashSpec => []LookupAgrees
    BY HashInvariant, Agrees, PTL

\* H_CHECK_MODIFIED and entry_check_vacated() are enough: an iteration whose
\* callback changed the hash ends, or reads a live entry of the present array.
THEOREM EachAlwaysReadsLive ==
    ASSUME "ht" \notin RaiseIn, "index" \notin RaiseIn PROVE HashSpec => EachReadsLive
<1>. DEFINE Read == it'.on /\ it' # it /\ (it.on => it'.calls # it.calls + 1) =>
                       /\ it'.at = h.ea_at /\ it'.pos \in Slots(h)
                       /\ h.ea[it'.pos] # Vacant /\ it'.got = it'.key
<1>1. ASSUME HInv, Count PROVE Read
  <2>1. CASE it.on
    <3>1. DOMAIN it = IterFields /\ it' = [it EXCEPT !.calls = @ + 1]
        BY <1>1, <2>1 DEF HInv, Watching, Count
    <3>2. it'.calls = it.calls + 1
        BY <3>1 DEF IterFields
    <3>. QED BY <2>1, <3>2
  <2>2. CASE ~it.on
      BY <1>1, <2>2 DEF Count
  <2>. QED BY <2>1, <2>2
<1>2. ASSUME HInv, HashNext PROVE Read
  <2>1. Count => Read
      BY <1>2, <1>1
  <2>2. ASSUME it' = it PROVE Read
      BY <2>2
  <2>3. ReadsLive => Read
      BY DEF ReadsLive
  <2>. HIDE DEF Read
  <2>4. ASSUME NEW k, NEW v, mrb_hash_set(k, v) PROVE Read
      BY <2>1, <2>4 DEF mrb_hash_set
  <2>5. ASSUME NEW k, mrb_hash_delete_key(k) PROVE Read
      BY <2>1, <2>5 DEF mrb_hash_delete_key
  <2>6. ASSUME mrb_hash_shift \/ mrb_hash_clear PROVE Read
      BY <2>1, <2>6 DEF mrb_hash_shift, mrb_hash_clear
  <2>7. ASSUME mrb_hash_compact PROVE Read
      BY <2>1, <2>7 DEF mrb_hash_compact
  <2>8. ASSUME NEW keys, h_replace(keys) PROVE Read
      BY <2>1, <2>8 DEF h_replace
  <2>9. ASSUME mrb_hash_rehash \/ RehashRaises PROVE Read
      BY <2>1, <2>9 DEF mrb_hash_rehash, RehashRaises
  <2>10. ASSUME NEW k, ChangeKey(k) PROVE Read
      BY <2>2, <2>10 DEF ChangeKey
  <2>11. ~it'.on => Read
      BY DEF Read
  <2>12. ASSUME EachStart \/ EachNext \/ EachReread PROVE Read
      BY <1>2, <2>3, <2>11, <2>12, EachStartKeeps, EachNextKeeps, EachRereadKeeps
  <2>13. ASSUME EachBreak PROVE Read
      BY <1>2, <2>11, <2>13, EachEndKeeps DEF EachBreak
  <2>14. ASSUME NEW k, StoreRaises(k) PROVE Read
      BY <2>1, <2>14 DEF StoreRaises
  <2>. QED BY <1>2, <2>4, <2>5, <2>6, <2>7, <2>8, <2>9, <2>10, <2>12, <2>13, <2>14 DEF HashNext
<1>3. HInv /\ [HashNext]_hashVars => [Read]_hashVars
    BY <1>2
<1>. QED BY <1>3, HashInvariant, PTL DEF HashSpec, EachReadsLive
=============================================================================
