---------------------------- MODULE HashMapProofs ----------------------------
(***************************************************************************)
(* A Hash implements the ordered map: whichever of its two tables holds    *)
(* the entries, and whatever conversion, compression or growth of the      *)
(* entry array a method causes, the pairs it shows are what OrderedMap     *)
(* says they should be.                                                    *)
(***************************************************************************)
EXTENDS HashTableProofs, SequenceTheorems

-----------------------------------------------------------------------------
(* Lists of slots.                                                         *)

\* L lists the members of A in their order.
Lists(L, n, A) ==
    /\ L \in [1 .. n -> A]
    /\ \A l, m \in 1 .. n : l < m => L[l] < L[m]
    /\ \A i \in A : \E m \in 1 .. n : L[m] = i

\* The slots A are among the first c.
Below(A, c) == A \in SUBSET (0 .. c - 1)

\* There is one such list, and InOrder() is it.
LEMMA OneList ==
    ASSUME NEW c \in Nat, NEW A, Below(A, c), NEW n \in Nat, NEW L, Lists(L, n, A)
    PROVE  n = Cardinality(A) /\ \A m \in 1 .. n : InOrder(A)[m] = L[m]
<1>. A \in SUBSET (0 .. c - 1)
    BY DEF Below
<1>. L \in [1 .. n -> A] /\ A \subseteq Nat
    BY DEF Lists
<1>1. ASSUME NEW l \in 1 .. n, NEW m \in 1 .. n, L[l] = L[m] PROVE l = m
  <2>1. L[l] \in Nat /\ L[m] \in Nat
      OBVIOUS
  <2>2. ~(l < m) /\ ~(m < l)
      BY <1>1, <2>1 DEF Lists
  <2>. QED BY <2>2
<1>2. L \in Bijection(1 .. n, A)
    BY <1>1 DEF Lists, Bijection, Injection, Surjection, IsInjective
<1>3. IsFiniteSet(1 .. n) /\ Cardinality(1 .. n) = n
  <2>1. IsFiniteSet(1 .. n) /\ Cardinality(1 .. n) = IF 1 > n THEN 0 ELSE n - 1 + 1
      BY FS_Interval
  <2>. QED BY <2>1
<1>4. n = Cardinality(A)
    BY <1>2, <1>3, FS_Bijection DEF ExistsBijection
<1>5. ASSUME NEW m \in 1 .. n PROVE InOrder(A)[m] = L[m]
  <2>. DEFINE B == {j \in A : j < L[m]}
              f == [l \in 1 .. m - 1 |-> L[l]]
  <2>1. \A l \in 1 .. m - 1 : l \in 1 .. n /\ l < m
      OBVIOUS
  <2>2. f \in [1 .. m - 1 -> B]
      BY <2>1 DEF Lists
  <2>3. \A l, k \in 1 .. m - 1 : f[l] = f[k] => l = k
      BY <1>1, <2>1
  <2>4. ASSUME NEW j \in B PROVE \E l \in 1 .. m - 1 : f[l] = j
    <3>1. PICK l \in 1 .. n : L[l] = j
        BY <2>4 DEF Lists
    <3>2. L[l] < L[m] /\ L[l] \in Nat /\ L[m] \in Nat
        BY <2>4, <3>1
    <3>3. ~(m < l) /\ l # m
        BY <3>2 DEF Lists
    <3>4. l \in 1 .. m - 1
        BY <3>3
    <3>. QED BY <3>1, <3>4
  <2>5. f \in Bijection(1 .. m - 1, B)
      BY <2>2, <2>3, <2>4 DEF Bijection, Injection, Surjection, IsInjective
  <2>6. IsFiniteSet(1 .. m - 1) /\ Cardinality(1 .. m - 1) = m - 1
    <3>1. IsFiniteSet(1 .. m - 1) /\ Cardinality(1 .. m - 1) = IF 1 > m - 1 THEN 0 ELSE m - 1 - 1 + 1
        BY FS_Interval
    <3>. QED BY <3>1
  <2>7. Cardinality(B) = m - 1
      BY <2>5, <2>6, FS_Bijection DEF ExistsBijection
  <2>8. Rank(A, L[m]) = m - 1 /\ L[m] \in A
      BY <2>7 DEF Rank
  <2>9. InOrder(A)[Rank(A, L[m]) + 1] = L[m]
      BY <2>8, InOrderFacts
  <2>10. Rank(A, L[m]) + 1 = m
      BY <2>8
  <2>. QED BY <2>9, <2>10
<1>. QED BY <1>4, <1>5

\* And it is one.
LEMMA ListIs ==
    ASSUME NEW c \in Nat, NEW A \in SUBSET (0 .. c - 1)
    PROVE  Lists(InOrder(A), Cardinality(A), A)
<1>1. \A m \in 1 .. Cardinality(A) : InOrder(A)[m] \in A
    BY InOrderFacts
<1>2. InOrder(A) \in [1 .. Cardinality(A) -> A]
    BY <1>1 DEF InOrder
<1>3. \A l, m \in 1 .. Cardinality(A) : l < m => InOrder(A)[l] < InOrder(A)[m]
    BY InOrderSorted
<1>4. \A i \in A : \E m \in 1 .. Cardinality(A) : InOrder(A)[m] = i
    BY InOrderFacts
<1>. QED BY <1>2, <1>3, <1>4 DEF Lists

-----------------------------------------------------------------------------
(* The pairs of a table.                                                   *)

\* The pairs in the first n slots
FirstPairs(t, n) == [m \in 1 .. Rank(Active(t), n) |-> t.ea[ActiveList(t)[m]]]

LEMMA FirstPairsStep ==
    ASSUME NEW t, Shape(t), NEW n \in Nat, n < t.capa
    PROVE  FirstPairs(t, n + 1) = IF t.ea[n] = Vacant THEN FirstPairs(t, n) ELSE Append(FirstPairs(t, n), t.ea[n])
<1>. DEFINE A == Active(t)
            B == {j \in A : j < n}
            C == {j \in A : j < n + 1}
<1>1. t.capa \in Nat /\ A \in SUBSET (0 .. t.capa - 1) /\ IsFiniteSet(A)
    BY ActiveFacts DEF Shape
<1>2. A \subseteq Nat
    BY <1>1
<1>3. Rank(A, n) = Cardinality(B) /\ Rank(A, n + 1) = Cardinality(C)
    BY DEF Rank
<1>4. CASE t.ea[n] = Vacant
  <2>1. n \notin A
      BY <1>4 DEF Active
  <2>2. B = C
      BY <1>2, <2>1
  <2>. QED BY <1>3, <1>4, <2>2 DEF FirstPairs
<1>5. CASE t.ea[n] # Vacant
  <2>1. n \in A
      BY <1>5, ActiveFacts
  <2>2. C = B \cup {n} /\ n \notin B
      BY <1>2, <2>1
  <2>3. IsFiniteSet(B)
      BY <1>1, FS_Subset
  <2>4. Cardinality(C) = Cardinality(B) + 1 /\ Cardinality(B) \in Nat
      BY <2>2, <2>3, FS_AddElement, FS_CardinalityType
  <2>5. InOrder(A)[Rank(A, n) + 1] = n
      BY <1>1, <2>1, InOrderFacts
  <2>6. PICK c \in Nat : c = Rank(A, n) /\ Rank(A, n + 1) = c + 1
      BY <1>3, <2>4
  <2>. HIDE DEF A, B, C
  <2>7. FirstPairs(t, n) = [m \in 1 .. c |-> t.ea[InOrder(A)[m]]] /\ FirstPairs(t, n + 1) = [m \in 1 .. c + 1 |-> t.ea[InOrder(A)[m]]]
      BY <2>6 DEF FirstPairs, ActiveList, A
  <2>8. [m \in 1 .. c + 1 |-> t.ea[InOrder(A)[m]]] = Append([m \in 1 .. c |-> t.ea[InOrder(A)[m]]], t.ea[InOrder(A)[c + 1]])
      OBVIOUS
  <2>. QED BY <1>5, <2>5, <2>6, <2>7, <2>8
<1>. QED BY <1>4, <1>5

\* The recursion of PairsOf()
Gathered(d, t) ==
    d = [n \in 0 .. t.capa |->
            IF n = 0 THEN << >>
            ELSE IF t.ea[n - 1] = Vacant THEN d[n - 1] ELSE Append(d[n - 1], t.ea[n - 1])]

\* The pairs are those of the active slots, in their order.
LEMMA PairsAre ==
    ASSUME NEW t, Shape(t)
    PROVE  /\ PairsOf(t) = [m \in 1 .. Cardinality(Active(t)) |-> t.ea[ActiveList(t)[m]]]
           /\ PairsOf(t) \in Seq(Map!Pair) /\ Len(PairsOf(t)) = Cardinality(Active(t))
<1>. DEFINE c == t.capa
            g == [n \in 0 .. c |-> FirstPairs(t, n)]
<1>1. c \in Nat /\ Active(t) \in SUBSET (0 .. c - 1)
    BY ActiveFacts DEF Shape
<1>2. FirstPairs(t, 0) = << >>
  <2>1. Rank(Active(t), 0) = 0
    <3>1. {j \in Active(t) : j < 0} = {}
        BY <1>1
    <3>. QED BY <3>1, FS_EmptySet DEF Rank
  <2>. QED BY <2>1 DEF FirstPairs
<1>3. Gathered(g, t)
  <2>1. ASSUME NEW n \in 0 .. c
        PROVE  g[n] = IF n = 0 THEN << >>
                      ELSE IF t.ea[n - 1] = Vacant THEN g[n - 1] ELSE Append(g[n - 1], t.ea[n - 1])
    <3>1. CASE n = 0
        BY <1>2, <3>1
    <3>2. CASE n # 0
      <4>1. PICK k \in Nat : k = n - 1 /\ k < c /\ k \in 0 .. c /\ n = k + 1
          BY <1>1, <3>2
      <4>2. FirstPairs(t, k + 1) = IF t.ea[k] = Vacant THEN FirstPairs(t, k) ELSE Append(FirstPairs(t, k), t.ea[k])
          BY <4>1, FirstPairsStep
      <4>3. g[n] = FirstPairs(t, k + 1) /\ g[n - 1] = FirstPairs(t, k)
          BY <4>1
      <4>. QED BY <3>2, <4>1, <4>2, <4>3
    <3>. QED BY <3>1, <3>2
  <2>. HIDE DEF g
  <2>2. g = [n \in 0 .. c |-> IF n = 0 THEN << >>
                              ELSE IF t.ea[n - 1] = Vacant THEN g[n - 1] ELSE Append(g[n - 1], t.ea[n - 1])]
    <3>1. DOMAIN g = 0 .. c /\ g = [n \in 0 .. c |-> g[n]]
        BY DEF g
    <3>. QED BY <2>1, <3>1
  <2>. QED BY <2>2 DEF Gathered
<1>. DEFINE d == CHOOSE d : Gathered(d, t)
<1>4. Gathered(d, t)
    BY <1>3
<1>5. PairsOf(t) = d[c]
    BY DEF PairsOf, Gathered
<1>. HIDE DEF d, g
<1>. DEFINE S == {n \in Nat : n <= c => d[n] = FirstPairs(t, n)}
<1>6. 0 \in S
    BY <1>1, <1>2, <1>4 DEF Gathered
<1>7. ASSUME NEW n \in Nat, n \in S PROVE n + 1 \in S
  <2>. SUFFICES ASSUME n + 1 <= c PROVE d[n + 1] = FirstPairs(t, n + 1)
      OBVIOUS
  <2>1. PICK k \in 0 .. c : k = n + 1 /\ k # 0 /\ k - 1 = n
      BY <1>1
  <2>2. d[k] = IF t.ea[k - 1] = Vacant THEN d[k - 1] ELSE Append(d[k - 1], t.ea[k - 1])
      BY <1>4, <2>1 DEF Gathered
  <2>3. n < c /\ d[n] = FirstPairs(t, n)
      BY <1>1, <1>7
  <2>4. FirstPairs(t, n + 1) = IF t.ea[n] = Vacant THEN FirstPairs(t, n) ELSE Append(FirstPairs(t, n), t.ea[n])
      BY <2>3, FirstPairsStep
  <2>. QED BY <2>1, <2>2, <2>3, <2>4
<1>. HIDE DEF S
<1>8. \A n \in Nat : n \in S
    BY <1>6, <1>7, InductionInSet
<1>9. PairsOf(t) = FirstPairs(t, c)
    BY <1>1, <1>5, <1>8 DEF S
<1>10. Rank(Active(t), c) = Cardinality(Active(t))
  <2>1. \A j \in Active(t) : j < c
      BY <1>1
  <2>. QED BY <1>1, <2>1, RankFacts
<1>11. PairsOf(t) = [m \in 1 .. Cardinality(Active(t)) |-> t.ea[ActiveList(t)[m]]]
    BY <1>9, <1>10 DEF FirstPairs
<1>12. \A m \in 1 .. Cardinality(Active(t)) : t.ea[ActiveList(t)[m]] \in Map!Pair
  <2>. SUFFICES ASSUME NEW m \in 1 .. Cardinality(Active(t)) PROVE t.ea[ActiveList(t)[m]] \in Map!Pair
      OBVIOUS
  <2>1. ActiveList(t)[m] \in Active(t)
      BY ListFacts
  <2>2. \A i \in Active(t) : t.ea[i] \in Slot /\ t.ea[i] # Vacant
      BY ActiveFacts
  <2>3. \A e \in Slot : e # Vacant => e \in [key : Key, val : Val]
      BY DEF Slot
  <2>. QED BY <2>1, <2>2, <2>3 DEF Map!Pair
<1>13. Cardinality(Active(t)) \in Nat
    BY ActiveFacts
<1>. QED BY <1>11, <1>12, <1>13

\* Any list of the active slots in their order gives the pairs.
LEMMA PairsFrom ==
    ASSUME NEW u, Shape(u), NEW n \in Nat, NEW L, Lists(L, n, Active(u))
    PROVE  PairsOf(u) = [m \in 1 .. n |-> u.ea[L[m]]]
<1>1. u.capa \in Nat /\ Active(u) \in SUBSET (0 .. u.capa - 1)
    BY ActiveFacts DEF Shape
<1>2. n = Cardinality(Active(u)) /\ \A m \in 1 .. n : InOrder(Active(u))[m] = L[m]
    BY <1>1, OneList DEF Below
<1>3. PairsOf(u) = [m \in 1 .. Cardinality(Active(u)) |-> u.ea[ActiveList(u)[m]]]
    BY PairsAre
<1>. QED BY <1>2, <1>3 DEF ActiveList

\* The list of a table
LEMMA ListOf ==
    ASSUME NEW t, Shape(t)
    PROVE  LET n == Cardinality(Active(t))
               L == ActiveList(t)
           IN  /\ n \in Nat /\ Lists(L, n, Active(t)) /\ PairsOf(t) = [m \in 1 .. n |-> t.ea[L[m]]]
               /\ PairsOf(t) \in Seq(Map!Pair) /\ Len(PairsOf(t)) = n
<1>1. t.capa \in Nat /\ Active(t) \in SUBSET (0 .. t.capa - 1) /\ Cardinality(Active(t)) \in Nat
    BY ActiveFacts DEF Shape
<1>2. Lists(ActiveList(t), Cardinality(Active(t)), Active(t))
    BY <1>1, ListIs DEF ActiveList
<1>. QED BY <1>1, <1>2, PairsAre

\* Tables with the same entries in the same slots have the same pairs.
LEMMA SamePairs ==
    ASSUME NEW t, NEW u, Shape(t), Shape(u), Active(u) = Active(t), \A i \in Active(t) : u.ea[i] = t.ea[i]
    PROVE  PairsOf(u) = PairsOf(t)
<1>. DEFINE n == Cardinality(Active(t))
            L == ActiveList(t)
<1>1. n \in Nat /\ Lists(L, n, Active(t)) /\ PairsOf(t) = [m \in 1 .. n |-> t.ea[L[m]]]
    BY ListOf
<1>. HIDE DEF n, L
<1>2. PairsOf(u) = [m \in 1 .. n |-> u.ea[L[m]]]
    BY <1>1, PairsFrom
<1>3. \A m \in 1 .. n : L[m] \in Active(t)
    BY <1>1 DEF Lists
<1>. QED BY <1>1, <1>2, <1>3

\* Growing or trimming the entry array keeps the pairs,
LEMMA ResizePairs ==
    ASSUME NEW t, Shape(t), NEW c \in Nat, NEW a, \A i \in Active(t) : i < c
    PROVE  PairsOf(ea_resize(t, c, a)) = PairsOf(t)
<1>. DEFINE r == ea_resize(t, c, a)
<1>1. r.capa = c /\ Shape(r) /\ Active(r) = Active(t)
    BY ResizeFacts DEF SameKeys
<1>2. r.ea = [i \in 0 .. c - 1 |-> IF i < t.capa THEN t.ea[i] ELSE Vacant]
    BY DEF ea_resize, Shape, Fields
<1>. HIDE DEF r
<1>3. \A i \in Active(t) : r.ea[i] = t.ea[i]
  <2>. SUFFICES ASSUME NEW i \in Active(t) PROVE r.ea[i] = t.ea[i]
      OBVIOUS
  <2>1. i \in 0 .. c - 1 /\ i < t.capa
      BY ActiveFacts
  <2>. QED BY <1>2, <2>1
<1>4. PairsOf(r) = PairsOf(t)
    BY <1>1, <1>3, SamePairs
<1>. QED BY <1>4 DEF r

LEMMA AdjustPairs ==
    ASSUME NEW t, Shape(t), NEW size \in Nat, NEW max \in Nat, NEW a,
           \A i \in Active(t) : i < ea_next_capa_for(size, max)
    PROVE  PairsOf(adjust_ea(t, size, max, a)) = PairsOf(t)
<1>. DEFINE r == ea_resize(t, ea_next_capa_for(size, max), a)
            u == adjust_ea(t, size, max, a)
<1>1. ea_next_capa_for(size, max) \in Nat
    BY NextCapa
<1>2. PairsOf(r) = PairsOf(t) /\ DOMAIN r = Fields /\ Shape(r)
    BY <1>1, ResizePairs, ResizeFacts
<1>3. u = IF t.ht THEN r ELSE [r EXCEPT !.tbl = a]
    BY DEF adjust_ea
<1>. HIDE DEF r
<1>4. u.capa = r.capa /\ u.ea = r.ea
    BY <1>2, <1>3 DEF Fields
<1>5. PairsOf(u) = PairsOf(r)
    BY <1>4 DEF PairsOf
<1>. QED BY <1>2, <1>5 DEF u

\* and so does packing the entries to its front.
LEMMA CompressPairs ==
    ASSUME NEW t, Entries(t) PROVE PairsOf(ea_compress(t)) = PairsOf(t)
<1>. DEFINE r == ea_compress(t)
<1>1. Shape(r) /\ t.size \in Nat /\ Active(r) = 0 .. t.size - 1
      /\ \A i \in 0 .. t.size - 1 : r.ea[i] = t.ea[ActiveList(t)[i + 1]]
    BY CompressFacts
<1>. HIDE DEF r
<1>2. PICK n \in Nat : n = t.size /\ n = Cardinality(Active(t))
    BY <1>1 DEF Entries
<1>. DEFINE L == [m \in 1 .. n |-> m - 1]
<1>3. Lists(L, n, Active(r))
  <2>1. Active(r) = 0 .. n - 1
      BY <1>1, <1>2
  <2>2. \A i \in 0 .. n - 1 : \E m \in 1 .. n : L[m] = i
    <3>. SUFFICES ASSUME NEW i \in 0 .. n - 1 PROVE \E m \in 1 .. n : L[m] = i
        OBVIOUS
    <3>1. i + 1 \in 1 .. n /\ L[i + 1] = i
        OBVIOUS
    <3>. QED BY <3>1
  <2>3. L \in [1 .. n -> 0 .. n - 1] /\ \A l, m \in 1 .. n : l < m => L[l] < L[m]
      OBVIOUS
  <2>. HIDE DEF L
  <2>. QED BY <2>1, <2>2, <2>3 DEF Lists
<1>4. PairsOf(r) = [m \in 1 .. n |-> r.ea[L[m]]]
  <2>. HIDE DEF L
  <2>. QED BY <1>1, <1>3, PairsFrom
<1>5. ASSUME NEW m \in 1 .. n PROVE r.ea[L[m]] = t.ea[ActiveList(t)[m]]
  <2>1. PICK i \in 0 .. t.size - 1 : i = m - 1 /\ i + 1 = m
      BY <1>2
  <2>. QED BY <1>1, <2>1
<1>6. PairsOf(r) = [m \in 1 .. n |-> t.ea[ActiveList(t)[m]]]
    BY <1>4, <1>5
<1>7. PairsOf(t) = [m \in 1 .. n |-> t.ea[ActiveList(t)[m]]]
    BY <1>2, PairsAre DEF Entries
<1>. QED BY <1>6, <1>7 DEF r

\* The index does not matter.
LEMMA IndexPairs ==
    ASSUME NEW t, NEW u, u.capa = t.capa, u.ea = t.ea PROVE PairsOf(u) = PairsOf(t)
    BY DEF PairsOf

LEMMA ht_initPairs ==
    ASSUME NEW t, Shape(t), content \in [Key -> Key], NEW size \in Nat, NEW bit \in Nat, NEW a,
           bit >= 3, size <= ib_bit_to_capa[bit] - 2, \A i \in 0 .. size - 1 : i \in Active(t)
    PROVE  PairsOf(ht_init(t, size, bit, a)) = PairsOf(t)
<1>. DEFINE r == ht_init(t, size, bit, a)
<1>1. /\ DOMAIN r = Fields
      /\ r.ht = TRUE /\ r.tbl = a /\ r.size = size /\ r.used = size /\ r.bit = bit
      /\ r.capa = t.capa /\ r.ea = t.ea /\ r.ea_at = t.ea_at
      /\ Shape(r) /\ SameKeys(r, t) /\ Index(r, size) /\ Reachable(r, size)
    BY ht_initFacts
<1>. HIDE DEF r
<1>2. PairsOf(r) = PairsOf(t)
    BY <1>1, IndexPairs
<1>. QED BY <1>2 DEF r

LEMMA ht_to_arPairs ==
    ASSUME NEW t, Entries(t), t.size <= AR_MAX_SIZE, NEW a
    PROVE  PairsOf(ht_to_ar(t, a)) = PairsOf(t)
<1>. DEFINE p == ea_compress(t)
            r == ea_resize(p, ea_next_capa_for(t.size, AR_MAX_SIZE), a)
            u == ht_to_ar(t, a)
<1>1. Shape(p) /\ t.size \in Nat /\ Active(p) = 0 .. t.size - 1 /\ PairsOf(p) = PairsOf(t)
    BY CompressFacts, CompressPairs
<1>. HIDE DEF p
<1>2. PICK c \in Nat : c = ea_next_capa_for(t.size, AR_MAX_SIZE) /\ t.size <= c
    BY <1>1, NextCapa, SizeFacts
<1>3. \A i \in Active(p) : i < c
    BY <1>1, <1>2
<1>4. PairsOf(r) = PairsOf(p) /\ DOMAIN r = Fields
    BY <1>1, <1>2, <1>3, ResizePairs, ResizeFacts
<1>5. u = [r EXCEPT !.ht = FALSE, !.tbl = a, !.used = t.size, !.ib = << >>]
    BY DEF ht_to_ar, p
<1>. HIDE DEF r
<1>6. u.capa = r.capa /\ u.ea = r.ea
    BY <1>4, <1>5 DEF Fields
<1>7. PairsOf(u) = PairsOf(r)
    BY <1>6, IndexPairs
<1>. QED BY <1>1, <1>4, <1>7 DEF u

-----------------------------------------------------------------------------
(* What a step makes of the pairs.                                         *)

LEMMA ListsOnce ==
    ASSUME NEW A \in SUBSET Nat, NEW n \in Nat, NEW L, Lists(L, n, A), NEW l \in 1 .. n, NEW m \in 1 .. n, L[l] = L[m]
    PROVE  l = m
<1>1. L[l] \in Nat /\ L[m] \in Nat
    BY DEF Lists
<1>2. ~(l < m) /\ ~(m < l)
    BY <1>1 DEF Lists
<1>. QED BY <1>2

\* A new value for an entry, and for a pair
WithValue(s, p, v) == [s EXCEPT ![p].val = v]
Overwritten(t, i, v) == [t EXCEPT !.ea[i].val = v]

LEMMA SetValuePairs ==
    ASSUME NEW t, Shape(t), NEW i \in Active(t), NEW v \in Val, NEW u, u = Overwritten(t, i, v)
    PROVE  \E p \in DOMAIN PairsOf(t) : /\ PairsOf(t)[p] = t.ea[i]
                                        /\ PairsOf(u) = WithValue(PairsOf(t), p, v)
<1>. DEFINE n == Cardinality(Active(t))
            L == ActiveList(t)
            q == PairsOf(t)
<1>1. n \in Nat /\ Lists(L, n, Active(t)) /\ q = [m \in 1 .. n |-> t.ea[L[m]]]
    BY ListOf
<1>2. Active(t) \in SUBSET Nat
    BY ActiveFacts
<1>3. Shape(u) /\ Active(u) = Active(t)
    BY SetValue DEF SameKeys, Overwritten
<1>4. u.ea = [t.ea EXCEPT ![i].val = v]
    BY DEF Shape, Fields, Overwritten
<1>. HIDE DEF n, L, q
<1>5. PICK p \in 1 .. n : L[p] = i
    BY <1>1 DEF Lists
<1>6. PairsOf(u) = [m \in 1 .. n |-> u.ea[L[m]]]
    BY <1>1, <1>3, PairsFrom
<1>7. ASSUME NEW m \in 1 .. n PROVE u.ea[L[m]] = IF m = p THEN [q[p] EXCEPT !.val = v] ELSE q[m]
  <2>1. L[m] \in Active(t) /\ L[m] \in Slots(t)
      BY <1>1 DEF Lists, Active
  <2>2. t.ea \in [Slots(t) -> Slot]
      BY DEF Shape
  <2>3. CASE m = p
      BY <1>1, <1>4, <1>5, <2>1, <2>2, <2>3
  <2>4. CASE m # p
    <3>1. L[m] # i
        BY <1>1, <1>2, <1>5, <2>4, ListsOnce
    <3>. QED BY <1>1, <1>4, <2>1, <2>2, <2>4, <3>1
  <2>. QED BY <2>3, <2>4
<1>8. PairsOf(u) = [q EXCEPT ![p].val = v]
    BY <1>1, <1>6, <1>7, ZenonT(60)
<1>9. q[p] = t.ea[i] /\ p \in DOMAIN q
    BY <1>1, <1>5
<1>. QED BY <1>8, <1>9 DEF q, WithValue

\* An entry behind all others
LEMMA AppendPairs ==
    ASSUME NEW t, Entries(t), t.used < t.capa, t.used < EA_MAX_CAPA, NEW k \in Key, NEW v \in Val
    PROVE  PairsOf(AppendEntry(t, k, v)) = Append(PairsOf(t), [key |-> k, val |-> v])
<1>. DEFINE n == Cardinality(Active(t))
            L == ActiveList(t)
            q == PairsOf(t)
            u == AppendEntry(t, k, v)
<1>1. n \in Nat /\ Lists(L, n, Active(t)) /\ q = [m \in 1 .. n |-> t.ea[L[m]]]
    BY ListOf DEF Entries
<1>2. /\ Active(u) = Active(t) \cup {t.used} /\ t.used \notin Active(t)
      /\ \A i \in Active(t) : u.ea[i] = t.ea[i]
    BY AppendFacts
<1>3. Shape(u)
    BY AppendFacts DEF Entries
<1>4. u.ea[t.used] = [key |-> k, val |-> v] /\ t.used \in Nat
    BY DEF AppendEntry, Entries, Shape, Fields, Slots
<1>5. Active(t) \in SUBSET Nat /\ \A i \in Active(t) : i < t.used
    BY ActiveFacts DEF Entries
<1>. HIDE DEF n, L, q, u
<1>. DEFINE K == [m \in 1 .. n + 1 |-> IF m <= n THEN L[m] ELSE t.used]
<1>6. Lists(K, n + 1, Active(u))
  <2>1. K \in [1 .. n + 1 -> Active(u)]
      BY <1>1, <1>2 DEF Lists
  <2>2. ASSUME NEW l \in 1 .. n + 1, NEW m \in 1 .. n + 1, l < m PROVE K[l] < K[m]
    <3>1. l \in 1 .. n /\ K[l] = L[l] /\ L[l] \in Active(t)
        BY <1>1, <2>2 DEF Lists
    <3>2. CASE m <= n
        BY <1>1, <2>2, <3>1, <3>2 DEF Lists
    <3>3. CASE ~(m <= n)
        BY <1>5, <3>1, <3>3
    <3>. QED BY <3>2, <3>3
  <2>3. ASSUME NEW i \in Active(u) PROVE \E m \in 1 .. n + 1 : K[m] = i
    <3>1. CASE i = t.used
      <4>1. n + 1 \in 1 .. n + 1 /\ K[n + 1] = t.used
          BY <1>1
      <4>. QED BY <3>1, <4>1
    <3>2. CASE i \in Active(t)
      <4>1. PICK m \in 1 .. n : L[m] = i
          BY <1>1, <3>2 DEF Lists
      <4>2. m \in 1 .. n + 1 /\ K[m] = i
          BY <1>1, <4>1
      <4>. QED BY <4>2
    <3>. QED BY <1>2, <3>1, <3>2
  <2>. HIDE DEF K
  <2>. QED BY <2>1, <2>2, <2>3 DEF Lists
<1>7. PairsOf(u) = [m \in 1 .. n + 1 |-> u.ea[K[m]]]
  <2>. HIDE DEF K
  <2>. QED BY <1>1, <1>3, <1>6, PairsFrom
<1>8. ASSUME NEW m \in 1 .. n + 1 PROVE u.ea[K[m]] = IF m <= n THEN q[m] ELSE [key |-> k, val |-> v]
  <2>1. CASE m <= n
    <3>1. m \in 1 .. n /\ K[m] = L[m] /\ L[m] \in Active(t)
        BY <1>1, <2>1 DEF Lists
    <3>. QED BY <1>1, <1>2, <2>1, <3>1
  <2>2. CASE ~(m <= n)
      BY <1>4, <2>2
  <2>. QED BY <2>1, <2>2
<1>9. PairsOf(u) = [m \in 1 .. n + 1 |-> IF m <= n THEN q[m] ELSE [key |-> k, val |-> v]]
    BY <1>7, <1>8
<1>10. q \in Seq(Map!Pair) /\ Len(q) = n
    BY ListOf DEF q, n, Entries
<1>11. PairsOf(u) = Append(q, [key |-> k, val |-> v])
    BY <1>1, <1>9, <1>10
<1>. QED BY <1>11 DEF u, q

\* s without its p-th element
Removed(s, p) == [j \in 1 .. Len(s) - 1 |-> IF j < p THEN s[j] ELSE s[j + 1]]

\* An entry is taken out; the first one, if it is the one in the first slot.
LEMMA DropPairs ==
    ASSUME NEW t, Shape(t), NEW u, Shape(u), NEW i \in Active(t), Active(u) = Active(t) \ {i},
           \A j \in Active(u) : u.ea[j] = t.ea[j]
    PROVE  \E p \in DOMAIN PairsOf(t) : /\ PairsOf(t)[p] = t.ea[i] /\ PairsOf(u) = Removed(PairsOf(t), p)
                                        /\ (\A j \in Active(t) : i <= j) => p = 1
<1>. DEFINE n == Cardinality(Active(t))
            L == ActiveList(t)
            q == PairsOf(t)
<1>1. n \in Nat /\ Lists(L, n, Active(t)) /\ q = [m \in 1 .. n |-> t.ea[L[m]]]
    BY ListOf
<1>2. q \in Seq(Map!Pair) /\ Len(q) = n
    BY ListOf
<1>3. Active(t) \in SUBSET Nat
    BY ActiveFacts
<1>. HIDE DEF n, L, q
<1>4. PICK p \in 1 .. n : L[p] = i
    BY <1>1 DEF Lists
<1>. DEFINE c == n - 1
            K == [m \in 1 .. c |-> IF m < p THEN L[m] ELSE L[m + 1]]
<1>5. c \in Nat
    BY <1>1, <1>4
<1>6. ASSUME NEW m \in 1 .. c
      PROVE  \E l \in 1 .. n : /\ K[m] = L[l] /\ l # p /\ (m < p => l = m) /\ (~(m < p) => l = m + 1)
                               /\ L[l] \in Active(u)
  <2>1. PICK l \in 1 .. n : l = IF m < p THEN m ELSE m + 1
      BY <1>1
  <2>2. l # p /\ K[m] = L[l]
      BY <2>1
  <2>3. L[l] # i
    <3>1. SUFFICES ASSUME L[l] = L[p] PROVE FALSE
        BY <1>4
    <3>2. l = p
      <4>1. n \in Nat /\ Lists(L, n, Active(t)) /\ Active(t) \in SUBSET Nat /\ l \in 1 .. n /\ p \in 1 .. n
          BY <1>1, <1>3
      <4>. QED BY ONLY <3>1, <4>1, ListsOnce
    <3>. QED BY <2>2, <3>2
  <2>4. L[l] \in Active(t)
      BY <1>1 DEF Lists
  <2>. QED BY <2>1, <2>2, <2>3, <2>4
<1>7. K \in [1 .. c -> Active(u)]
    BY <1>6
<1>8. ASSUME NEW x \in 1 .. c, NEW y \in 1 .. c, x < y PROVE K[x] < K[y]
  <2>1. PICK l \in 1 .. n : K[x] = L[l] /\ (x < p => l = x) /\ (~(x < p) => l = x + 1)
      BY <1>6
  <2>2. PICK m \in 1 .. n : K[y] = L[m] /\ (y < p => m = y) /\ (~(y < p) => m = y + 1)
      BY <1>6
  <2>. HIDE DEF K, c
  <2>3. l < m
      BY <1>5, <1>8, <2>1, <2>2
  <2>4. L[l] < L[m]
      BY <1>1, <2>3 DEF Lists
  <2>. QED BY <2>1, <2>2, <2>4
<1>9. ASSUME NEW j \in Active(u) PROVE \E m \in 1 .. c : K[m] = j
  <2>1. PICK l \in 1 .. n : L[l] = j
      BY <1>1, <1>9 DEF Lists
  <2>2. l # p
      BY <1>4, <1>9, <2>1
  <2>3. PICK m \in 1 .. c : m = IF l < p THEN l ELSE l - 1
      BY <1>1, <2>2
  <2>4. K[m] = L[l]
      BY <2>2, <2>3
  <2>. QED BY <2>1, <2>4
<1>. HIDE DEF K, c
<1>10. Lists(K, c, Active(u))
    BY <1>7, <1>8, <1>9 DEF Lists
<1>11. PairsOf(u) = [m \in 1 .. c |-> u.ea[K[m]]]
    BY <1>5, <1>10, PairsFrom
<1>12. ASSUME NEW m \in 1 .. c PROVE u.ea[K[m]] = IF m < p THEN q[m] ELSE q[m + 1]
  <2>1. PICK l \in 1 .. n : K[m] = L[l] /\ (m < p => l = m) /\ (~(m < p) => l = m + 1) /\ L[l] \in Active(u)
      BY <1>6
  <2>2. u.ea[K[m]] = t.ea[L[l]]
      BY <2>1
  <2>3. q[l] = t.ea[L[l]]
      BY <1>1
  <2>. QED BY <2>1, <2>2, <2>3
<1>13. PairsOf(u) = Removed(q, p)
    BY <1>2, <1>11, <1>12 DEF Removed, c
<1>14. ASSUME \A j \in Active(t) : i <= j PROVE p = 1
  <2>. SUFFICES ASSUME p # 1 PROVE FALSE
      OBVIOUS
  <2>1. 1 \in 1 .. n /\ 1 < p
      BY <1>1
  <2>2. L[1] < L[p] /\ L[1] \in Active(t)
      BY <1>1, <2>1 DEF Lists
  <2>. QED BY <1>3, <1>4, <1>14, <2>2
<1>15. q[p] = t.ea[i] /\ p \in DOMAIN q
    BY <1>1, <1>4
<1>. QED BY <1>13, <1>14, <1>15 DEF q

-----------------------------------------------------------------------------
(* Storing.                                                                *)

\* What h_set() makes of the pairs: the value of a pair of this content is
\* replaced, or a pair is added behind the others.  The second happens in a
\* table whose keys are in place only if there is no such pair.
StoresPair(r, t, k, v) ==
    \/ \E p \in DOMAIN PairsOf(t) : /\ content[PairsOf(t)[p].key] = content[k]
                                    /\ PairsOf(r) = WithValue(PairsOf(t), p, v)
    \/ /\ Keyed(t) => \A p \in DOMAIN PairsOf(t) : content[PairsOf(t)[p].key] # content[k]
       /\ PairsOf(r) = Append(PairsOf(t), [key |-> k, val |-> v])

LEMMA StoresThrough ==
    ASSUME NEW r, NEW q, NEW t, NEW k, NEW v, StoresPair(r, q, k, v), PairsOf(q) = PairsOf(t), Keyed(t) => Keyed(q)
    PROVE  StoresPair(r, t, k, v)
    BY DEF StoresPair

\* A content that no entry has no pair has.
LEMMA AbsentPair ==
    ASSUME NEW t, Shape(t), NEW k, \A i \in Active(t) : content[t.ea[i].key] # content[k]
    PROVE  \A p \in DOMAIN PairsOf(t) : content[PairsOf(t)[p].key] # content[k]
<1>. DEFINE n == Cardinality(Active(t))
            L == ActiveList(t)
<1>1. n \in Nat /\ Lists(L, n, Active(t)) /\ PairsOf(t) = [m \in 1 .. n |-> t.ea[L[m]]]
    BY ListOf
<1>. HIDE DEF n, L
<1>2. \A m \in 1 .. n : L[m] \in Active(t)
    BY <1>1 DEF Lists
<1>. QED BY <1>1, <1>2

LEMMA OverwritePairs ==
    ASSUME NEW t, Shape(t), NEW i \in Active(t), NEW k, content[k] = content[t.ea[i].key], NEW v \in Val,
           NEW u, u = Overwritten(t, i, v)
    PROVE  StoresPair(u, t, k, v)
<1>1. PICK p \in DOMAIN PairsOf(t) : PairsOf(t)[p] = t.ea[i] /\ PairsOf(u) = WithValue(PairsOf(t), p, v)
    BY SetValuePairs
<1>. QED BY <1>1 DEF StoresPair

LEMMA HtStorePairs ==
    ASSUME NEW t, Good(t), t.ht, t.used + 1 <= DeletedValue(t), t.used < EA_MAX_CAPA,
           content \in [Key -> Key], NEW k \in Key, NEW v \in Val, NEW a
    PROVE  StoresPair(HtStore(t, k, v, a), t, k, v)
<1>1. Shape(t) /\ Entries(t) /\ t.used \in Nat /\ t.capa \in Nat /\ t.used <= t.capa /\ t.bit \in Nat /\ Index(t, t.used)
    BY DEF Good, Entries, Shape
<1>2. CASE Found(t, k)
  <2>1. Min(Hits(t, k)) \in Hits(t, k)
      BY <1>1, <1>2, FoundHits, FirstHit
  <2>2. PICK i \in Active(t) : i = Bucket(t, k, Min(Hits(t, k))) /\ content[k] = content[t.ea[i].key]
      BY <1>1, <2>1, HitFacts
  <2>3. HtStore(t, k, v, a) = Overwritten(t, i, v)
      BY <1>2, <2>2 DEF HtStore, Overwritten
  <2>. QED BY <1>1, <2>2, <2>3, OverwritePairs
<1>3. CASE ~Found(t, k)
  <2>1. PICK room : room = IF t.used = t.capa THEN adjust_ea(t, t.used, EA_MAX_CAPA, a) ELSE t
      OBVIOUS
  <2>2. Entries(room) /\ room.used = t.used /\ room.used < room.capa /\ PairsOf(room) = PairsOf(t)
    <3>1. CASE t.used = t.capa
      <4>1. EA_MAX_CAPA \in Nat /\ t.used < ea_next_capa_for(t.used, EA_MAX_CAPA) /\ ea_next_capa_for(t.used, EA_MAX_CAPA) \in Nat
          BY <1>1, NextCapa, SizeFacts
      <4>2. t.used <= ea_next_capa_for(t.used, EA_MAX_CAPA)
          BY <1>1, <4>1
      <4>3. room = adjust_ea(t, t.used, EA_MAX_CAPA, a)
          BY <2>1, <3>1
      <4>4. room.used = t.used /\ room.capa = ea_next_capa_for(t.used, EA_MAX_CAPA) /\ Entries(room)
        <5>1. Entries(t) /\ t.used \in Nat
            BY <1>1
        <5>. QED BY ONLY <4>1, <4>2, <4>3, <5>1, AdjustFacts
      <4>5. \A i \in Active(t) : i < ea_next_capa_for(t.used, EA_MAX_CAPA)
        <5>1. \A i \in Active(t) : i \in Nat /\ i < t.used
            BY <1>1, ActiveFacts DEF Entries
        <5>. QED BY <1>1, <4>1, <5>1
      <4>6. PairsOf(room) = PairsOf(t)
        <5>1. Shape(t) /\ t.used \in Nat
            BY <1>1
        <5>. QED BY ONLY <4>1, <4>3, <4>5, <5>1, AdjustPairs
      <4>. QED BY <4>1, <4>4, <4>6
    <3>2. CASE t.used # t.capa
      <4>1. room = t
          BY <2>1, <3>2
      <4>2. t.used < t.capa
          BY <1>1, <3>2
      <4>. QED BY <1>1, <4>1, <4>2
    <3>. QED BY <3>1, <3>2
  <2>3. PICK u : u = AppendEntry(room, k, v)
      OBVIOUS
  <2>4. DOMAIN u = Fields /\ PairsOf(u) = Append(PairsOf(t), [key |-> k, val |-> v])
    <3>1. room.used < EA_MAX_CAPA
        BY <2>2
    <3>2. DOMAIN u = Fields /\ PairsOf(u) = Append(PairsOf(room), [key |-> k, val |-> v])
      <4>1. Entries(room) /\ room.used < room.capa
          BY <2>2
      <4>. QED BY ONLY <2>3, <3>1, <4>1, k \in Key, v \in Val, AppendFacts, AppendPairs
    <3>. QED BY <2>2, <3>2
  <2>5. PICK r : r = [u EXCEPT !.ib[Probe(t, k, Min(Gaps(t, k)))] = t.used]
      OBVIOUS
  <2>6. HtStore(t, k, v, a) = r
      BY <1>3, <2>1, <2>3, <2>5 DEF HtStore
  <2>7. r.capa = u.capa /\ r.ea = u.ea
      BY <2>4, <2>5 DEF Fields
  <2>8. PairsOf(r) = Append(PairsOf(t), [key |-> k, val |-> v])
      BY <2>4, <2>7, IndexPairs
  <2>9. ASSUME Keyed(t) PROVE \A p \in DOMAIN PairsOf(t) : content[PairsOf(t)[p].key] # content[k]
    <3>1. Reachable(t, t.used)
        BY <2>9 DEF Keyed
    <3>2. \A i \in Active(t) : content[t.ea[i].key] # content[k]
      <4>. SUFFICES ASSUME NEW i \in Active(t), content[t.ea[i].key] = content[k] PROVE FALSE
          OBVIOUS
      <4>1. i < t.used
          BY <1>1 DEF Entries
      <4>. QED BY <1>1, <1>3, <3>1, <4>1, FoundOnProbe
    <3>. QED BY <1>1, <3>2, AbsentPair
  <2>. QED BY <2>6, <2>8, <2>9 DEF StoresPair
<1>. QED BY <1>2, <1>3

LEMMA ar_compressPairs ==
    ASSUME NEW t, Good(t), ~t.ht, t.size < t.used, NEW a PROVE PairsOf(ar_compress(t, a)) = PairsOf(t)
<1>1. Entries(t) /\ t.used \in Nat /\ t.capa \in Nat /\ t.used <= t.capa /\ t.capa <= AR_MAX_SIZE
    BY DEF Good, Entries, Shape, Small
<1>. DEFINE c == ea_compress(t)
            d == [c EXCEPT !.used = t.size]
<1>2. /\ DOMAIN c = Fields /\ c.capa = t.capa
      /\ Shape(c) /\ t.size \in Nat /\ t.size <= t.used /\ Active(c) = 0 .. t.size - 1
      /\ PairsOf(c) = PairsOf(t)
    BY <1>1, CompressFacts, CompressPairs
<1>. HIDE DEF c
<1>3. DOMAIN d = Fields /\ d.ht = c.ht /\ d.used = t.size /\ d.capa = c.capa /\ d.bit = c.bit /\ d.ea = c.ea
    BY <1>2 DEF Fields
<1>4. ar_compress(t, a) = adjust_ea(d, t.size, IF t.capa < AR_MAX_SIZE THEN t.capa ELSE AR_MAX_SIZE, a)
    BY DEF ar_compress, c
<1>. HIDE DEF d
<1>5. Active(d) = Active(c) /\ Slots(d) = Slots(c)
    BY <1>2, <1>3 DEF Active, Slots
<1>6. Shape(d) /\ PairsOf(d) = PairsOf(c)
    BY <1>2, <1>3, <1>5, IndexPairs DEF Shape
<1>7. PICK max \in Nat : max = (IF t.capa < AR_MAX_SIZE THEN t.capa ELSE AR_MAX_SIZE) /\ t.size < max
    BY <1>1, <1>2, SizeFacts
<1>8. ea_next_capa_for(t.size, max) \in Nat /\ t.size < ea_next_capa_for(t.size, max)
    BY <1>2, <1>7, NextCapa
<1>9. \A i \in Active(d) : i < ea_next_capa_for(t.size, max)
    BY <1>2, <1>5, <1>8
<1>10. PairsOf(adjust_ea(d, t.size, max, a)) = PairsOf(d)
    BY <1>2, <1>6, <1>9, AdjustPairs
<1>. QED BY <1>2, <1>4, <1>6, <1>7, <1>10

LEMMA ar_setPairs ==
    ASSUME NEW t, Good(t), ~t.ht, t.used < EA_MAX_CAPA, content \in [Key -> Key],
           NEW k \in Key, NEW v \in Val, NEW a
    PROVE  StoresPair(ar_set(t, k, v, a), t, k, v)
<1>1. Entries(t) /\ Shape(t) /\ t.used \in Nat /\ t.capa \in Nat /\ t.used <= t.capa /\ Small(t)
    BY DEF Good, Entries, Shape
<1>2. t.size \in Nat /\ t.size <= t.used /\ t.size = Cardinality(Active(t))
    BY <1>1, CompressFacts DEF Entries
<1>3. PICK S : S = ea_get_by_key(t, t.size, k)
    OBVIOUS
<1>4. S = {i \in Active(t) : content[k] = content[t.ea[i].key]}
    BY <1>1, <1>3, ArSearch
<1>5. PICK room : room = CASE t.capa # t.used -> t
                           [] t.capa = t.used /\ t.size = t.used -> adjust_ea(t, t.size, AR_MAX_SIZE, a)
                           [] t.capa = t.used /\ t.size # t.used -> ar_compress(t, a)
    OBVIOUS
<1>6. ar_set(t, k, v, a) =
         CASE S # {} -> Overwritten(t, Min(S), v)
           [] S = {} /\ {t.capa, t.used, t.size} = {AR_MAX_SIZE} ->
                 HtStore(ht_init(t, t.size, IB_INIT_BIT, a), k, v, a)
           [] S = {} /\ {t.capa, t.used, t.size} # {AR_MAX_SIZE} -> AppendEntry(room, k, v)
    BY <1>3, <1>5 DEF ar_set, Overwritten
<1>7. CASE S # {}
  <2>1. S \in SUBSET Nat
      BY <1>1, <1>4, ActiveFacts
  <2>2. PICK i \in Active(t) : i = Min(S) /\ content[k] = content[t.ea[i].key]
      BY <1>4, <1>7, <2>1, MinFacts
  <2>3. ar_set(t, k, v, a) = Overwritten(t, i, v)
      BY <1>6, <1>7, <2>2
  <2>. QED BY <1>1, <2>2, <2>3, OverwritePairs
<1>8. CASE S = {} /\ {t.capa, t.used, t.size} = {AR_MAX_SIZE}
  <2>1. t.capa = AR_MAX_SIZE /\ t.used = AR_MAX_SIZE /\ t.size = AR_MAX_SIZE
      BY <1>8
  <2>2. Active(t) = 0 .. t.size - 1
    <3>1. Active(t) \in SUBSET (0 .. t.capa - 1)
        BY <1>1, ActiveFacts
    <3>2. Cardinality(Active(t)) = t.capa
        BY <1>2, <2>1
    <3>3. Active(t) = 0 .. t.capa - 1
        BY <1>1, <3>1, <3>2, SlotsFinite
    <3>. QED BY <2>1, <3>3
  <2>3. PICK c \in Nat : c = ib_bit_to_capa[IB_INIT_BIT] /\ (3 * c) \div 4 <= c - 2 /\ AR_MAX_SIZE < (3 * c) \div 4 /\ (3 * c) \div 4 \in Nat
      BY SizeFacts, CapaFacts, HashAssumption DEF ib_upper_bound_for
  <2>4. t.size + 1 <= c - 2 /\ t.size <= ib_bit_to_capa[IB_INIT_BIT] - 2 /\ t.size <= EA_MAX_CAPA /\ t.size <= t.capa
      BY <1>1, <1>2, <2>1, <2>3, SizeFacts
  <2>. DEFINE q == ht_init(t, t.size, IB_INIT_BIT, a)
  <2>5. Good(q) /\ q.ht /\ q.used = t.size /\ q.bit = IB_INIT_BIT /\ (Distinct(t) => Keyed(q))
      BY <1>1, <1>2, <2>2, <2>4, SizeFacts, PackedHt
  <2>6. PairsOf(q) = PairsOf(t)
    <3>1. /\ Shape(t) /\ content \in [Key -> Key] /\ t.size \in Nat /\ IB_INIT_BIT \in Nat /\ IB_INIT_BIT >= 3
          /\ t.size <= ib_bit_to_capa[IB_INIT_BIT] - 2 /\ \A i \in 0 .. t.size - 1 : i \in Active(t)
        BY <1>1, <1>2, <2>2, <2>4, SizeFacts
    <3>. QED BY ONLY <3>1, ht_initPairs
  <2>7. ar_set(t, k, v, a) = HtStore(q, k, v, a)
      BY <1>6, <1>8
  <2>. HIDE DEF q
  <2>8. q.used + 1 <= DeletedValue(q)
      BY <2>3, <2>4, <2>5 DEF DeletedValue, ib_capa
  <2>9. q.used < EA_MAX_CAPA
      BY <2>1, <2>5
  <2>10. StoresPair(HtStore(q, k, v, a), q, k, v)
      BY <2>5, <2>8, <2>9, HtStorePairs
  <2>11. Keyed(t) => Keyed(q)
      BY <2>5 DEF Keyed
  <2>. QED BY <2>6, <2>7, <2>10, <2>11, StoresThrough
<1>9. CASE S = {} /\ {t.capa, t.used, t.size} # {AR_MAX_SIZE}
  <2>1. ar_set(t, k, v, a) = AppendEntry(room, k, v)
      BY <1>6, <1>9
  <2>2. Entries(room) /\ room.used < room.capa /\ room.used <= t.used /\ PairsOf(room) = PairsOf(t)
    <3>1. CASE t.capa # t.used
      <4>1. room = t
          BY <1>5, <3>1
      <4>2. t.used < t.capa
          BY <1>1, <3>1
      <4>. QED BY <1>1, <4>1, <4>2
    <3>2. CASE t.capa = t.used /\ t.size = t.used
      <4>. DEFINE r == adjust_ea(t, t.size, AR_MAX_SIZE, a)
      <4>1. room = r
          BY <1>5, <3>2
      <4>2. t.size < AR_MAX_SIZE
        <5>1. t.size # AR_MAX_SIZE
            BY <1>9, <3>2
        <5>2. t.size <= AR_MAX_SIZE
            BY <1>1, <3>2 DEF Small
        <5>. QED BY <1>2, <5>1, <5>2, SizeFacts
      <4>3. PICK n \in Nat : n = ea_next_capa_for(t.size, AR_MAX_SIZE) /\ t.size < n
          BY <1>2, <4>2, SizeFacts, NextCapa
      <4>4. t.used <= ea_next_capa_for(t.size, AR_MAX_SIZE)
          BY <1>2, <3>2, <4>3
      <4>5. r.used = t.used /\ r.capa = ea_next_capa_for(t.size, AR_MAX_SIZE) /\ Entries(r)
          BY <1>1, <1>2, <4>4, SizeFacts, AdjustFacts
      <4>6. \A i \in Active(t) : i < ea_next_capa_for(t.size, AR_MAX_SIZE)
        <5>1. \A i \in Active(t) : i \in Nat /\ i < t.size
            BY <1>1, <3>2, ActiveFacts DEF Entries
        <5>. QED BY <1>2, <4>3, <5>1
      <4>7. PairsOf(r) = PairsOf(t)
          BY <1>1, <1>2, <4>6, SizeFacts, AdjustPairs
      <4>. HIDE DEF r
      <4>. QED BY <1>1, <3>2, <4>1, <4>3, <4>5, <4>7
    <3>3. CASE t.capa = t.used /\ t.size # t.used
      <4>. DEFINE r == ar_compress(t, a)
      <4>1. room = r
          BY <1>5, <3>3
      <4>2. t.size < t.used
          BY <1>1, <1>2, <3>3
      <4>3. Entries(r) /\ r.used < r.capa /\ r.used <= t.used /\ PairsOf(r) = PairsOf(t)
          BY <4>2, ar_compressFacts, ar_compressPairs
      <4>. HIDE DEF r
      <4>. QED BY <4>1, <4>3
    <3>. QED BY <3>1, <3>2, <3>3
  <2>3. \A i \in Active(t) : content[t.ea[i].key] # content[k]
      BY <1>4, <1>9
  <2>4. \A p \in DOMAIN PairsOf(t) : content[PairsOf(t)[p].key] # content[k]
      BY <1>1, <2>3, AbsentPair
  <2>5. room.used < EA_MAX_CAPA
      BY <1>1, <2>2, SizeFacts DEF Entries, Shape
  <2>6. PairsOf(AppendEntry(room, k, v)) = Append(PairsOf(t), [key |-> k, val |-> v])
      BY <2>2, <2>5, AppendPairs
  <2>. QED BY <2>1, <2>4, <2>6 DEF StoresPair
<1>. QED BY <1>7, <1>8, <1>9

LEMMA RebuiltPairs ==
    ASSUME NEW t, Good(t), NEW c, Shape(c), SameKeys(c, ea_compress(t)), PairsOf(c) = PairsOf(t),
           t.size <= c.capa, NEW bit \in Nat, bit >= 3,
           t.size + 1 <= ib_bit_to_capa[bit] - 2, t.used < EA_MAX_CAPA, content \in [Key -> Key],
           NEW k \in Key, NEW v \in Val, NEW a
    PROVE  StoresPair(HtStore(ht_init(c, t.size, bit, a), k, v, a), t, k, v)
<1>1. Entries(t) /\ t.used \in Nat
    BY DEF Good, Entries, Shape
<1>2. t.size \in Nat /\ t.size <= t.used /\ Active(ea_compress(t)) = 0 .. t.size - 1
    BY <1>1, CompressFacts
<1>3. Active(c) = 0 .. t.size - 1
    BY <1>2 DEF SameKeys
<1>4. PICK n \in Nat : n = ib_bit_to_capa[bit]
    BY ShiftType
<1>5. t.size <= ib_bit_to_capa[bit] - 2 /\ t.size <= EA_MAX_CAPA /\ t.size < EA_MAX_CAPA
    BY <1>1, <1>2, <1>4, SizeFacts
<1>. DEFINE q == ht_init(c, t.size, bit, a)
<1>6. Good(q) /\ q.ht /\ q.used = t.size /\ q.bit = bit /\ (Distinct(c) => Keyed(q))
    BY <1>2, <1>3, <1>5, PackedHt
<1>7. PairsOf(q) = PairsOf(c)
    BY <1>2, <1>3, <1>5, ht_initPairs
<1>. HIDE DEF q
<1>8. q.used + 1 <= DeletedValue(q)
    BY <1>2, <1>4, <1>6 DEF DeletedValue, ib_capa
<1>9. q.used < EA_MAX_CAPA
    BY <1>5, <1>6
<1>10. StoresPair(HtStore(q, k, v, a), q, k, v)
    BY <1>6, <1>8, <1>9, HtStorePairs
<1>11. Keyed(t) => Keyed(q)
    BY <1>1, <1>6, CompressDistinct, SameDistinct DEF Keyed
<1>12. StoresPair(HtStore(q, k, v, a), t, k, v)
    BY <1>7, <1>10, <1>11, StoresThrough
<1>. QED BY <1>12 DEF q

LEMMA ht_setPairs ==
    ASSUME NEW t, Good(t), t.ht, t.used < EA_MAX_CAPA, content \in [Key -> Key],
           NEW k \in Key, NEW v \in Val, NEW a
    PROVE  StoresPair(ht_set(t, k, v, a), t, k, v)
<1>1. Entries(t) /\ Shape(t) /\ t.used \in Nat /\ t.capa \in Nat /\ t.used <= t.capa /\ t.bit \in Nat /\ t.bit >= 3
      /\ Index(t, t.used)
    BY DEF Good, Entries, Shape, Index
<1>2. t.size \in Nat /\ t.size <= t.used
    BY <1>1, CompressFacts
<1>3. PICK n \in Nat : n = ib_capa(t) /\ n >= 8 /\ ib_upper_bound_for(n) \in Nat /\ ib_upper_bound_for(n) <= n - 2
                       /\ DeletedValue(t) = n - 2
    BY <1>1, IndexFacts
<1>4. t.used <= n - 2
    BY <1>3, <1>1 DEF Index
<1>. DEFINE packed == ea_compress(t)
            fitted == adjust_ea(packed, t.size, t.capa, a)
            compressed == ht_init(fitted, t.size, t.bit, a)
<1>5. Shape(packed) /\ packed.capa = t.capa /\ Active(packed) = 0 .. t.size - 1 /\ PairsOf(packed) = PairsOf(t)
    BY <1>1, CompressFacts, CompressPairs
<1>6. CASE ib_upper_bound_for(ib_capa(t)) <= t.size
  <2>1. ht_set(t, k, v, a) = HtStore(ht_init(packed, t.size, t.bit + 1, a), k, v, a)
    <3>1. Grows(t) /\ ~Demotes(t) /\ ~Compresses(t)
        BY <1>6 DEF Grows, Demotes, Compresses
    <3>. QED BY <3>1 DEF ht_set
  <2>2. ib_bit_to_capa[t.bit + 1] = 2 * n /\ t.bit + 1 \in Nat /\ t.bit + 1 >= 3
      BY <1>1, <1>3, ShiftNext DEF ib_capa
  <2>3. t.size + 1 <= ib_bit_to_capa[t.bit + 1] - 2
      BY <1>1, <1>2, <1>3, <1>4, <2>2
  <2>4. SameKeys(packed, ea_compress(t)) /\ t.size <= packed.capa
      BY <1>1, <1>2, <1>5 DEF SameKeys
  <2>. HIDE DEF packed
  <2>5. PICK b \in Nat : b = t.bit + 1
      BY <2>2
  <2>6. StoresPair(HtStore(ht_init(packed, t.size, b, a), k, v, a), t, k, v)
    <3>1. b >= 3 /\ t.size + 1 <= ib_bit_to_capa[b] - 2
        BY <2>2, <2>3, <2>5
    <3>. QED BY <1>5, <2>4, <3>1, RebuiltPairs
  <2>. QED BY <2>1, <2>5, <2>6
<1>7. CASE ~(ib_upper_bound_for(ib_capa(t)) <= t.size)
  <2>1. t.size + 1 <= n - 2 /\ t.size + 1 <= ib_bit_to_capa[t.bit] - 2
      BY <1>2, <1>3, <1>7 DEF ib_capa
  <2>2. StoresPair(HtStore(compressed, k, v, a), t, k, v)
    <3>1. t.size <= t.capa
        BY <1>1, <1>2
    <3>2. t.size <= ea_next_capa_for(t.size, t.capa) /\ ea_next_capa_for(t.size, t.capa) \in Nat
        BY <1>1, <1>2, <3>1, NextCapa
    <3>3. \A i \in Active(packed) : i < ea_next_capa_for(t.size, t.capa)
        BY <1>2, <1>5, <3>2
    <3>4. fitted.capa = ea_next_capa_for(t.size, t.capa) /\ Shape(fitted) /\ SameKeys(fitted, packed)
      <4>. HIDE DEF packed
      <4>. QED BY <1>1, <1>2, <1>5, <3>3, AdjustShape
    <3>5. PairsOf(fitted) = PairsOf(packed)
      <4>. HIDE DEF packed
      <4>. QED BY <1>1, <1>2, <1>5, <3>3, AdjustPairs
    <3>. HIDE DEF fitted
    <3>. QED BY <1>1, <1>5, <2>1, <3>2, <3>4, <3>5, RebuiltPairs
  <2>. HIDE DEF compressed
  <2>3. CASE t.size = t.used
    <3>1. ht_set(t, k, v, a) = HtStore(t, k, v, a)
        BY <1>7, <2>3 DEF ht_set, Grows, Demotes, Compresses
    <3>2. t.used + 1 <= DeletedValue(t)
        BY <1>3, <2>1, <2>3
    <3>. QED BY <3>1, <3>2, HtStorePairs
  <2>4. CASE t.size # t.used /\ ib_capa(t) - 2 <= t.used
    <3>1. ht_set(t, k, v, a) = HtStore(compressed, k, v, a)
        BY <1>7, <2>4 DEF ht_set, compressed, fitted, packed, Grows, Demotes, Compresses, Tight, Fitted
    <3>. QED BY <2>2, <3>1
  <2>5. CASE t.size # t.used /\ ~(ib_capa(t) - 2 <= t.used)
    <3>1. StoresPair(HtStore(t, k, v, a), t, k, v)
      <4>1. t.used + 1 <= DeletedValue(t)
          BY <1>1, <1>3, <2>5
      <4>. QED BY <4>1, HtStorePairs
    <3>2. CASE t.capa = t.used /\ t.size <= AR_MAX_SIZE
      <4>1. ht_set(t, k, v, a) = ar_set(ht_to_ar(t, a), k, v, a)
        <5>1. ~(t.size > AR_MAX_SIZE)
            BY <1>2, <3>2, HashAssumption
        <5>2. ~Grows(t) /\ Demotes(t) /\ ~Compresses(t)
            BY <1>7, <2>5, <3>2, <5>1 DEF Grows, Demotes, Compresses, Tight
        <5>. QED BY <5>2 DEF ht_set
      <4>. DEFINE q == ht_to_ar(t, a)
      <4>2. Good(q) /\ ~q.ht /\ q.used \in Nat /\ q.used <= t.used /\ (Distinct(t) => Keyed(q)) /\ PairsOf(q) = PairsOf(t)
          BY <1>1, <3>2, ht_to_arFacts, ht_to_arPairs
      <4>. HIDE DEF q
      <4>3. q.used < EA_MAX_CAPA
          BY <1>1, <4>2, SizeFacts
      <4>4. StoresPair(ar_set(q, k, v, a), q, k, v)
          BY <4>2, <4>3, ar_setPairs
      <4>5. Keyed(t) => Keyed(q)
          BY <4>2 DEF Keyed
      <4>6. StoresPair(ar_set(q, k, v, a), t, k, v)
          BY <4>2, <4>4, <4>5, StoresThrough
      <4>. QED BY <4>1, <4>6 DEF q
    <3>3. CASE ~(t.capa = t.used /\ t.size <= AR_MAX_SIZE)
      <4>1. ht_set(t, k, v, a) = HtStore(compressed, k, v, a) \/ ht_set(t, k, v, a) = HtStore(t, k, v, a)
          BY <1>7, <2>5, <3>3 DEF ht_set, compressed, fitted, packed, Grows, Demotes, Compresses, Tight, Fitted
      <4>. QED BY <2>2, <3>1, <4>1
    <3>. QED BY <3>2, <3>3
  <2>. QED BY <2>3, <2>4, <2>5
<1>. QED BY <1>6, <1>7

LEMMA h_setPairs ==
    ASSUME NEW t, Good(t), t.used < EA_MAX_CAPA, content \in [Key -> Key], NEW k \in Key, NEW v \in Val, NEW a
    PROVE  StoresPair(h_set(t, k, v, a), t, k, v)
    BY ar_setPairs, ht_setPairs DEF h_set

-----------------------------------------------------------------------------
(* Deleting.                                                               *)

LEMMA DeletePairs ==
    ASSUME NEW t, Entries(t), NEW i \in Active(t), NEW u, u.capa = Drop(t, i).capa, u.ea = Drop(t, i).ea
    PROVE  \E p \in DOMAIN PairsOf(t) : /\ PairsOf(t)[p] = t.ea[i] /\ PairsOf(u) = Removed(PairsOf(t), p)
                                        /\ (\A j \in Active(t) : i <= j) => p = 1
<1>. DEFINE d == Drop(t, i)
<1>1. Shape(t) /\ t.size = Cardinality(Active(t))
    BY DEF Entries
<1>2. Shape(d) /\ Active(d) = Active(t) \ {i} /\ \A j \in Active(d) : d.ea[j] = t.ea[j]
    BY <1>1, DropFacts, ZenonT(60)
<1>3. PairsOf(u) = PairsOf(d)
    BY IndexPairs
<1>. HIDE DEF d
<1>. QED BY <1>1, <1>2, <1>3, DropPairs

LEMMA h_deletePairs ==
    ASSUME NEW t, Good(t), content \in [Key -> Key], NEW k \in Key, h_get(t, k) # Vacant
    PROVE  \E p \in DOMAIN PairsOf(t) : /\ content[PairsOf(t)[p].key] = content[k]
                                        /\ PairsOf(h_delete(t, k)) = Removed(PairsOf(t), p)
<1>1. Entries(t) /\ Shape(t) /\ t.used \in Nat /\ t.capa \in Nat /\ t.used <= t.capa /\ t.bit \in Nat /\ t.ht \in BOOLEAN
      /\ t.size = Cardinality(Active(t))
    BY DEF Good, Entries, Shape
<1>2. PICK i \in Active(t) : /\ content[k] = content[t.ea[i].key]
                             /\ h_delete(t, k).capa = Drop(t, i).capa /\ h_delete(t, k).ea = Drop(t, i).ea
  <2>1. CASE t.ht
    <3>1. Found(t, k) /\ Index(t, t.used)
        BY <2>1 DEF h_get, ht_get, Good
    <3>2. Min(Hits(t, k)) \in Hits(t, k)
        BY <1>1, <3>1, FoundHits, FirstHit
    <3>. DEFINE s == Min(Hits(t, k))
                p == Probe(t, k, s)
                i == t.ib[p]
                d == Drop(t, i)
    <3>3. i \in Active(t) /\ content[k] = content[t.ea[i].key]
        BY <1>1, <3>1, <3>2, HitFacts
    <3>4. h_delete(t, k) = [d EXCEPT !.ib[p] = DeletedValue(t)]
        BY <2>1 DEF h_delete, ht_delete
    <3>. HIDE DEF i
    <3>5. DOMAIN d = Fields
        BY <1>1, <3>3, DropFacts
    <3>. HIDE DEF d, p
    <3>6. h_delete(t, k).capa = d.capa /\ h_delete(t, k).ea = d.ea
        BY <3>4, <3>5 DEF Fields
    <3>. QED BY <3>3, <3>6 DEF d
  <2>2. CASE ~t.ht
    <3>. DEFINE S == ea_get_by_key(t, t.size, k)
    <3>1. S # {}
        BY <2>2 DEF h_get, ar_get
    <3>2. S = {i \in Active(t) : content[k] = content[t.ea[i].key]}
        BY <1>1, ArSearch
    <3>3. h_delete(t, k) = Drop(t, Min(S))
        BY <2>2 DEF h_delete, ar_delete
    <3>. HIDE DEF S
    <3>4. S \in SUBSET Nat
        BY <1>1, <3>2, ActiveFacts
    <3>5. Min(S) \in Active(t) /\ content[k] = content[t.ea[Min(S)].key]
        BY <3>1, <3>2, <3>4, MinFacts
    <3>. QED BY <3>3, <3>5
  <2>. QED BY <1>1, <2>1, <2>2
<1>3. PICK p \in DOMAIN PairsOf(t) : PairsOf(t)[p] = t.ea[i] /\ PairsOf(h_delete(t, k)) = Removed(PairsOf(t), p)
    BY <1>1, <1>2, DeletePairs
<1>. QED BY <1>2, <1>3

LEMMA h_shiftPairs ==
    ASSUME NEW t, Good(t), content \in [Key -> Key], t.size # 0
    PROVE  PairsOf(t) # << >> /\ PairsOf(h_shift(t)) = Tail(PairsOf(t))
<1>1. Entries(t) /\ Shape(t) /\ t.ht \in BOOLEAN /\ t.size = Cardinality(Active(t))
    BY DEF Good, Entries, Shape
<1>2. Active(t) # {} /\ Active(t) \in SUBSET Nat
    BY <1>1, ActiveFacts, FS_EmptySet
<1>3. PICK i \in Active(t) : i = Min(Active(t)) /\ \A j \in Active(t) : i <= j
    BY <1>2, MinFacts
<1>4. DOMAIN Drop(t, i) = Fields
    BY <1>1, DropFacts
<1>5. h_shift(t).capa = Drop(t, i).capa /\ h_shift(t).ea = Drop(t, i).ea
  <2>1. CASE t.ht
    <3>. DEFINE p == Probe(t, t.ea[i].key, Min({n \in Steps(t) : Bucket(t, t.ea[i].key, n) = i}))
                d == Drop(t, i)
    <3>1. h_shift(t) = [d EXCEPT !.ib[p] = DeletedValue(t)]
        BY <1>3, <2>1 DEF h_shift, ht_shift
    <3>2. DOMAIN d = Fields
        BY <1>4
    <3>. HIDE DEF p, d
    <3>3. h_shift(t).capa = d.capa /\ h_shift(t).ea = d.ea
        BY <3>1, <3>2 DEF Fields
    <3>. QED BY <3>3 DEF d
  <2>2. CASE ~t.ht
      BY <1>3, <2>2 DEF h_shift, ar_shift
  <2>. QED BY <1>1, <2>1, <2>2
<1>6. PICK p \in DOMAIN PairsOf(t) : PairsOf(h_shift(t)) = Removed(PairsOf(t), p) /\ p = 1
    BY <1>1, <1>3, <1>5, DeletePairs
<1>7. PairsOf(t) \in Seq(Map!Pair)
    BY <1>1, ListOf
<1>8. PICK q \in Seq(Map!Pair) : q = PairsOf(t) /\ 1 \in DOMAIN q
    BY <1>6, <1>7
<1>9. Removed(q, 1) = Tail(q)
  <2>1. Len(q) \in Nat /\ Len(q) # 0 /\ q # << >>
      BY <1>8
  <2>2. Removed(q, 1) = [j \in 1 .. Len(q) - 1 |-> q[j + 1]]
    <3>1. \A j \in 1 .. Len(q) - 1 : ~(j < 1)
        BY <2>1
    <3>. QED BY <3>1 DEF Removed
  <2>3. /\ Tail(q) \in Seq(Map!Pair) /\ Len(Tail(q)) = Len(q) - 1
        /\ \A j \in 1 .. Len(Tail(q)) : Tail(q)[j] = q[j + 1]
      BY <2>1, HeadTailProperties
  <2>. QED BY <2>1, <2>2, <2>3
<1>. QED BY <1>6, <1>8, <1>9

\* compact! keeps the pairs at these positions, in their order.
KeptPairs(s, I) == [n \in 1 .. Cardinality(I) |-> s[InOrder(I)[n]]]

LEMMA CompactPairs ==
    ASSUME NEW t, Shape(t), NEW u, Shape(u), Active(u) = {i \in Active(t) : t.ea[i].val # Nil},
           \A i \in Active(u) : u.ea[i] = t.ea[i]
    PROVE  PairsOf(u) = KeptPairs(PairsOf(t), {p \in DOMAIN PairsOf(t) : PairsOf(t)[p].val # Nil})
<1>. DEFINE n == Cardinality(Active(t))
            L == ActiveList(t)
            q == PairsOf(t)
            I == {p \in DOMAIN q : q[p].val # Nil}
            J == InOrder(I)
            c == Cardinality(I)
<1>1. n \in Nat /\ Lists(L, n, Active(t)) /\ q = [m \in 1 .. n |-> t.ea[L[m]]]
    BY ListOf
<1>2. Active(t) \in SUBSET Nat
    BY ActiveFacts
<1>. HIDE DEF n, L, q
<1>3. I \in SUBSET (0 .. (n + 1) - 1) /\ n + 1 \in Nat /\ I \subseteq 1 .. n
    BY <1>1
<1>4. \A m \in 1 .. n : m \in I <=> t.ea[L[m]].val # Nil
    BY <1>1
<1>. HIDE DEF I
<1>5. Lists(J, c, I) /\ c \in Nat
    BY <1>3, ListIs, SlotsFinite
<1>. HIDE DEF J, c
<1>. DEFINE K == [m \in 1 .. c |-> L[J[m]]]
<1>6. ASSUME NEW m \in 1 .. c PROVE J[m] \in 1 .. n /\ J[m] \in I /\ L[J[m]] \in Active(u)
  <2>1. J[m] \in I /\ J[m] \in 1 .. n
      BY <1>3, <1>5 DEF Lists
  <2>2. L[J[m]] \in Active(t)
      BY <1>1, <2>1 DEF Lists
  <2>. QED BY <1>4, <2>1, <2>2
<1>7. K \in [1 .. c -> Active(u)]
    BY <1>6
<1>8. ASSUME NEW l \in 1 .. c, NEW m \in 1 .. c, l < m PROVE K[l] < K[m]
  <2>1. J[l] < J[m]
      BY <1>5, <1>8 DEF Lists
  <2>2. J[l] \in 1 .. n /\ J[m] \in 1 .. n
      BY <1>6
  <2>. QED BY <1>1, <2>1, <2>2 DEF Lists
<1>9. ASSUME NEW i \in Active(u) PROVE \E m \in 1 .. c : K[m] = i
  <2>1. PICK p \in 1 .. n : L[p] = i
      BY <1>1, <1>9 DEF Lists
  <2>2. p \in I
      BY <1>4, <1>9, <2>1
  <2>3. PICK m \in 1 .. c : J[m] = p
      BY <1>5, <2>2 DEF Lists
  <2>. QED BY <2>1, <2>3
<1>10. Lists(K, c, Active(u))
  <2>. HIDE DEF K
  <2>. QED BY <1>7, <1>8, <1>9 DEF Lists
<1>11. PairsOf(u) = [m \in 1 .. c |-> u.ea[K[m]]]
  <2>. HIDE DEF K
  <2>1. c \in Nat
      BY <1>5
  <2>. QED BY ONLY Shape(u), <1>10, <2>1, PairsFrom
<1>12. \A m \in 1 .. c : u.ea[K[m]] = q[J[m]]
    BY <1>1, <1>6
<1>13. PairsOf(u) = KeptPairs(q, I)
    BY <1>11, <1>12 DEF KeptPairs, J, c
<1>. QED BY <1>13 DEF q, I

-----------------------------------------------------------------------------
(* Rehash: what the walk makes of the pairs s.                             *)

\* The pairs among the first m that have the content of the i-th, those that
\* are the first of their content, and the last of a content
Twins(s, m, i) == {j \in 1 .. m : content[s[j].key] = content[s[i].key]}
Heads(s, m) == {i \in 1 .. m : \A j \in Twins(s, m, i) : i <= j}
LastTwin(s, m, i) == CHOOSE j \in Twins(s, m, i) : \A l \in Twins(s, m, i) : l <= j

\* After m turns, the first w slots of the array e hold a pair for every
\* content, with the first key and the last value; the rest is as it was.
WalkedPairs(e, w, s, L, m) ==
    /\ \E H : /\ Lists(H, w, Heads(s, m))
              /\ \A p \in 1 .. w : \E j \in Twins(s, m, H[p]) :
                    /\ \A l \in Twins(s, m, H[p]) : l <= j
                    /\ e[p - 1] = [key |-> s[H[p]].key, val |-> s[j].val]
    /\ \A l \in m + 1 .. Len(s) : e[L[l]] = s[l]

LEMMA HeadExists ==
    ASSUME NEW s, NEW m \in Nat, NEW i \in 1 .. m
    PROVE  \E g \in Heads(s, m) : content[s[g].key] = content[s[i].key]
<1>1. Twins(s, m, i) \in SUBSET Nat /\ i \in Twins(s, m, i)
    BY DEF Twins
<1>2. PICK g \in Twins(s, m, i) : \A j \in Twins(s, m, i) : g <= j
    BY <1>1, LeastMember
<1>3. Twins(s, m, g) = Twins(s, m, i) /\ g \in 1 .. m /\ content[s[g].key] = content[s[i].key]
    BY <1>2 DEF Twins
<1>4. g \in Heads(s, m)
    BY <1>2, <1>3 DEF Heads
<1>. QED BY <1>3, <1>4

\* The next pair has a content of its own,
LEMMA HeadsNew ==
    ASSUME NEW s, NEW m \in Nat, \A i \in 1 .. m : content[s[i].key] # content[s[m + 1].key]
    PROVE  /\ Heads(s, m + 1) = Heads(s, m) \cup {m + 1} /\ Twins(s, m + 1, m + 1) = {m + 1}
           /\ \A i \in 1 .. m : Twins(s, m + 1, i) = Twins(s, m, i)
<1>1. 1 .. m + 1 = (1 .. m) \cup {m + 1} /\ m + 1 \notin 1 .. m
    OBVIOUS
<1>2. Twins(s, m + 1, m + 1) = {m + 1}
    BY <1>1 DEF Twins
<1>3. \A i \in 1 .. m : Twins(s, m + 1, i) = Twins(s, m, i)
    BY <1>1 DEF Twins
<1>4. m + 1 \in Heads(s, m + 1)
    BY <1>1, <1>2 DEF Heads
<1>5. \A i \in 1 .. m : i \in Heads(s, m + 1) <=> i \in Heads(s, m)
    BY <1>1, <1>3 DEF Heads
<1>6. Heads(s, m + 1) \subseteq 1 .. m + 1 /\ Heads(s, m) \subseteq 1 .. m
    BY DEF Heads
<1>7. Heads(s, m + 1) = Heads(s, m) \cup {m + 1}
    BY <1>1, <1>4, <1>5, <1>6
<1>. QED BY <1>2, <1>3, <1>7

\* or that of a pair before it.
LEMMA HeadsOld ==
    ASSUME NEW s, NEW m \in Nat, NEW g \in 1 .. m, content[s[g].key] = content[s[m + 1].key]
    PROVE  /\ Heads(s, m + 1) = Heads(s, m)
           /\ \A i \in 1 .. m : Twins(s, m + 1, i) = IF content[s[i].key] = content[s[m + 1].key]
                                                     THEN Twins(s, m, i) \cup {m + 1} ELSE Twins(s, m, i)
<1>1. 1 .. m + 1 = (1 .. m) \cup {m + 1} /\ m + 1 \notin 1 .. m
    OBVIOUS
<1>2. \A i \in 1 .. m : Twins(s, m + 1, i) = IF content[s[i].key] = content[s[m + 1].key]
                                             THEN Twins(s, m, i) \cup {m + 1} ELSE Twins(s, m, i)
    BY <1>1 DEF Twins
<1>3. m + 1 \notin Heads(s, m + 1)
  <2>1. g \in Twins(s, m + 1, m + 1) /\ ~(m + 1 <= g)
      BY <1>1 DEF Twins
  <2>. QED BY <2>1 DEF Heads
<1>4. \A i \in 1 .. m : i <= m + 1
    OBVIOUS
<1>5. ASSUME NEW i \in 1 .. m PROVE i \in Heads(s, m + 1) <=> i \in Heads(s, m)
  <2>1. CASE content[s[i].key] = content[s[m + 1].key]
    <3>1. Twins(s, m + 1, i) = Twins(s, m, i) \cup {m + 1}
        BY <1>2, <2>1
    <3>. QED BY <1>1, <1>4, <3>1 DEF Heads
  <2>2. CASE content[s[i].key] # content[s[m + 1].key]
    <3>1. Twins(s, m + 1, i) = Twins(s, m, i)
        BY <1>2, <2>2
    <3>. QED BY <1>1, <3>1 DEF Heads
  <2>. QED BY <2>1, <2>2
<1>6. Heads(s, m + 1) \subseteq 1 .. m + 1 /\ Heads(s, m) \subseteq 1 .. m
    BY DEF Heads
<1>7. Heads(s, m + 1) = Heads(s, m)
    BY <1>1, <1>3, <1>5, <1>6
<1>. QED BY <1>2, <1>7

\* A turn that moves the entry to slot w
LEMMA WalkMoves ==
    ASSUME NEW s \in Seq(Map!Pair), NEW m \in Nat, m + 1 <= Len(s), NEW w \in Nat, NEW L, NEW e, NEW f,
           WalkedPairs(e, w, s, L, m), f[w] = s[m + 1], \A x \in 0 .. w - 1 : f[x] = e[x],
           \A l \in m + 2 .. Len(s) : f[L[l]] = e[L[l]],
           \A x \in 0 .. w - 1 : content[e[x].key] # content[s[m + 1].key]
    PROVE  WalkedPairs(f, w + 1, s, L, m + 1)
<1>1. PICK H : /\ Lists(H, w, Heads(s, m))
               /\ \A p \in 1 .. w : \E j \in Twins(s, m, H[p]) :
                    /\ \A l \in Twins(s, m, H[p]) : l <= j
                    /\ e[p - 1] = [key |-> s[H[p]].key, val |-> s[j].val]
    BY DEF WalkedPairs
<1>2. Heads(s, m) \subseteq 1 .. m
    BY DEF Heads
<1>3. \A p \in 1 .. w : p - 1 \in 0 .. w - 1 /\ H[p] \in Heads(s, m) /\ H[p] \in 1 .. m
    BY <1>1, <1>2 DEF Lists
<1>4. \A i \in 1 .. m : content[s[i].key] # content[s[m + 1].key]
  <2>. SUFFICES ASSUME NEW i \in 1 .. m, content[s[i].key] = content[s[m + 1].key] PROVE FALSE
      OBVIOUS
  <2>1. PICK g \in Heads(s, m) : content[s[g].key] = content[s[i].key]
      BY HeadExists
  <2>2. PICK p \in 1 .. w : H[p] = g
      BY <1>1 DEF Lists
  <2>3. PICK j \in Twins(s, m, H[p]) : e[p - 1] = [key |-> s[H[p]].key, val |-> s[j].val]
      BY <1>1
  <2>4. e[p - 1].key = s[g].key
      BY <2>2, <2>3
  <2>. QED BY <1>3, <2>1, <2>2, <2>4
<1>5. /\ Heads(s, m + 1) = Heads(s, m) \cup {m + 1} /\ Twins(s, m + 1, m + 1) = {m + 1}
      /\ \A i \in 1 .. m : Twins(s, m + 1, i) = Twins(s, m, i)
    BY <1>4, HeadsNew
<1>. DEFINE G == [p \in 1 .. w + 1 |-> IF p <= w THEN H[p] ELSE m + 1]
<1>6. \A p \in 1 .. w : p \in 1 .. w + 1 /\ G[p] = H[p]
    OBVIOUS
<1>7. G[w + 1] = m + 1 /\ w + 1 \in 1 .. w + 1 /\ \A p \in 1 .. w + 1 : p \in 1 .. w \/ p = w + 1
    OBVIOUS
<1>8. G \in [1 .. w + 1 -> Heads(s, m + 1)]
    BY <1>3, <1>5
<1>. HIDE DEF G
<1>9. Lists(G, w + 1, Heads(s, m + 1))
  <2>1. ASSUME NEW p \in 1 .. w + 1, NEW q \in 1 .. w + 1, p < q PROVE G[p] < G[q]
    <3>1. p \in 1 .. w
        BY <2>1
    <3>2. CASE q \in 1 .. w
        BY <1>1, <1>6, <2>1, <3>1, <3>2 DEF Lists
    <3>3. CASE q = w + 1
        BY <1>3, <1>6, <1>7, <3>1, <3>3
    <3>. QED BY <1>7, <3>2, <3>3
  <2>2. ASSUME NEW i \in Heads(s, m + 1) PROVE \E p \in 1 .. w + 1 : G[p] = i
      BY <1>1, <1>5, <1>6, <1>7, ZenonT(60) DEF Lists
  <2>. QED BY <1>8, <2>1, <2>2 DEF Lists
<1>10. ASSUME NEW p \in 1 .. w + 1
       PROVE  \E j \in Twins(s, m + 1, G[p]) : /\ \A l \in Twins(s, m + 1, G[p]) : l <= j
                                               /\ f[p - 1] = [key |-> s[G[p]].key, val |-> s[j].val]
  <2>1. CASE p \in 1 .. w
    <3>1. PICK j \in Twins(s, m, H[p]) : /\ \A l \in Twins(s, m, H[p]) : l <= j
                                         /\ e[p - 1] = [key |-> s[H[p]].key, val |-> s[j].val]
        BY <1>1, <2>1
    <3>2. G[p] = H[p] /\ Twins(s, m + 1, G[p]) = Twins(s, m, H[p]) /\ f[p - 1] = e[p - 1]
        BY <1>3, <1>5, <1>6, <2>1
    <3>. QED BY <3>1, <3>2
  <2>2. CASE p = w + 1
    <3>1. G[p] = m + 1 /\ Twins(s, m + 1, G[p]) = {m + 1} /\ f[p - 1] = s[m + 1]
        BY <1>5, <1>7, <2>2
    <3>2. s[m + 1] = [key |-> s[m + 1].key, val |-> s[m + 1].val]
      <4>1. s[m + 1] \in Map!Pair
          OBVIOUS
      <4>. QED BY <4>1 DEF Map!Pair
    <3>3. m + 1 <= m + 1
        OBVIOUS
    <3>. QED BY <3>1, <3>2, <3>3
  <2>. QED BY <1>7, <2>1, <2>2
<1>11. \A l \in (m + 1) + 1 .. Len(s) : f[L[l]] = s[l]
  <2>1. \A l \in (m + 1) + 1 .. Len(s) : l \in m + 2 .. Len(s) /\ l \in m + 1 .. Len(s)
      OBVIOUS
  <2>2. \A l \in m + 1 .. Len(s) : e[L[l]] = s[l]
      BY DEF WalkedPairs
  <2>. QED BY <2>1, <2>2
<1>. QED BY <1>9, <1>10, <1>11 DEF WalkedPairs

\* A turn that merges the entry into slot x
LEMMA WalkMerges ==
    ASSUME NEW s \in Seq(Map!Pair), NEW m \in Nat, m + 1 <= Len(s), NEW w \in Nat, NEW L, NEW e, NEW f,
           WalkedPairs(e, w, s, L, m), NEW x \in 0 .. w - 1, content[e[x].key] = content[s[m + 1].key],
           f[x] = [key |-> e[x].key, val |-> s[m + 1].val], \A y \in 0 .. w - 1 : y # x => f[y] = e[y],
           \A l \in m + 2 .. Len(s) : f[L[l]] = e[L[l]]
    PROVE  WalkedPairs(f, w, s, L, m + 1)
<1>1. PICK H : /\ Lists(H, w, Heads(s, m))
               /\ \A p \in 1 .. w : \E j \in Twins(s, m, H[p]) :
                    /\ \A l \in Twins(s, m, H[p]) : l <= j
                    /\ e[p - 1] = [key |-> s[H[p]].key, val |-> s[j].val]
    BY DEF WalkedPairs
<1>2. Heads(s, m) \subseteq 1 .. m
    BY DEF Heads
<1>3. \A p \in 1 .. w : p - 1 \in 0 .. w - 1 /\ H[p] \in Heads(s, m) /\ H[p] \in 1 .. m /\ e[p - 1].key = s[H[p]].key
  <2>. SUFFICES ASSUME NEW p \in 1 .. w
                PROVE  p - 1 \in 0 .. w - 1 /\ H[p] \in Heads(s, m) /\ H[p] \in 1 .. m /\ e[p - 1].key = s[H[p]].key
      OBVIOUS
  <2>1. p - 1 \in 0 .. w - 1 /\ H[p] \in Heads(s, m) /\ H[p] \in 1 .. m
      BY <1>1, <1>2 DEF Lists
  <2>2. PICK j \in Twins(s, m, H[p]) : e[p - 1] = [key |-> s[H[p]].key, val |-> s[j].val]
      BY <1>1
  <2>. QED BY <2>1, <2>2
<1>4. x + 1 \in 1 .. w /\ (x + 1) - 1 = x
    OBVIOUS
<1>5. PICK g \in 1 .. m : g = H[x + 1] /\ g \in Heads(s, m) /\ content[s[g].key] = content[s[m + 1].key]
  <2>1. e[x].key = s[H[x + 1]].key /\ H[x + 1] \in Heads(s, m) /\ H[x + 1] \in 1 .. m
    <3>1. PICK p \in 1 .. w : p = x + 1 /\ p - 1 = x
        BY <1>4
    <3>. QED BY <1>3, <3>1
  <2>2. content[s[H[x + 1]].key] = content[s[m + 1].key]
      BY <2>1
  <2>. QED BY <2>1, <2>2, Zenon
<1>6. /\ Heads(s, m + 1) = Heads(s, m)
      /\ \A i \in 1 .. m : Twins(s, m + 1, i) = IF content[s[i].key] = content[s[m + 1].key]
                                                THEN Twins(s, m, i) \cup {m + 1} ELSE Twins(s, m, i)
    BY <1>5, HeadsOld
<1>7. \A i \in Heads(s, m) : content[s[i].key] = content[s[m + 1].key] => i = g
  <2>. SUFFICES ASSUME NEW i \in Heads(s, m), content[s[i].key] = content[s[m + 1].key] PROVE i = g
      OBVIOUS
  <2>1. i \in 1 .. m /\ i \in Twins(s, m, g) /\ g \in Twins(s, m, i)
      BY <1>2, <1>5 DEF Twins
  <2>2. i <= g /\ g <= i
      BY <1>5, <2>1 DEF Heads
  <2>. QED BY <2>1, <2>2
<1>8. Lists(H, w, Heads(s, m + 1))
    BY <1>1, <1>6
<1>9. ASSUME NEW p \in 1 .. w
      PROVE  \E j \in Twins(s, m + 1, H[p]) : /\ \A l \in Twins(s, m + 1, H[p]) : l <= j
                                              /\ f[p - 1] = [key |-> s[H[p]].key, val |-> s[j].val]
  <2>1. PICK j \in Twins(s, m, H[p]) : /\ \A l \in Twins(s, m, H[p]) : l <= j
                                       /\ e[p - 1] = [key |-> s[H[p]].key, val |-> s[j].val]
      BY <1>1
  <2>2. CASE p = x + 1
    <3>1. H[p] = g /\ Twins(s, m + 1, H[p]) = Twins(s, m, g) \cup {m + 1}
        BY <1>5, <1>6, <2>2
    <3>2. \A l \in Twins(s, m, g) \cup {m + 1} : l <= m + 1
        BY DEF Twins
    <3>3. f[p - 1] = [key |-> s[H[p]].key, val |-> s[m + 1].val]
        BY <1>3, <1>4, <2>2
    <3>. QED BY <3>1, <3>2, <3>3
  <2>3. CASE p # x + 1
    <3>1. p - 1 # x
        BY <2>3
    <3>2. f[p - 1] = e[p - 1]
        BY <1>3, <3>1
    <3>3. H[p] # g
      <4>1. SUFFICES ASSUME H[p] = H[x + 1] PROVE FALSE
          BY <1>5
      <4>2. Heads(s, m) \in SUBSET Nat /\ Lists(H, w, Heads(s, m))
          BY <1>1, <1>2
      <4>3. p = x + 1
          BY ONLY <1>4, <4>1, <4>2, w \in Nat, p \in 1 .. w, ListsOnce
      <4>. QED BY <2>3, <4>3
    <3>4. Twins(s, m + 1, H[p]) = Twins(s, m, H[p])
        BY <1>3, <1>6, <1>7, <3>3
    <3>. QED BY <2>1, <3>2, <3>4
  <2>. QED BY <2>2, <2>3
<1>10. \A l \in (m + 1) + 1 .. Len(s) : f[L[l]] = s[l]
  <2>1. \A l \in (m + 1) + 1 .. Len(s) : l \in m + 2 .. Len(s) /\ l \in m + 1 .. Len(s)
      OBVIOUS
  <2>2. \A l \in m + 1 .. Len(s) : e[L[l]] = s[l]
      BY DEF WalkedPairs
  <2>. QED BY <2>1, <2>2
<1>. QED BY <1>8, <1>9, <1>10 DEF WalkedPairs

\* What the walk takes for a twin has the content of the entry.
LEMMA TwinSame ==
    ASSUME content \in [Key -> Key], NEW r, NEW t, NEW w \in Nat, NEW R \in SUBSET Nat, Midway(r, w, R, t), NEW i \in R,
           NEW j \in Twin(r, i, w)
    PROVE  content[r.ea[j].key] = content[r.ea[i].key]
<1>1. /\ Shape(r) /\ Active(r) = (0 .. w - 1) \cup R /\ (\A l \in R : w <= l)
      /\ r.ht => Index(r, w)
    BY DEF Midway
<1>2. PICK k \in Key : k = r.ea[i].key
    BY <1>1, ActiveFacts
<1>3. r.ht \in BOOLEAN /\ r.capa \in Nat /\ r.bit \in Nat
    BY <1>1 DEF Shape
<1>4. CASE ~r.ht
    BY <1>4 DEF Twin, ea_get_by_key, Eql
<1>5. CASE r.ht
  <2>1. w <= r.capa
    <3>1. i \in Nat /\ i < r.capa /\ w <= i
        BY <1>1, ActiveFacts
    <3>. QED BY <1>3, <3>1
  <2>2. Found(r, k) /\ j = Bucket(r, k, Min(Hits(r, k)))
      BY <1>2, <1>5 DEF Twin
  <2>3. Min(Hits(r, k)) \in Hits(r, k)
      BY <1>3, <2>2, FoundHits, FirstHit
  <2>4. content[k] = content[r.ea[j].key]
      BY <1>1, <1>5, <2>1, <2>2, <2>3, HitFacts
  <2>. QED BY <1>2, <2>4
<1>. QED BY <1>3, <1>4, <1>5

LEMMA WalkStepPairs ==
    ASSUME content \in [Key -> Key], NEW r, NEW t, NEW w \in Nat, NEW R \in SUBSET Nat, Midway(r, w, R, t),
           NEW s \in Seq(Map!Pair), NEW m \in Nat, m + 1 <= Len(s), NEW L, NEW i \in R, i = L[m + 1],
           \A l \in m + 2 .. Len(s) : L[l] \in R /\ i < L[l], WalkedPairs(r.ea, w, s, L, m)
    PROVE  LET twin == Twin(r, i, w)
           IN  WalkedPairs(WalkEntry(r, i, w, twin).ea, IF twin = {} THEN w + 1 ELSE w, s, L, m + 1)
<1>. DEFINE twin == Twin(r, i, w)
            u == WalkEntry(r, i, w, twin)
<1>1. twin \subseteq 0 .. w - 1 /\ (twin = {} => \A j \in 0 .. w - 1 : content[r.ea[j].key] # content[r.ea[i].key])
    BY ONLY content \in [Key -> Key], w \in Nat, R \in SUBSET Nat, Midway(r, w, R, t), i \in R, TwinFacts
<1>2. \A j \in twin : content[r.ea[j].key] = content[r.ea[i].key]
    BY ONLY content \in [Key -> Key], w \in Nat, R \in SUBSET Nat, Midway(r, w, R, t), i \in R, TwinSame
<1>3. /\ Shape(r) /\ Active(r) = (0 .. w - 1) \cup R /\ (\A l \in R : w <= l) /\ r.size = Cardinality(Active(r))
    BY DEF Midway
<1>4. /\ r.capa \in Nat /\ r.ea \in [0 .. r.capa - 1 -> Slot] /\ DOMAIN r = Fields
      /\ \A x \in Active(r) : x \in 0 .. r.capa - 1 /\ r.ea[x] \in Slot /\ r.ea[x] # Vacant
    BY <1>3, ActiveFacts DEF Shape, Slots
<1>5. i \in Nat /\ w <= i /\ i \in 0 .. r.capa - 1 /\ w \in 0 .. r.capa - 1
    BY <1>3, <1>4
<1>6. r.ea[i] = s[m + 1]
  <2>1. m + 1 \in m + 1 .. Len(s)
      OBVIOUS
  <2>. QED BY <2>1 DEF WalkedPairs
<1>7. \A x \in 0 .. w - 1 : x \in 0 .. r.capa - 1 /\ x # i /\ x # w
    BY <1>3, <1>4, <1>5
<1>8. \A l \in m + 2 .. Len(s) : L[l] \in 0 .. r.capa - 1 /\ L[l] # i /\ L[l] # w /\ L[l] \notin 0 .. w - 1
  <2>. SUFFICES ASSUME NEW l \in m + 2 .. Len(s)
                PROVE  L[l] \in 0 .. r.capa - 1 /\ L[l] # i /\ L[l] # w /\ L[l] \notin 0 .. w - 1
      OBVIOUS
  <2>1. L[l] \in R /\ i < L[l] /\ L[l] \in Nat
      OBVIOUS
  <2>2. L[l] \in 0 .. r.capa - 1
      BY <1>3, <1>4, <2>1
  <2>. QED BY <1>5, <2>1, <2>2
<1>. HIDE DEF twin
<1>9. CASE twin = {}
  <2>. DEFINE f == [r.ea EXCEPT ![i] = Vacant, ![w] = r.ea[i]]
  <2>1. u = [r EXCEPT !.ea = f, !.ib = IF r.ht THEN IndexEntry([r EXCEPT !.ea = f], w).ib ELSE r.ib]
      BY <1>9 DEF WalkEntry
  <2>2. f[w] = s[m + 1] /\ \A x \in 0 .. r.capa - 1 : x # i /\ x # w => f[x] = r.ea[x]
      BY <1>4, <1>5, <1>6
  <2>. HIDE DEF f
  <2>3. u.ea = f
      BY <1>4, <2>1 DEF Fields
  <2>4. \A x \in 0 .. w - 1 : f[x] = r.ea[x]
      BY <1>7, <2>2
  <2>5. \A l \in m + 2 .. Len(s) : f[L[l]] = r.ea[L[l]]
      BY <1>8, <2>2
  <2>6. \A x \in 0 .. w - 1 : content[r.ea[x].key] # content[s[m + 1].key]
      BY <1>1, <1>6, <1>9
  <2>7. PICK e : e = r.ea
      OBVIOUS
  <2>8. WalkedPairs(e, w, s, L, m) /\ f[w] = s[m + 1] /\ (\A x \in 0 .. w - 1 : f[x] = e[x])
        /\ (\A l \in m + 2 .. Len(s) : f[L[l]] = e[L[l]])
        /\ \A x \in 0 .. w - 1 : content[e[x].key] # content[s[m + 1].key]
      BY <2>2, <2>4, <2>5, <2>6, <2>7
  <2>9. WalkedPairs(f, w + 1, s, L, m + 1)
      BY ONLY s \in Seq(Map!Pair), m \in Nat, m + 1 <= Len(s), w \in Nat, <2>8, WalkMoves
  <2>. HIDE DEF u
  <2>10. WalkedPairs(u.ea, IF twin = {} THEN w + 1 ELSE w, s, L, m + 1)
      BY <1>9, <2>3, <2>9
  <2>. QED BY <2>10 DEF u, twin
<1>10. CASE twin # {}
  <2>1. PICK x \in 0 .. w - 1 : x = Min(twin) /\ x \in twin
    <3>1. twin \in SUBSET Nat
        BY <1>1
    <3>. QED BY <1>1, <1>10, <3>1, MinFacts
  <2>. DEFINE v == r.ea[i].val
              q == [r EXCEPT !.ea[x].val = v]
              f == [[r.ea EXCEPT ![x].val = v] EXCEPT ![i] = Vacant]
  <2>2. u = Drop(q, i)
      BY <1>10, <2>1 DEF WalkEntry
  <2>3. u.ea = f
      BY <1>4, <2>2 DEF Drop, Fields
  <2>4. x \in 0 .. r.capa - 1 /\ x # i /\ x \in Active(r)
      BY <1>3, <1>7
  <2>5. \A y \in 0 .. r.capa - 1 : y # i /\ y # x => f[y] = r.ea[y]
      BY <1>4
  <2>6. r.ea[x] \in [key : Key, val : Val]
    <3>1. r.ea[x] \in Slot /\ r.ea[x] # Vacant
        BY <1>4, <2>4
    <3>. QED BY <3>1 DEF Slot
  <2>7. f[x] = [key |-> r.ea[x].key, val |-> v]
    <3>1. f[x] = [r.ea[x] EXCEPT !.val = v]
        BY <1>4, <1>5, <2>4
    <3>. QED BY <2>6, <3>1
  <2>8. v = s[m + 1].val
      BY <1>6
  <2>. HIDE DEF f, v
  <2>9. \A y \in 0 .. w - 1 : y # x => f[y] = r.ea[y]
      BY <1>7, <2>5
  <2>10. \A l \in m + 2 .. Len(s) : f[L[l]] = r.ea[L[l]]
      BY <1>8, <2>5
  <2>11. content[r.ea[x].key] = content[s[m + 1].key]
      BY <1>2, <1>6, <2>1
  <2>12. PICK e : e = r.ea
      OBVIOUS
  <2>13. WalkedPairs(e, w, s, L, m) /\ x \in 0 .. w - 1 /\ content[e[x].key] = content[s[m + 1].key]
         /\ f[x] = [key |-> e[x].key, val |-> s[m + 1].val] /\ (\A y \in 0 .. w - 1 : y # x => f[y] = e[y])
         /\ (\A l \in m + 2 .. Len(s) : f[L[l]] = e[L[l]])
      BY <2>7, <2>8, <2>9, <2>10, <2>11, <2>12
  <2>14. WalkedPairs(f, w, s, L, m + 1)
      BY ONLY s \in Seq(Map!Pair), m \in Nat, m + 1 <= Len(s), w \in Nat, <2>13, WalkMerges
  <2>. HIDE DEF u
  <2>15. WalkedPairs(u.ea, IF twin = {} THEN w + 1 ELSE w, s, L, m + 1)
      BY <1>10, <2>3, <2>14
  <2>. QED BY <2>15 DEF u, twin
<1>. QED BY <1>9, <1>10

\* The walk, turn by turn
LEMMA WalkedIs ==
    ASSUME content \in [Key -> Key], NEW t, Shape(t), t.size = Cardinality(Active(t)), NEW n \in Nat, n <= t.size,
           t.ht => Index(t, 0) /\ Reachable(t, 0) /\ t.size <= DeletedValue(t),
           NEW d, Walked(d, t, ActiveList(t), n)
    PROVE  \A m \in 0 .. n : WalkedPairs(d[m].t.ea, d[m].w, PairsOf(t), ActiveList(t), m)
<1>. DEFINE L == ActiveList(t)
            s == PairsOf(t)
            S == {m \in Nat : m <= n => WalkedPairs(d[m].t.ea, d[m].w, s, L, m)}
<1>1. t.size \in Nat /\ Lists(L, t.size, Active(t)) /\ s = [m \in 1 .. t.size |-> t.ea[L[m]]]
      /\ s \in Seq(Map!Pair) /\ Len(s) = t.size
    BY ListOf
<1>2. Active(t) \in SUBSET Nat
    BY ActiveFacts
<1>3. \A m \in 0 .. n : d[m].w \in Nat /\ d[m].w <= m /\ Midway(d[m].t, d[m].w, Rest(t, m), t)
    BY WalkedFacts
<1>4. \A m : Rest(t, m) = {L[l] : l \in m + 1 .. t.size}
    BY DEF Rest
<1>5. Walked(d, t, L, n)
    OBVIOUS
<1>. HIDE DEF L, s
<1>6. 0 \in S
  <2>1. d[0] = [t |-> t, w |-> 0]
      BY <1>5 DEF Walked
  <2>2. d[0].t = t /\ d[0].w = 0
      BY <2>1
  <2>3. Heads(s, 0) = {}
      BY DEF Heads
  <2>4. PICK H : H \in [1 .. 0 -> {}]
    <3>1. [x \in 1 .. 0 |-> x] \in [1 .. 0 -> {}]
        OBVIOUS
    <3>. QED BY <3>1
  <2>5. Lists(H, 0, Heads(s, 0))
      BY <2>3, <2>4 DEF Lists
  <2>6. \A l \in 0 + 1 .. Len(s) : t.ea[L[l]] = s[l]
      BY <1>1
  <2>7. WalkedPairs(t.ea, 0, s, L, 0)
    <3>1. 1 .. 0 = {}
        OBVIOUS
    <3>. QED BY <2>5, <2>6, <3>1 DEF WalkedPairs
  <2>. QED BY <2>2, <2>7
<1>7. ASSUME NEW m \in Nat, m \in S PROVE m + 1 \in S
  <2>. SUFFICES ASSUME m + 1 <= n PROVE WalkedPairs(d[m + 1].t.ea, d[m + 1].w, s, L, m + 1)
      OBVIOUS
  <2>1. m \in 0 .. n /\ m <= n /\ m + 1 <= Len(s) /\ m + 1 \in 1 .. t.size
      BY <1>1
  <2>2. PICK r : r = d[m].t
      OBVIOUS
  <2>3. PICK R \in SUBSET Nat : R = Rest(t, m)
    <3>1. \A l \in m + 1 .. t.size : L[l] \in Nat
      <4>1. \A l \in m + 1 .. t.size : l \in 1 .. t.size
          BY <1>1
      <4>. QED BY <1>1, <1>2, <4>1 DEF Lists
    <3>. QED BY <1>4, <3>1
  <2>4. PICK w \in Nat : w = d[m].w /\ Midway(r, w, R, t) /\ WalkedPairs(r.ea, w, s, L, m)
      BY <1>3, <1>7, <2>1, <2>2, <2>3
  <2>5. PICK i \in R : i = L[m + 1]
    <3>1. m + 1 \in m + 1 .. t.size
        BY <1>1, <2>1
    <3>. QED BY <1>4, <2>3, <3>1
  <2>6. d[m + 1] = WalkStep(L, d[m], m + 1)
    <3>1. PICK j \in 0 .. n : j = m + 1 /\ j # 0 /\ j - 1 = m
        OBVIOUS
    <3>2. d[j] = WalkStep(L, d[j - 1], j)
        BY <1>5, <3>1 DEF Walked
    <3>. QED BY <3>1, <3>2
  <2>7. d[m + 1] = [t |-> WalkEntry(r, i, w, Twin(r, i, w)), w |-> IF Twin(r, i, w) = {} THEN w + 1 ELSE w]
      BY <2>2, <2>4, <2>5, <2>6 DEF WalkStep
  <2>8. d[m + 1].t = WalkEntry(r, i, w, Twin(r, i, w)) /\ d[m + 1].w = IF Twin(r, i, w) = {} THEN w + 1 ELSE w
      BY <2>7
  <2>9. \A l \in m + 2 .. Len(s) : L[l] \in R /\ i < L[l]
    <3>. SUFFICES ASSUME NEW l \in m + 2 .. Len(s) PROVE L[l] \in R /\ i < L[l]
        OBVIOUS
    <3>1. l \in m + 1 .. t.size /\ l \in 1 .. t.size /\ m + 1 < l
        BY <1>1
    <3>2. L[l] \in R
        BY <1>4, <2>3, <3>1
    <3>3. L[m + 1] < L[l]
        BY <1>1, <2>1, <3>1 DEF Lists
    <3>. QED BY <2>5, <3>2, <3>3
  <2>10. WalkedPairs(WalkEntry(r, i, w, Twin(r, i, w)).ea, IF Twin(r, i, w) = {} THEN w + 1 ELSE w, s, L, m + 1)
      BY <1>1, <2>1, <2>4, <2>5, <2>9, WalkStepPairs
  <2>. QED BY <2>8, <2>10
<1>. HIDE DEF S
<1>8. \A m \in Nat : m \in S
    BY <1>6, <1>7, InductionInSet
<1>. QED BY <1>8 DEF S, s, L

\* The pairs of one content among the first n as one, and the others
MergedFront(s, n) ==
    [m \in 1 .. Cardinality(Heads(s, n)) |->
        [key |-> s[InOrder(Heads(s, n))[m]].key, val |-> s[LastTwin(s, n, InOrder(Heads(s, n))[m])].val]]
MergedPairs(s, n) == MergedFront(s, n) \o SubSeq(s, n + 1, Len(s))

LEMMA WrittenPairs ==
    ASSUME NEW s, NEW n \in Nat, NEW w \in Nat, NEW e, NEW L, WalkedPairs(e, w, s, L, n)
    PROVE  MergedFront(s, n) = [m \in 1 .. w |-> e[m - 1]]
<1>1. PICK H : /\ Lists(H, w, Heads(s, n))
               /\ \A p \in 1 .. w : \E j \in Twins(s, n, H[p]) :
                    /\ \A l \in Twins(s, n, H[p]) : l <= j
                    /\ e[p - 1] = [key |-> s[H[p]].key, val |-> s[j].val]
    BY DEF WalkedPairs
<1>2. Below(Heads(s, n), n + 1) /\ n + 1 \in Nat
    BY DEF Heads, Below
<1>3. w = Cardinality(Heads(s, n)) /\ \A m \in 1 .. w : InOrder(Heads(s, n))[m] = H[m]
    BY <1>1, <1>2, OneList
<1>4. ASSUME NEW m \in 1 .. w PROVE [key |-> s[H[m]].key, val |-> s[LastTwin(s, n, H[m])].val] = e[m - 1]
  <2>1. PICK j \in Twins(s, n, H[m]) : /\ \A l \in Twins(s, n, H[m]) : l <= j
                                       /\ e[m - 1] = [key |-> s[H[m]].key, val |-> s[j].val]
      BY <1>1
  <2>2. Twins(s, n, H[m]) \subseteq Nat
      BY DEF Twins
  <2>3. LastTwin(s, n, H[m]) = j
    <3>1. \A l \in Twins(s, n, H[m]) : (\A x \in Twins(s, n, H[m]) : x <= l) => l = j
      <4>. SUFFICES ASSUME NEW l \in Twins(s, n, H[m]), \A x \in Twins(s, n, H[m]) : x <= l PROVE l = j
          OBVIOUS
      <4>1. l <= j /\ j <= l /\ l \in Nat /\ j \in Nat
          BY <2>1, <2>2
      <4>. QED BY <4>1
    <3>. QED BY <2>1, <3>1 DEF LastTwin
  <2>. QED BY <2>1, <2>3
<1>. QED BY <1>3, <1>4 DEF MergedFront

LEMMA WalkPairs ==
    ASSUME content \in [Key -> Key], NEW t, Shape(t), t.size = Cardinality(Active(t)), NEW n \in Nat, n <= t.size,
           t.ht => Index(t, 0) /\ Reachable(t, 0) /\ t.size <= DeletedValue(t)
    PROVE  PairsOf(Walk(t, n)) = MergedPairs(PairsOf(t), n)
<1>. DEFINE L == ActiveList(t)
            s == PairsOf(t)
<1>1. t.size \in Nat /\ Lists(L, t.size, Active(t)) /\ s \in Seq(Map!Pair) /\ Len(s) = t.size
    BY ListOf
<1>2. Active(t) \in SUBSET Nat
    BY ActiveFacts
<1>3. PICK d : Walked(d, t, L, n) /\ Walk(t, n) = d[n].t
    BY WalkIs
<1>4. PICK r : r = Walk(t, n) /\ r = d[n].t
    BY <1>3
<1>5. n \in 0 .. n
    OBVIOUS
<1>6. PICK w \in Nat : w = d[n].w /\ Midway(r, w, Rest(t, n), t)
    BY <1>3, <1>4, <1>5, WalkedFacts
<1>7. WalkedPairs(r.ea, w, s, L, n)
    BY <1>3, <1>4, <1>5, <1>6, WalkedIs
<1>8. Rest(t, n) = {L[l] : l \in n + 1 .. t.size}
    BY DEF Rest
<1>9. Shape(r) /\ Active(r) = (0 .. w - 1) \cup Rest(t, n) /\ \A j \in Rest(t, n) : w <= j
    BY <1>6 DEF Midway
<1>. HIDE DEF L, s
<1>10. PICK c \in Nat : c = t.size - n
    BY <1>1
<1>. DEFINE K == [p \in 1 .. w + c |-> IF p <= w THEN p - 1 ELSE L[n + (p - w)]]
<1>11. \A p \in 1 .. w : p \in 1 .. w + c /\ K[p] = p - 1 /\ K[p] \in 0 .. w - 1
    BY <1>10
<1>12. \A l \in n + 1 .. t.size : /\ l \in 1 .. t.size /\ w + (l - n) \in 1 .. w + c
                                  /\ K[w + (l - n)] = L[l] /\ L[l] \in Rest(t, n) /\ L[l] \in Nat
  <2>. SUFFICES ASSUME NEW l \in n + 1 .. t.size
                PROVE  /\ l \in 1 .. t.size /\ w + (l - n) \in 1 .. w + c
                       /\ K[w + (l - n)] = L[l] /\ L[l] \in Rest(t, n) /\ L[l] \in Nat
      OBVIOUS
  <2>1. l \in 1 .. t.size /\ w + (l - n) \in 1 .. w + c /\ ~(w + (l - n) <= w) /\ n + ((w + (l - n)) - w) = l
      BY <1>1, <1>10
  <2>2. L[l] \in Active(t)
      BY <1>1, <2>1 DEF Lists
  <2>. QED BY <1>2, <1>8, <2>1, <2>2
<1>13. \A p \in 1 .. w + c : p \in 1 .. w \/ \E l \in n + 1 .. t.size : p = w + (l - n)
  <2>. SUFFICES ASSUME NEW p \in 1 .. w + c, p \notin 1 .. w PROVE \E l \in n + 1 .. t.size : p = w + (l - n)
      OBVIOUS
  <2>1. n + (p - w) \in n + 1 .. t.size /\ p = w + ((n + (p - w)) - n)
      BY <1>1, <1>10
  <2>. QED BY <2>1
<1>14. K \in [1 .. w + c -> Active(r)]
  <2>1. ASSUME NEW p \in 1 .. w + c PROVE K[p] \in Active(r)
    <3>. HIDE DEF K
    <3>1. CASE p \in 1 .. w
        BY <1>9, <1>11, <3>1
    <3>2. CASE p \notin 1 .. w
      <4>1. PICK l \in n + 1 .. t.size : p = w + (l - n)
          BY <1>13, <3>2
      <4>. QED BY <1>9, <1>12, <4>1
    <3>. QED BY <3>1, <3>2
  <2>. QED BY <2>1
<1>. HIDE DEF K
<1>15. ASSUME NEW p \in 1 .. w + c, NEW q \in 1 .. w + c, p < q PROVE K[p] < K[q]
  <2>1. CASE q \in 1 .. w
    <3>1. p \in 1 .. w
        BY <1>15, <2>1
    <3>. QED BY <1>11, <1>15, <2>1, <3>1
  <2>2. CASE q \notin 1 .. w
    <3>1. PICK m \in n + 1 .. t.size : q = w + (m - n)
        BY <1>13, <2>2
    <3>2. K[q] = L[m] /\ L[m] \in Rest(t, n) /\ L[m] \in Nat /\ m \in 1 .. t.size
        BY <1>12, <3>1
    <3>3. CASE p \in 1 .. w
      <4>1. K[p] \in 0 .. w - 1 /\ w <= K[q]
          BY <1>9, <1>11, <3>2, <3>3
      <4>. QED BY <3>2, <4>1
    <3>4. CASE p \notin 1 .. w
      <4>1. PICK l \in n + 1 .. t.size : p = w + (l - n)
          BY <1>13, <3>4
      <4>2. K[p] = L[l] /\ l \in 1 .. t.size
          BY <1>12, <4>1
      <4>3. l < m
          BY <1>15, <3>1, <4>1
      <4>. QED BY <1>1, <3>2, <4>2, <4>3 DEF Lists
    <3>. QED BY <3>3, <3>4
  <2>. QED BY <2>1, <2>2
<1>16. ASSUME NEW i \in Active(r) PROVE \E p \in 1 .. w + c : K[p] = i
  <2>1. CASE i \in 0 .. w - 1
    <3>1. i + 1 \in 1 .. w /\ (i + 1) - 1 = i
        BY <2>1
    <3>. QED BY <1>11, <3>1
  <2>2. CASE i \in Rest(t, n)
    <3>1. PICK l \in n + 1 .. t.size : i = L[l]
        BY <1>8, <2>2
    <3>. QED BY <1>12, <3>1
  <2>. QED BY <1>9, <2>1, <2>2
<1>17. Lists(K, w + c, Active(r))
    BY <1>14, <1>15, <1>16 DEF Lists
<1>18. PairsOf(r) = [p \in 1 .. w + c |-> r.ea[K[p]]]
  <2>1. PICK z \in Nat : z = w + c
      OBVIOUS
  <2>2. Lists(K, z, Active(r)) /\ Shape(r)
      BY <1>9, <1>17, <2>1
  <2>. QED BY ONLY z \in Nat, <2>1, <2>2, PairsFrom
<1>19. PairsOf(r) \in Seq(Map!Pair)
    BY <1>9, ListOf
<1>. DEFINE a == [m \in 1 .. w |-> r.ea[m - 1]]
            b == SubSeq(s, n + 1, Len(s))
<1>20. a \in Seq(Map!Pair) /\ Len(a) = w
  <2>1. ASSUME NEW m \in 1 .. w PROVE r.ea[m - 1] \in Map!Pair
    <3>1. PairsOf(r)[m] = r.ea[m - 1] /\ m \in DOMAIN PairsOf(r)
        BY <1>11, <1>18
    <3>. QED BY <1>19, <3>1
  <2>. QED BY <2>1
<1>21. b \in Seq(Map!Pair) /\ Len(b) = c /\ \A l \in 1 .. c : b[l] = s[n + l]
  <2>1. \A l \in n + 1 .. Len(s) : s[l] \in Map!Pair
      BY <1>1
  <2>2. /\ b \in Seq(Map!Pair) /\ Len(b) = IF n + 1 <= Len(s) THEN Len(s) - (n + 1) + 1 ELSE 0
        /\ \A l \in 1 .. Len(s) - (n + 1) + 1 : b[l] = s[(n + 1) + l - 1]
    <3>1. n + 1 \in Int /\ Len(s) \in Int
        BY <1>1
    <3>. QED BY ONLY <2>1, <3>1, SubSeqProperties
  <2>. HIDE DEF b
  <2>3. Len(b) = c /\ 1 .. Len(s) - (n + 1) + 1 = 1 .. c
      BY <1>1, <1>10, <2>2
  <2>4. \A l \in 1 .. c : (n + 1) + l - 1 = n + l
      OBVIOUS
  <2>. QED BY <2>2, <2>3, <2>4
<1>. HIDE DEF a, b
<1>22. /\ a \o b \in Seq(Map!Pair) /\ Len(a \o b) = w + c
       /\ \A p \in 1 .. w + c : (a \o b)[p] = IF p <= w THEN a[p] ELSE b[p - w]
    BY <1>20, <1>21, ConcatProperties
<1>23. ASSUME NEW p \in 1 .. w + c PROVE r.ea[K[p]] = (a \o b)[p]
  <2>1. CASE p \in 1 .. w
    <3>1. K[p] = p - 1 /\ a[p] = r.ea[p - 1] /\ p <= w
        BY <1>11, <2>1 DEF a
    <3>. QED BY <1>22, <3>1
  <2>2. CASE p \notin 1 .. w
    <3>1. PICK l \in n + 1 .. t.size : p = w + (l - n)
        BY <1>13, <2>2
    <3>2. K[p] = L[l] /\ r.ea[L[l]] = s[l]
        BY <1>1, <1>7, <1>12, <3>1 DEF WalkedPairs
    <3>3. ~(p <= w) /\ p - w \in 1 .. c /\ n + (p - w) = l
        BY <1>1, <1>10, <2>2, <3>1
    <3>. QED BY <1>21, <1>22, <3>2, <3>3
  <2>. QED BY <2>1, <2>2
<1>24. PairsOf(r) = a \o b
  <2>1. PICK g \in Seq(Map!Pair) : g = a \o b /\ Len(g) = w + c
      BY <1>22
  <2>2. \A p \in 1 .. w + c : r.ea[K[p]] = g[p]
      BY <1>23, <2>1
  <2>3. Len(g) = w + c
      BY <2>1
  <2>4. g = [p \in 1 .. w + c |-> g[p]]
      BY ONLY g \in Seq(Map!Pair), <2>3
  <2>5. PairsOf(r) = g
      BY ONLY <1>18, <2>2, <2>4
  <2>. QED BY <2>1, <2>5
<1>25. MergedPairs(s, n) = a \o b
  <2>1. MergedFront(s, n) = a
      BY <1>7, WrittenPairs DEF a
  <2>. QED BY <2>1 DEF MergedPairs, b
<1>. QED BY <1>4, <1>24, <1>25 DEF s

-----------------------------------------------------------------------------
(* Rehash.                                                                 *)

\* The last lines of both rehashes do not move an entry.
LEMMA TrimmedPairs ==
    ASSUME NEW r, Shape(r), r.size \in Nat
    PROVE  PairsOf([r EXCEPT !.used = r.size]) = PairsOf(r)
<1>. DEFINE u == [r EXCEPT !.used = r.size]
<1>1. u.capa = r.capa /\ u.ea = r.ea
    BY DEF Shape, Fields
<1>. QED BY <1>1, IndexPairs

LEMMA ar_rehashPairs ==
    ASSUME content \in [Key -> Key], NEW t, Good(t), ~t.ht, NEW n \in Nat, n <= t.size, NEW a
    PROVE  PairsOf(ar_rehash(t, n, a)) = MergedPairs(PairsOf(t), n)
<1>1. Shape(t) /\ t.size = Cardinality(Active(t)) /\ t.capa \in Nat /\ Entries(t)
      /\ t.used \in Nat /\ t.used <= t.capa /\ t.used <= EA_MAX_CAPA
    BY DEF Good, Entries, Shape
<1>2. t.size \in Nat /\ t.size <= t.used
    BY <1>1, CompressFacts
<1>3. PairsOf(Walk(t, n)) = MergedPairs(PairsOf(t), n)
    BY <1>1, WalkPairs
<1>4. CASE n < t.size
    BY <1>3, <1>4 DEF ar_rehash
<1>5. CASE ~(n < t.size)
  <2>1. n = t.size
      BY <1>2, <1>5
  <2>. DEFINE r == Walk(t, t.size)
              u == [r EXCEPT !.used = r.size]
              v == adjust_ea(u, r.size, t.capa, a)
  <2>2. ar_rehash(t, n, a) = v
      BY <1>5, <2>1 DEF ar_rehash
  <2>3. Shape(r) /\ r.size \in Nat /\ r.size <= t.size /\ Active(r) = 0 .. r.size - 1
      BY <1>1, WalkedThrough
  <2>4. PairsOf(r) = MergedPairs(PairsOf(t), n)
      BY <1>3, <2>1
  <2>. HIDE DEF r
  <2>5. r.size <= EA_MAX_CAPA /\ r.size <= t.capa
      BY <1>1, <1>2, <2>3, SizeFacts
  <2>6. Entries(u) /\ SameKeys(u, r) /\ PairsOf(u) = PairsOf(r)
      BY <2>3, <2>5, TrimmedEntries, TrimmedPairs
  <2>. HIDE DEF u
  <2>7. Shape(u) /\ Active(u) = 0 .. r.size - 1
      BY <2>3, <2>6 DEF Entries, SameKeys
  <2>8. r.size <= ea_next_capa_for(r.size, t.capa) /\ ea_next_capa_for(r.size, t.capa) \in Nat
      BY <1>1, <2>3, <2>5, NextCapa
  <2>9. \A i \in Active(u) : i < ea_next_capa_for(r.size, t.capa)
      BY <2>3, <2>7, <2>8
  <2>10. PairsOf(v) = PairsOf(u)
      BY <1>1, <2>3, <2>7, <2>9, AdjustPairs
  <2>. QED BY <2>2, <2>4, <2>6, <2>10
<1>. QED BY <1>4, <1>5

\* A rehash of a large table, to the end
LEMMA ht_rehashPairs ==
    ASSUME content \in [Key -> Key], NEW t, Good(t), t.ht, t.size > AR_MAX_SIZE, NEW a
    PROVE  PairsOf(ht_rehash(t, t.size, a)) = MergedPairs(PairsOf(t), t.size)
<1>1. /\ Entries(t) /\ Shape(t) /\ t.size = Cardinality(Active(t)) /\ t.used \in Nat /\ t.capa \in Nat
      /\ t.used <= t.capa /\ t.used <= EA_MAX_CAPA
    BY DEF Good, Entries, Shape
<1>2. t.size \in Nat /\ t.size <= t.used /\ t.size <= EA_MAX_CAPA /\ t.size <= t.capa
  <2>1. t.size \in Nat /\ t.size <= t.used
      BY <1>1, CompressFacts
  <2>. QED BY <1>1, <2>1, SizeFacts
<1>3. PICK b \in Nat : b = ib_bit_for(t.size) /\ b >= 3 /\ t.size <= ib_bit_to_capa[b] - 2
    BY <1>2, ib_bit_forFacts
<1>. DEFINE p == ht_init(t, 0, b, a)
            q == [p EXCEPT !.size = t.size]
            r == Walk(q, t.size)
            u == [r EXCEPT !.used = r.size]
<1>4. ht_rehash(t, t.size, a) = IF u.size <= AR_MAX_SIZE THEN ht_to_ar(u, a) ELSE adjust_ea(u, u.size, t.capa, a)
  <2>1. ~(t.size <= AR_MAX_SIZE) /\ ~(t.size < t.size)
      BY <1>2, SizeFacts
  <2>. QED BY <1>3, <2>1 DEF ht_rehash
<1>5. /\ DOMAIN p = Fields
      /\ p.ht = TRUE /\ p.tbl = a /\ p.size = 0 /\ p.used = 0 /\ p.bit = b
      /\ p.capa = t.capa /\ p.ea = t.ea /\ p.ea_at = t.ea_at
      /\ Shape(p) /\ SameKeys(p, t) /\ Index(p, 0) /\ Reachable(p, 0)
  <2>1. PICK z \in Nat : z = 0
      OBVIOUS
  <2>2. z <= ib_bit_to_capa[b] - 2 /\ \A i \in 0 .. z - 1 : i \in Active(t)
      BY <1>2, <1>3, <2>1, ShiftType
  <2>. DEFINE g == ht_init(t, z, b, a)
  <2>3. /\ DOMAIN g = Fields
        /\ g.ht = TRUE /\ g.tbl = a /\ g.size = z /\ g.used = z /\ g.bit = b
        /\ g.capa = t.capa /\ g.ea = t.ea /\ g.ea_at = t.ea_at
        /\ Shape(g) /\ SameKeys(g, t) /\ Index(g, z) /\ Reachable(g, z)
    <3>1. Shape(t) /\ b \in Nat /\ b >= 3
        BY <1>1, <1>3
    <3>. QED BY ONLY content \in [Key -> Key], z \in Nat, <2>2, <3>1, ht_initFacts
  <2>. QED BY <2>1, <2>3
<1>. HIDE DEF p
<1>6. /\ DOMAIN q = Fields
      /\ q.ht = TRUE /\ q.size = t.size /\ q.used = 0 /\ q.bit = b /\ q.capa = t.capa /\ q.ea = p.ea
      /\ q.ib = p.ib
    BY <1>5 DEF Fields
<1>. HIDE DEF q
<1>7. Active(q) = Active(p) /\ Slots(q) = Slots(p) /\ PairsOf(q) = PairsOf(t)
  <2>1. Active(q) = Active(p) /\ Slots(q) = Slots(p)
      BY <1>5, <1>6 DEF Active, Slots
  <2>2. q.capa = t.capa /\ q.ea = t.ea
      BY <1>5, <1>6
  <2>. QED BY <2>1, <2>2, IndexPairs
<1>8. Shape(q) /\ q.size = Cardinality(Active(q)) /\ SameKeys(q, p)
  <2>1. q.ht \in BOOLEAN
      BY <1>6, Zenon
  <2>2. q.used \in Nat /\ q.capa \in Nat /\ q.bit \in Nat /\ q.ea \in [Slots(q) -> Slot]
      BY <1>1, <1>5, <1>6, <1>7 DEF Shape
  <2>. QED BY <1>1, <1>5, <1>6, <1>7, <2>1, <2>2 DEF Shape, SameKeys
<1>9. Index(q, 0) /\ Reachable(q, 0)
    BY <1>5, <1>6, <1>8, SameIndex
<1>10. q.size <= DeletedValue(q)
    BY <1>3, <1>6 DEF DeletedValue, ib_capa
<1>11. /\ Shape(r) /\ r.size \in Nat /\ r.size <= t.size /\ Active(r) = 0 .. r.size - 1
       /\ PairsOf(r) = MergedPairs(PairsOf(t), t.size)
  <2>. DEFINE g == Walk(q, q.size)
  <2>1. Shape(g) /\ g.size \in Nat /\ g.size <= q.size /\ Active(g) = 0 .. g.size - 1
      BY <1>8, <1>9, <1>10, WalkedThrough
  <2>2. PICK n \in Nat : n = t.size /\ n <= q.size
      BY <1>2, <1>6
  <2>3. PairsOf(Walk(q, n)) = MergedPairs(PairsOf(q), n)
      BY <1>8, <1>9, <1>10, <2>2, WalkPairs
  <2>. QED BY <1>6, <1>7, <2>1, <2>2, <2>3
<1>. HIDE DEF r
<1>12. r.size <= EA_MAX_CAPA /\ r.size <= t.capa
    BY <1>1, <1>2, <1>11, SizeFacts
<1>13. Entries(u) /\ SameKeys(u, r) /\ u.size = r.size /\ PairsOf(u) = PairsOf(r)
    BY <1>11, <1>12, TrimmedEntries, TrimmedPairs
<1>. HIDE DEF u
<1>14. CASE u.size <= AR_MAX_SIZE
  <2>1. PairsOf(ht_to_ar(u, a)) = PairsOf(u)
      BY <1>13, <1>14, ht_to_arPairs
  <2>. QED BY <1>4, <1>11, <1>13, <1>14, <2>1
<1>15. CASE ~(u.size <= AR_MAX_SIZE)
  <2>1. u.size \in Nat /\ u.size <= ea_next_capa_for(u.size, t.capa) /\ ea_next_capa_for(u.size, t.capa) \in Nat
      BY <1>1, <1>11, <1>12, <1>13, NextCapa
  <2>2. Shape(u) /\ Active(u) = 0 .. u.size - 1
      BY <1>11, <1>13 DEF Entries, SameKeys
  <2>3. \A i \in Active(u) : i < ea_next_capa_for(u.size, t.capa)
      BY <2>1, <2>2
  <2>4. PairsOf(adjust_ea(u, u.size, t.capa, a)) = PairsOf(u)
      BY <1>1, <2>1, <2>2, <2>3, AdjustPairs
  <2>. QED BY <1>4, <1>11, <1>13, <1>15, <2>4
<1>. QED BY <1>14, <1>15

LEMMA EmptyPairs == PairsOf(h_init) = << >> /\ \A n \in Nat : n = 0 => MergedPairs(<< >>, n) = << >>
<1>1. Shape(h_init) /\ h_init.size = Cardinality(Active(h_init)) /\ h_init.size = 0
    BY h_initGood DEF Good, Entries, h_init
<1>2. PairsOf(h_init) = << >>
  <2>1. PairsOf(h_init) \in Seq(Map!Pair) /\ Len(PairsOf(h_init)) = 0
    <3>1. PICK t : t = h_init
        OBVIOUS
    <3>2. PairsOf(t) \in Seq(Map!Pair) /\ Len(PairsOf(t)) = Cardinality(Active(t))
        BY <1>1, <3>1, ListOf
    <3>. QED BY <1>1, <3>1, <3>2
  <2>. QED BY <2>1, EmptySeq
<1>3. ASSUME NEW n \in Nat, n = 0 PROVE MergedPairs(<< >>, n) = << >>
  <2>1. 1 .. n = {}
      BY <1>3
  <2>2. Heads(<< >>, n) = {}
      BY <2>1 DEF Heads
  <2>3. Cardinality(Heads(<< >>, n)) = 0
      BY <2>2, FS_EmptySet
  <2>4. MergedFront(<< >>, n) = << >>
    <3>1. 1 .. Cardinality(Heads(<< >>, n)) = {}
        BY <2>3
    <3>. QED BY <3>1 DEF MergedFront
  <2>5. SubSeq(<< >>, n + 1, Len(<< >>)) = << >>
    <3>1. n + 1 \in Int /\ Len(<< >>) \in Int /\ Len(<< >>) < n + 1
        OBVIOUS
    <3>. QED BY ONLY <3>1, SubSeqEmpty
  <2>. QED BY <2>4, <2>5 DEF MergedPairs
<1>. QED BY <1>2, <1>3

\* A rehash that is not interrupted in the middle of a large table
LEMMA h_rehashPairs ==
    ASSUME content \in [Key -> Key], NEW t, Good(t), NEW n \in Nat, n <= t.size, NEW a,
           t.ht /\ t.size > AR_MAX_SIZE => n = t.size
    PROVE  PairsOf(h_rehash(t, n, a)) = MergedPairs(PairsOf(t), n)
<1>1. Entries(t) /\ Shape(t) /\ t.ht \in BOOLEAN /\ t.size \in Nat /\ t.size = Cardinality(Active(t))
    BY CompressFacts DEF Good, Entries, Shape
<1>2. CASE t.size = 0
  <2>1. PairsOf(t) \in Seq(Map!Pair) /\ Len(PairsOf(t)) = 0 /\ n = 0
    <3>1. PairsOf(t) \in Seq(Map!Pair) /\ Len(PairsOf(t)) = Cardinality(Active(t))
        BY <1>1, ListOf
    <3>2. Len(PairsOf(t)) = 0
        BY ONLY <1>1, <1>2, <3>1, Zenon
    <3>3. n = 0
        BY <1>2
    <3>. QED BY <3>1, <3>2, <3>3
  <2>2. PairsOf(t) = << >>
      BY <2>1, EmptySeq
  <2>3. h_rehash(t, n, a) = h_init
      BY <1>2 DEF h_rehash
  <2>. QED BY <2>1, <2>2, <2>3, EmptyPairs
<1>3. CASE t.size # 0 /\ ~t.ht
    BY <1>3, ar_rehashPairs DEF h_rehash
<1>4. CASE t.size # 0 /\ t.ht /\ ~(t.size <= AR_MAX_SIZE)
  <2>1. t.size > AR_MAX_SIZE /\ n = t.size
      BY <1>1, <1>4, SizeFacts
  <2>2. PairsOf(ht_rehash(t, t.size, a)) = MergedPairs(PairsOf(t), t.size)
      BY <1>4, <2>1, ht_rehashPairs
  <2>3. h_rehash(t, n, a) = ht_rehash(t, t.size, a)
      BY <1>4, <2>1 DEF h_rehash
  <2>. QED BY <2>1, <2>2, <2>3
<1>5. CASE t.size # 0 /\ t.ht /\ t.size <= AR_MAX_SIZE
  <2>. DEFINE r == ht_to_ar(t, a)
  <2>1. h_rehash(t, n, a) = ar_rehash(r, n, a)
      BY <1>1, <1>5, SizeFacts DEF h_rehash, ht_rehash
  <2>2. Good(r) /\ ~r.ht /\ r.size = t.size /\ PairsOf(r) = PairsOf(t)
      BY <1>1, <1>5, ht_to_arFacts, ht_to_arPairs
  <2>. HIDE DEF r
  <2>3. PairsOf(ar_rehash(r, n, a)) = MergedPairs(PairsOf(r), n)
      BY <2>2, ar_rehashPairs
  <2>. QED BY <2>1, <2>2, <2>3
<1>. QED BY <1>1, <1>2, <1>3, <1>4, <1>5

-----------------------------------------------------------------------------
(* A hash made of a list of keys.                                          *)

GivenPairs(keys, m) == [l \in 1 .. m |-> [key |-> keys[l], val |-> Given]]

LEMMA GivenNext ==
    ASSUME NEW keys, NEW m \in Nat
    PROVE  Append(GivenPairs(keys, m), [key |-> keys[m + 1], val |-> Given]) = GivenPairs(keys, m + 1)
<1>. DEFINE e == [key |-> keys[m + 1], val |-> Given]
            S == {[key |-> keys[l], val |-> Given] : l \in 1 .. m + 1}
            s == GivenPairs(keys, m)
            u == GivenPairs(keys, m + 1)
<1>1. m + 1 \in Nat /\ m + 1 \in 1 .. m + 1 /\ \A l \in 1 .. m : l \in 1 .. m + 1 /\ l # m + 1
    OBVIOUS
<1>2. e \in S
    BY <1>1
<1>3. s \in Seq(S) /\ Len(s) = m /\ \A l \in 1 .. m : s[l] = [key |-> keys[l], val |-> Given]
    BY <1>1 DEF GivenPairs
<1>4. u \in Seq(S) /\ Len(u) = m + 1 /\ \A l \in 1 .. m + 1 : u[l] = [key |-> keys[l], val |-> Given]
    BY <1>1 DEF GivenPairs
<1>5. u[m + 1] = e
    BY <1>1, <1>4
<1>6. \A l \in 1 .. m : u[l] = s[l]
    BY <1>1, <1>3, <1>4
<1>. HIDE DEF e, S, s, u
<1>7. Append(s, e) \in Seq(S) /\ Len(Append(s, e)) = m + 1
      /\ Append(s, e)[m + 1] = e /\ \A l \in 1 .. m : Append(s, e)[l] = s[l]
    BY <1>2, <1>3, AppendProperties
<1>8. \A l \in 1 .. m + 1 : Append(s, e)[l] = u[l]
    BY <1>5, <1>6, <1>7
<1>9. Append(s, e) = u
    BY <1>4, <1>7, <1>8, SeqEqual
<1>. QED BY <1>9 DEF e, s, u

\* An object that cannot change has the content it began with.
Own == \A k \in Key \ Mutable : content[k] = k

LEMMA FilledPairs ==
    ASSUME content \in [Key -> Key], Own, NEW keys \in Fills, NEW a
    PROVE  PairsOf(Filled(keys, a)) = [n \in DOMAIN keys |-> [key |-> keys[n], val |-> Given]]
<1>. DEFINE N == Len(keys)
            d == CHOOSE d : Stores(d, keys, a, N)
<1>1. /\ keys \in Seq(Key) /\ N \in Nat /\ N <= EA_MAX_CAPA /\ DOMAIN keys = 1 .. N
      /\ \A m \in 1 .. N : keys[m] \in Key /\ content[keys[m]] = keys[m]
      /\ \A l, m \in 1 .. N : keys[l] = keys[m] => l = m
  <2>1. keys \in Seq(Key \ Mutable) /\ N <= EA_MAX_CAPA
      BY HashAssumption
  <2>2. N \in Nat /\ DOMAIN keys = 1 .. N /\ \A m \in 1 .. N : keys[m] \in Key \ Mutable
      BY <2>1
  <2>3. \A l, m \in DOMAIN keys : keys[l] = keys[m] => l = m
      BY HashAssumption
  <2>4. \A m \in 1 .. N : keys[m] \in Key /\ content[keys[m]] = keys[m]
      BY <2>2 DEF Own
  <2>5. keys \in Seq(Key)
      BY <2>1, <2>4
  <2>. QED BY <2>1, <2>2, <2>3, <2>4, <2>5
<1>2. Stores(d, keys, a, N)
    BY <1>1, StoresExists
<1>3. Filled(keys, a) = d[N]
    BY DEF Filled, Stores
<1>4. Given \in Val
    BY HashAssumption DEF Given
<1>. HIDE DEF d, N
<1>. DEFINE S == {m \in Nat : m <= N => /\ Good(d[m]) /\ Keyed(d[m]) /\ d[m].used <= m
                                        /\ PairsOf(d[m]) = GivenPairs(keys, m)}
<1>5. 0 \in S
  <2>1. d[0] = h_init
      BY <1>1, <1>2 DEF Stores
  <2>2. GivenPairs(keys, 0) = << >>
    <3>1. 1 .. 0 = {}
        OBVIOUS
    <3>. QED BY <3>1 DEF GivenPairs
  <2>. QED BY <2>1, <2>2, h_initGood, EmptyPairs
<1>6. ASSUME NEW m \in Nat, m \in S PROVE m + 1 \in S
  <2>. SUFFICES ASSUME m + 1 <= N
                PROVE  /\ Good(d[m + 1]) /\ Keyed(d[m + 1]) /\ d[m + 1].used <= m + 1
                       /\ PairsOf(d[m + 1]) = GivenPairs(keys, m + 1)
      OBVIOUS
  <2>1. d[m + 1] = h_set(d[m], keys[m + 1], Given, a)
    <3>1. PICK j \in 0 .. N : j = m + 1 /\ j # 0 /\ j - 1 = m
        BY <1>1
    <3>2. d[j] = h_set(d[j - 1], keys[j], Given, a)
        BY <1>2, <3>1 DEF Stores
    <3>. QED BY <3>1, <3>2
  <2>2. PICK t : t = d[m]
      OBVIOUS
  <2>3. Good(t) /\ Keyed(t) /\ t.used <= m /\ t.used \in Nat /\ PairsOf(t) = GivenPairs(keys, m)
      BY <1>1, <1>6, <2>2 DEF Good, Entries, Shape
  <2>4. t.used < EA_MAX_CAPA
      BY <1>1, <2>3, SizeFacts
  <2>5. PICK k \in Key : k = keys[m + 1] /\ content[k] = k
      BY <1>1
  <2>6. PICK r : r = d[m + 1] /\ r = h_set(t, k, Given, a)
      BY <2>1, <2>2, <2>5
  <2>7. Holds(r, t)
      BY <1>4, <2>3, <2>4, <2>6, h_setGood
  <2>8. Good(r) /\ Keyed(r) /\ r.used <= t.used + 1
      BY <2>3, <2>7 DEF Holds
  <2>9. r.used \in Nat
      BY <2>8 DEF Good, Entries, Shape
  <2>10. StoresPair(r, t, k, Given)
      BY <1>4, <2>3, <2>4, <2>6, h_setPairs
  <2>11. \A p \in 1 .. m : content[GivenPairs(keys, m)[p].key] # content[k]
    <3>. SUFFICES ASSUME NEW p \in 1 .. m, content[GivenPairs(keys, m)[p].key] = content[k] PROVE FALSE
        OBVIOUS
    <3>1. p \in 1 .. N /\ m + 1 \in 1 .. N /\ p # m + 1
        BY <1>1
    <3>2. GivenPairs(keys, m)[p].key = keys[p]
        BY DEF GivenPairs
    <3>3. keys[p] = keys[m + 1]
        BY <1>1, <2>5, <3>1, <3>2
    <3>. QED BY <1>1, <3>1, <3>3
  <2>12. DOMAIN GivenPairs(keys, m) = 1 .. m
      BY DEF GivenPairs
  <2>13. PairsOf(r) = Append(GivenPairs(keys, m), [key |-> k, val |-> Given])
      BY <2>3, <2>10, <2>11, <2>12 DEF StoresPair
  <2>14. PairsOf(r) = GivenPairs(keys, m + 1)
      BY <2>5, <2>13, GivenNext
  <2>. QED BY <2>3, <2>6, <2>8, <2>9, <2>14
<1>. HIDE DEF S
<1>7. \A m \in Nat : m \in S
    BY <1>5, <1>6, InductionInSet
<1>8. PairsOf(d[N]) = GivenPairs(keys, N)
    BY <1>1, <1>7 DEF S
<1>. QED BY <1>1, <1>3, <1>8 DEF GivenPairs

-----------------------------------------------------------------------------
(* The steps.                                                              *)

\* The pairs of the next table are those of the record that describes it.
LEMMA NextPairs == ASSUME NEW r, h' = r PROVE PairsOf(h)' = PairsOf(r)
    BY DEF PairsOf

LEMMA SettledPairs == ASSUME NEW t, Good(t) PROVE PairsOf(Settled(t)) = PairsOf(t)
<1>. DEFINE u == Settled(t)
<1>1. u.capa = t.capa /\ u.ea = t.ea
    BY DEF Good, Entries, Shape, Settled, Fields
<1>. QED BY <1>1, IndexPairs

LEMMA StoreMaps == ASSUME HInv, NEW k \in Stored, NEW v \in Val, mrb_hash_set(k, v) PROVE Map!Store(k, v)
<1>1. /\ Good(h) /\ (~stale => Keyed(h)) /\ content \in [Key -> Key] /\ stale \in BOOLEAN /\ h.used \in Nat
    BY DEF HInv, Good, Entries, Shape
<1>2. PICK a \in Addresses : h' = h_set(h, k, v, a)
    BY DEF mrb_hash_set
<1>3. h.used < EA_MAX_CAPA
  <2>1. h.used < MaxUsed
      BY DEF mrb_hash_set
  <2>2. MaxUsed \in Nat /\ MaxUsed <= EA_MAX_CAPA
      BY HashAssumption
  <2>. QED BY <1>1, <2>1, <2>2, SizeFacts
<1>4. PICK r : r = h_set(h, k, v, a)
    OBVIOUS
<1>5. k \in Key
    BY HashAssumption
<1>6. StoresPair(r, h, k, v)
    BY <1>1, <1>3, <1>4, <1>5, h_setPairs
<1>7. PairsOf(h)' = PairsOf(r) /\ UNCHANGED <<content, stale>>
    BY <1>2, <1>4, NextPairs DEF mrb_hash_set
<1>8. CASE \E p \in DOMAIN PairsOf(h) : /\ content[PairsOf(h)[p].key] = content[k]
                                        /\ PairsOf(r) = WithValue(PairsOf(h), p, v)
    BY <1>7, <1>8 DEF WithValue, Map!Store, Map!Same
<1>9. CASE /\ Keyed(h) => \A p \in DOMAIN PairsOf(h) : content[PairsOf(h)[p].key] # content[k]
           /\ PairsOf(r) = Append(PairsOf(h), [key |-> k, val |-> v])
  <2>1. Map!Same(k) = {} \/ stale
      BY <1>1, <1>9 DEF Map!Same
  <2>. QED BY <1>7, <1>9, <2>1 DEF Map!Store
<1>. QED BY <1>6, <1>8, <1>9 DEF StoresPair

LEMMA RemoveMaps == ASSUME HInv, NEW k \in Deleted, mrb_hash_delete_key(k) PROVE Map!Remove(k)
<1>1. Good(h) /\ content \in [Key -> Key]
    BY DEF HInv
<1>2. PICK r : r = h_delete(h, k) /\ h' = r
    BY DEF mrb_hash_delete_key
<1>3. k \in Key /\ h_get(h, k) # Vacant /\ UNCHANGED <<content, stale>>
    BY HashAssumption DEF mrb_hash_delete_key
<1>4. PICK p \in DOMAIN PairsOf(h) : content[PairsOf(h)[p].key] = content[k] /\ PairsOf(r) = Removed(PairsOf(h), p)
    BY <1>1, <1>2, <1>3, h_deletePairs
<1>5. PairsOf(h)' = PairsOf(r)
    BY <1>2, NextPairs
<1>. QED BY <1>3, <1>4, <1>5 DEF Map!Remove, Map!Same, Map!Without, Removed

LEMMA ShiftMaps == ASSUME HInv, mrb_hash_shift PROVE Map!Shift
<1>1. Good(h) /\ content \in [Key -> Key]
    BY DEF HInv
<1>2. PICK r : r = h_shift(h) /\ h' = r
    BY DEF mrb_hash_shift
<1>3. h.size # 0 /\ UNCHANGED <<content, stale>>
    BY DEF mrb_hash_shift
<1>4. PairsOf(h) # << >> /\ PairsOf(r) = Tail(PairsOf(h))
    BY <1>1, <1>2, <1>3, h_shiftPairs
<1>5. PairsOf(h)' = PairsOf(r)
    BY <1>2, NextPairs
<1>. QED BY <1>3, <1>4, <1>5 DEF Map!Shift

\* clear, and replace with one of the hashes that Fills gives
LEMMA ReplaceMaps ==
    ASSUME HInv, Own, mrb_hash_clear \/ \E keys \in Fills : h_replace(keys) PROVE Map!MapNext
<1>1. content \in [Key -> Key]
    BY DEF HInv
<1>2. CASE mrb_hash_clear
  <2>1. PICK r : r = h_init /\ h' = r
      BY <1>2 DEF mrb_hash_clear
  <2>2. PairsOf(h)' = << >> /\ stale' = FALSE /\ UNCHANGED content
      BY <1>2, <2>1, NextPairs, EmptyPairs DEF mrb_hash_clear
  <2>3. Map!Replace(<< >>)
      BY <2>2 DEF Map!Replace
  <2>. QED BY <2>3 DEF Map!MapNext
<1>3. ASSUME NEW keys \in Fills, h_replace(keys) PROVE Map!MapNext
  <2>1. PICK a \in Addresses : h' = Filled(keys, a)
      BY <1>3 DEF h_replace
  <2>2. PICK r : r = Filled(keys, a)
      OBVIOUS
  <2>3. PICK q : q = [n \in DOMAIN keys |-> [key |-> keys[n], val |-> Given]]
      OBVIOUS
  <2>4. PairsOf(r) = q
      BY <1>1, <2>2, <2>3, FilledPairs
  <2>5. PairsOf(h)' = q /\ stale' = FALSE /\ UNCHANGED content
      BY <1>3, <2>1, <2>2, <2>4, NextPairs DEF h_replace
  <2>6. Map!Replace(q)
      BY <2>5 DEF Map!Replace
  <2>. QED BY <2>3, <2>6 DEF Map!MapNext
<1>. QED BY <1>2, <1>3

\* The map counts as the table does.
LEMMA MapCardinality == ASSUME NEW S PROVE Map!Cardinality(S) = Cardinality(S)
    BY DEF Cardinality, Map!Cardinality

LEMMA NthIs == ASSUME NEW I PROVE \A n \in 1 .. Cardinality(I) : InOrder(I)[n] = Map!Nth(I, n)
<1>1. ASSUME NEW n \in 1 .. Cardinality(I) PROVE InOrder(I)[n] = Map!Nth(I, n)
  <2>1. InOrder(I)[n] = CHOOSE i \in I : Cardinality({j \in I : j < i}) = n - 1
      BY DEF InOrder, Rank
  <2>2. Map!Nth(I, n) = CHOOSE i \in I : Cardinality({j \in I : j < i}) = n - 1
      BY DEF Map!Nth, Cardinality, Map!Cardinality
  <2>. QED BY <2>1, <2>2
<1>. QED BY <1>1

LEMMA CompactMaps == ASSUME HInv, mrb_hash_compact PROVE Map!Compact
<1>. DEFINE dead == {i \in Visited(h, h.size) : h.ea[i].val = Nil}
            s == PairsOf(h)
            I == {p \in DOMAIN s : s[p].val # Nil}
<1>1. Good(h) /\ Entries(h) /\ Shape(h) /\ DOMAIN h = Fields /\ h.capa \in Nat /\ h.ea \in [0 .. h.capa - 1 -> Slot]
    BY DEF HInv, Good, Entries, Shape, Slots
<1>2. PICK r : r = [h EXCEPT !.ea = [i \in Slots(h) |-> IF i \in dead THEN Vacant ELSE h.ea[i]],
                             !.size = @ - Cardinality(dead)]
    OBVIOUS
<1>3. h' = r /\ UNCHANGED <<content, stale>>
    BY <1>2 DEF mrb_hash_compact
<1>4. dead = {i \in Active(h) : h.ea[i].val = Nil}
    BY <1>1, VisitedAll
<1>. HIDE DEF dead
<1>5. Shape(r)
  <2>1. Keeps(r, h)
      BY <1>1, <1>2, <1>4, CompactGood
  <2>. QED BY <2>1 DEF Keeps, Good, Entries
<1>6. r.capa = h.capa /\ r.ea = [i \in 0 .. h.capa - 1 |-> IF i \in dead THEN Vacant ELSE h.ea[i]]
    BY <1>1, <1>2 DEF Fields, Slots
<1>7. \A i \in 0 .. h.capa - 1 : r.ea[i] = IF i \in dead THEN Vacant ELSE h.ea[i]
    BY <1>6
<1>8. \A j : j \in Active(r) <=> j \in Active(h) /\ j \notin dead
  <2>1. \A j : j \in Active(r) <=> j \in 0 .. h.capa - 1 /\ r.ea[j] # Vacant
      BY <1>6 DEF Active, Slots
  <2>2. \A j : j \in Active(h) <=> j \in 0 .. h.capa - 1 /\ h.ea[j] # Vacant
      BY DEF Active, Slots
  <2>. QED BY <1>7, <2>1, <2>2
<1>9. Active(r) = {i \in Active(h) : h.ea[i].val # Nil}
    BY <1>4, <1>8
<1>10. \A i \in Active(r) : r.ea[i] = h.ea[i]
    BY <1>7, <1>8 DEF Active, Slots
<1>11. PairsOf(r) = KeptPairs(s, I)
    BY <1>1, <1>5, <1>9, <1>10, CompactPairs
<1>12. PairsOf(h)' = PairsOf(r)
    BY <1>3, NextPairs
<1>13. Map!Kept = [n \in 1 .. Cardinality(I) |-> s[Map!Nth(I, n)]]
    BY MapCardinality DEF Map!Kept
<1>. HIDE DEF s, I
<1>14. \A n \in 1 .. Cardinality(I) : InOrder(I)[n] = Map!Nth(I, n)
    BY NthIs
<1>15. KeptPairs(s, I) = [n \in 1 .. Cardinality(I) |-> s[Map!Nth(I, n)]]
    BY <1>14 DEF KeptPairs
<1>. QED BY <1>3, <1>11, <1>12, <1>13, <1>15 DEF Map!Compact

LEMMA MergedIs == ASSUME NEW n PROVE Map!Merged(n) = MergedPairs(PairsOf(h), n)
<1>. DEFINE s == PairsOf(h)
            H == Heads(s, n)
<1>1. Map!Merged(n) = [m \in 1 .. Cardinality(H) |->
                          [key |-> s[Map!Nth(H, m)].key, val |-> s[LastTwin(s, n, Map!Nth(H, m))].val]]
                      \o SubSeq(s, n + 1, Len(s))
    BY MapCardinality DEF Map!Merged, Heads, Twins, LastTwin
<1>. HIDE DEF s, H
<1>2. \A m \in 1 .. Cardinality(H) : InOrder(H)[m] = Map!Nth(H, m)
    BY NthIs
<1>3. MergedFront(s, n) = [m \in 1 .. Cardinality(H) |->
                              [key |-> s[InOrder(H)[m]].key, val |-> s[LastTwin(s, n, InOrder(H)[m])].val]]
    BY DEF MergedFront, H
<1>4. MergedFront(s, n) = [m \in 1 .. Cardinality(H) |->
                              [key |-> s[Map!Nth(H, m)].key, val |-> s[LastTwin(s, n, Map!Nth(H, m))].val]]
    BY <1>2, <1>3
<1>. QED BY <1>1, <1>4 DEF MergedPairs, s

LEMMA RehashMaps ==
    ASSUME "ht" \notin RaiseIn, HInv, mrb_hash_rehash \/ RehashRaises PROVE Map!Rehash \/ Map!RehashPart
<1>1. Good(h) /\ Entries(h) /\ Shape(h) /\ content \in [Key -> Key] /\ h.size = Cardinality(Active(h))
    BY DEF HInv, Good, Entries
<1>2. h.size \in Nat /\ Len(PairsOf(h)) = h.size
  <2>1. h.size \in Nat
      BY <1>1, CompressFacts
  <2>2. Len(PairsOf(h)) = Cardinality(Active(h))
      BY <1>1, ListOf
  <2>. QED BY <1>1, <2>1, <2>2
<1>3. CASE mrb_hash_rehash
  <2>1. PICK a \in Addresses : h' = h_rehash(h, h.size, a)
      BY <1>3 DEF mrb_hash_rehash
  <2>2. PICK r : r = h_rehash(h, h.size, a)
      OBVIOUS
  <2>3. h.size <= h.size
      BY <1>2
  <2>4. PairsOf(r) = MergedPairs(PairsOf(h), h.size)
      BY <1>1, <1>2, <2>2, <2>3, h_rehashPairs
  <2>5. PairsOf(h)' = PairsOf(r) /\ stale' = FALSE /\ UNCHANGED content
      BY <1>3, <2>1, <2>2, NextPairs DEF mrb_hash_rehash
  <2>6. Map!Merged(Len(PairsOf(h))) = MergedPairs(PairsOf(h), h.size)
      BY <1>2, MergedIs
  <2>. QED BY <2>4, <2>5, <2>6 DEF Map!Rehash
<1>4. CASE RehashRaises
  <2>1. PICK a \in Addresses, n \in 0 .. h.size - 1 : h' = h_rehash(h, n, a)
      BY <1>4 DEF RehashRaises
  <2>2. n \in Nat /\ n <= h.size /\ n \in 0 .. Len(PairsOf(h))
      BY <1>2
  <2>3. ~(h.ht /\ h.size > AR_MAX_SIZE)
      BY <1>4 DEF RehashRaises
  <2>4. PICK r : r = h_rehash(h, n, a)
      OBVIOUS
  <2>5. PairsOf(r) = MergedPairs(PairsOf(h), n)
      BY <1>1, <2>2, <2>3, <2>4, h_rehashPairs
  <2>6. PairsOf(h)' = PairsOf(r) /\ UNCHANGED <<content, stale>>
      BY <1>4, <2>1, <2>4, NextPairs DEF RehashRaises
  <2>7. Map!Merged(n) = MergedPairs(PairsOf(h), n)
      BY MergedIs
  <2>. QED BY <2>2, <2>5, <2>6, <2>7 DEF Map!RehashPart
<1>. QED BY <1>3, <1>4

\* A store that ends with an exception leaves the pairs as they were.
LEMMA ReadyPairs ==
    ASSUME NEW c, NEW t, NEW size, NEW bit, Ready(c, t, size, bit), content \in [Key -> Key], NEW a
    PROVE  PairsOf(ht_init(c, size, bit, a)) = PairsOf(c)
<1>1. /\ Shape(c) /\ size \in Nat /\ bit \in Nat /\ bit >= 3 /\ size <= ib_bit_to_capa[bit] - 2
      /\ \A i \in 0 .. size - 1 : i \in Active(c)
    BY DEF Ready
<1>. QED BY <1>1, ht_initPairs

LEMMA FittedPairs == ASSUME NEW t, Good(t), NEW a PROVE PairsOf(Fitted(t, a)) = PairsOf(t)
<1>1. Entries(t) /\ t.used \in Nat /\ t.capa \in Nat /\ t.used <= t.capa
    BY DEF Good, Entries, Shape
<1>2. PICK c : c = ea_compress(t)
    OBVIOUS
<1>3. Shape(c) /\ t.size \in Nat /\ t.size <= t.used /\ Active(c) = 0 .. t.size - 1 /\ PairsOf(c) = PairsOf(t)
    BY <1>1, <1>2, CompressFacts, CompressPairs
<1>4. PICK n \in Nat : n = ea_next_capa_for(t.size, t.capa) /\ t.size <= n
  <2>1. t.size <= t.capa
      BY <1>1, <1>3
  <2>. QED BY <1>1, <1>3, <2>1, NextCapa
<1>5. \A i \in Active(c) : i < ea_next_capa_for(t.size, t.capa)
    BY <1>3, <1>4
<1>6. PairsOf(adjust_ea(c, t.size, t.capa, a)) = PairsOf(c)
    BY <1>1, <1>3, <1>5, AdjustPairs
<1>. QED BY <1>2, <1>3, <1>6 DEF Fitted

LEMMA StoreRaisesMaps ==
    ASSUME "index" \notin RaiseIn, HInv, NEW k \in Stored, StoreRaises(k) PROVE UNCHANGED Map!mapVars
<1>1. Good(h) /\ Entries(h) /\ content \in [Key -> Key]
    BY DEF HInv, Good
<1>2. k \in Key
    BY HashAssumption
<1>3. PICK a, r : h' = r /\ Prepared(r, h, a)
    BY <1>1, <1>2, StoreRaisesPrepares
<1>4. ASSUME NEW c, NEW size, NEW bit, Ready(c, h, size, bit), r = ht_init(c, size, bit, a),
             c \in {h, ea_compress(h), Fitted(h, a)}
      PROVE  PairsOf(r) = PairsOf(h)
  <2>1. PairsOf(c) = PairsOf(h)
      BY <1>1, <1>4, CompressPairs, FittedPairs
  <2>. QED BY <1>1, <1>4, <2>1, ReadyPairs
<1>5. ASSUME h.size <= AR_MAX_SIZE PROVE PairsOf(ht_to_ar(h, a)) = PairsOf(h)
    BY <1>1, <1>5, ht_to_arPairs
<1>6. ASSUME h.size <= AR_MAX_SIZE, NEW ar, NEW size, NEW bit, ar = ht_to_ar(h, a), Ready(ar, ar, size, bit),
             r = ht_init(ar, size, bit, a)
      PROVE  PairsOf(r) = PairsOf(h)
    BY <1>1, <1>5, <1>6, ReadyPairs
<1>7. PairsOf(r) = PairsOf(h)
    BY <1>3, <1>4, <1>5, <1>6 DEF Prepared
<1>8. PairsOf(h)' = PairsOf(h) /\ UNCHANGED <<content, stale>>
    BY <1>3, <1>7, NextPairs DEF StoreRaises
<1>. QED BY <1>8 DEF Map!mapVars

LEMMA ChangeMaps == ASSUME HInv, NEW k \in Mutable, ChangeKey(k) PROVE k \in Key /\ Map!Change(k)
<1>1. Shape(h)
    BY DEF HInv, Good, Entries
<1>2. h' = h /\ stale' = (stale \/ \E i \in Active(h) : h.ea[i].key = k)
    BY DEF ChangeKey
<1>3. PICK c \in Key : content' = [content EXCEPT ![k] = c]
  <2>1. ChangedTo \subseteq Key
      BY HashAssumption
  <2>. QED BY <2>1 DEF ChangeKey
<1>4. PICK n, L : n \in Nat /\ Lists(L, n, Active(h)) /\ PairsOf(h) = [m \in 1 .. n |-> h.ea[L[m]]]
    BY <1>1, ListOf
<1>5. (\E i \in Active(h) : h.ea[i].key = k) <=> \E m \in 1 .. n : h.ea[L[m]].key = k
    BY <1>4 DEF Lists
<1>6. (\E m \in 1 .. n : h.ea[L[m]].key = k) <=> \E p \in DOMAIN PairsOf(h) : PairsOf(h)[p].key = k
    BY <1>4
<1>7. PairsOf(h)' = PairsOf(h)
    BY <1>2, NextPairs
<1>8. k \in Key
    BY HashAssumption
<1>9. stale' = (stale \/ \E p \in DOMAIN PairsOf(h) : PairsOf(h)[p].key = k)
    BY <1>2, <1>5, <1>6
<1>. QED BY <1>3, <1>7, <1>8, <1>9 DEF Map!Change

\* An iteration does not change a pair.
LEMMA EachMaps ==
    ASSUME HInv, EachStart \/ EachNext \/ EachBreak \/ EachReread PROVE UNCHANGED Map!mapVars
<1>1. Good(h)
    BY DEF HInv
<1>2. UNCHANGED <<content, stale>>
    BY DEF EachStart, EachNext, EachBreak, EachReread
<1>3. h' = Settled(h) \/ h' = h
    BY DEF EachStart, EachNext, EachBreak, EachReread, EachEnd, Visit
<1>4. PairsOf(h)' = PairsOf(h)
  <2>1. CASE h' = h
      BY <2>1, NextPairs
  <2>2. CASE h' = Settled(h)
    <3>1. PICK r : r = Settled(h) /\ h' = r
        BY <2>2
    <3>. QED BY <1>1, <3>1, NextPairs, SettledPairs
  <2>. QED BY <1>3, <2>1, <2>2
<1>. QED BY <1>2, <1>4 DEF Map!mapVars

LEMMA OwnKept == ASSUME HInv, Own, [HashNext]_hashVars PROVE Own'
<1>1. content' = content \/ \E k \in Mutable : ChangeKey(k)
    BY DEF HashNext, hashVars, mrb_hash_set, mrb_hash_delete_key, mrb_hash_shift, mrb_hash_clear, mrb_hash_compact,
           h_replace, mrb_hash_rehash, RehashRaises, StoreRaises, EachStart, EachNext, EachBreak, EachReread
<1>2. CASE content' = content
    BY <1>2 DEF Own
<1>3. ASSUME NEW k \in Mutable, ChangeKey(k) PROVE Own'
  <2>1. PICK c : content' = [content EXCEPT ![k] = c]
      BY <1>3 DEF ChangeKey
  <2>2. content \in [Key -> Key]
      BY DEF HInv
  <2>3. \A l \in Key \ Mutable : content'[l] = content[l]
      BY <2>1, <2>2
  <2>. QED BY <2>3 DEF Own
<1>. QED BY <1>1, <1>2, <1>3

LEMMA NextMaps ==
    ASSUME "ht" \notin RaiseIn, "index" \notin RaiseIn, HInv, Own, [HashNext]_hashVars PROVE [Map!MapNext]_(Map!mapVars)
<1>1. Stored \subseteq Key /\ Deleted \subseteq Key
    BY HashAssumption
<1>2. ASSUME NEW k \in Stored, NEW v \in Val, mrb_hash_set(k, v) PROVE Map!MapNext
    BY <1>1, <1>2, StoreMaps DEF Map!MapNext
<1>3. ASSUME NEW k \in Deleted, mrb_hash_delete_key(k) PROVE Map!MapNext
    BY <1>1, <1>3, RemoveMaps DEF Map!MapNext
<1>4. mrb_hash_shift => Map!MapNext
    BY ShiftMaps DEF Map!MapNext
<1>5. mrb_hash_clear \/ (\E keys \in Fills : h_replace(keys)) => Map!MapNext
    BY ReplaceMaps
<1>6. mrb_hash_compact => Map!MapNext
    BY CompactMaps DEF Map!MapNext
<1>7. mrb_hash_rehash \/ RehashRaises => Map!MapNext
    BY RehashMaps DEF Map!MapNext
<1>8. ASSUME NEW k \in Mutable, ChangeKey(k) PROVE Map!MapNext
    BY <1>8, ChangeMaps DEF Map!MapNext
<1>9. EachStart \/ EachNext \/ EachBreak \/ EachReread => UNCHANGED Map!mapVars
    BY EachMaps
<1>10. UNCHANGED hashVars => UNCHANGED Map!mapVars
  <2>. SUFFICES ASSUME UNCHANGED hashVars PROVE UNCHANGED Map!mapVars
      OBVIOUS
  <2>1. h' = h /\ content' = content /\ stale' = stale
      BY DEF hashVars
  <2>2. PairsOf(h)' = PairsOf(h)
      BY <2>1, NextPairs
  <2>. QED BY <2>1, <2>2 DEF Map!mapVars
<1>11. ASSUME NEW k \in Stored, StoreRaises(k) PROVE UNCHANGED Map!mapVars
    BY <1>11, StoreRaisesMaps
<1>. QED BY <1>2, <1>3, <1>4, <1>5, <1>6, <1>7, <1>8, <1>9, <1>10, <1>11 DEF HashNext

LEMMA InitMaps == HashInit => Map!MapInit /\ Own
<1>. SUFFICES ASSUME HashInit PROVE Map!MapInit /\ Own
    OBVIOUS
<1>1. HInv /\ stale = FALSE /\ content = [k \in Key |-> k]
    BY HashInitHInv DEF HashInit
<1>2. Shape(h) /\ Distinct(h) /\ content \in [Key -> Key]
    BY <1>1 DEF HInv, Good, Entries, Keyed
<1>3. PICK n, L : /\ n \in Nat /\ Lists(L, n, Active(h)) /\ PairsOf(h) = [m \in 1 .. n |-> h.ea[L[m]]]
                  /\ PairsOf(h) \in Seq(Map!Pair)
    BY <1>2, ListOf
<1>4. ASSUME NEW p \in DOMAIN PairsOf(h), NEW q \in DOMAIN PairsOf(h),
             content[PairsOf(h)[p].key] = content[PairsOf(h)[q].key]
      PROVE  p = q
  <2>1. p \in 1 .. n /\ q \in 1 .. n /\ PairsOf(h)[p] = h.ea[L[p]] /\ PairsOf(h)[q] = h.ea[L[q]]
      BY <1>3
  <2>2. L[p] \in Active(h) /\ L[q] \in Active(h)
      BY <1>3, <2>1 DEF Lists
  <2>3. L[p] = L[q]
      BY <1>2, <1>4, <2>1, <2>2 DEF Distinct
  <2>4. L[p] \in Nat
      BY <1>2, <2>2, ActiveFacts
  <2>5. ~(p < q) /\ ~(q < p)
      BY <1>3, <2>1, <2>3, <2>4 DEF Lists
  <2>. QED BY <2>1, <2>5
<1>5. Own
    BY <1>1 DEF Own
<1>. QED BY <1>1, <1>2, <1>3, <1>4, <1>5 DEF Map!MapInit

\* A Hash is an ordered map, for tables of every size and every hash function:
\* each method does to the pairs what OrderedMap says, whichever of the two
\* tables holds them, and an iteration changes none - unless an exception ends
\* the rehash of a large table or the building of an index in the middle (RaiseIn).
THEOREM HashImplementsMap ==
    ASSUME "ht" \notin RaiseIn, "index" \notin RaiseIn PROVE HashSpec => ImplementsOrderedMap
<1>1. HInv /\ Own /\ [HashNext]_hashVars => Own'
    BY OwnKept
<1>2. HInv /\ Own /\ [HashNext]_hashVars => [Map!MapNext]_(Map!mapVars)
    BY NextMaps
<1>3. HashSpec => []HInv
    BY HashInvariant
<1>. QED BY <1>1, <1>2, <1>3, InitMaps, PTL DEF HashSpec, ImplementsOrderedMap, Map!MapSpec
=============================================================================
