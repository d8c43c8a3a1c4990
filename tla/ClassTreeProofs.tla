--------------------------- MODULE ClassTreeProofs ---------------------------
(***************************************************************************)
(* Proofs about ClassTree: whatever is included, prepended, defined,       *)
(* removed and freed, the chains keep their structure, and what is derived *)
(* from them stays right.                                                  *)
(***************************************************************************)
EXTENDS ClassTree, TLAPS, FiniteSetTheorems, SequenceTheorems, WellFoundedInduction

-----------------------------------------------------------------------------
(* Numbers.                                                                *)

\* Every set of numbers that is not empty has a least member.
LEMMA LeastMember ==
    ASSUME NEW M \in SUBSET Nat, M # {}
    PROVE  \E n \in M : \A m \in M : n <= m
<1>1. PICK n \in M : \A m \in M : ~(<<m, n>> \in OpToRel(<, Nat))
    BY WFMin, NatLessThanWellFounded
<1>2. \A m \in M : ~(m < n)
    BY <1>1 DEF OpToRel
<1>. QED BY <1>2

\* Min is that member.
LEMMA MinFacts ==
    ASSUME NEW M \in SUBSET Nat, M # {}
    PROVE  Min(M) \in M /\ \A m \in M : Min(M) <= m
    BY LeastMember DEF Min

\* A set that holds 0 and, with a number, the next one holds every number.
LEMMA InductionInSet ==
    ASSUME NEW S, 0 \in S, \A n \in Nat : n \in S => n + 1 \in S
    PROVE  \A n \in Nat : n \in S
<1>. DEFINE M == {n \in Nat : n \notin S}
<1>1. SUFFICES ASSUME M # {} PROVE FALSE
    OBVIOUS
<1>2. M \in SUBSET Nat
    OBVIOUS
<1>3. PICK n \in M : \A m \in M : n <= m
    BY <1>1, <1>2, LeastMember
<1>4. n \in Nat /\ n \notin S
    BY <1>3
<1>5. n # 0
    BY <1>4
<1>6. n - 1 \in Nat /\ n - 1 + 1 = n /\ ~(n <= n - 1)
    BY <1>4, <1>5
<1>7. n - 1 \notin M
    BY <1>3, <1>6
<1>8. n - 1 \in S
    BY <1>6, <1>7
<1>. QED BY <1>4, <1>6, <1>8

-----------------------------------------------------------------------------
(* Chains.                                                                 *)

Walked(d, g, x, n) == d = [m \in 0 .. n |-> IF m = 0 THEN << >> ELSE Onward(g, x, d[m - 1])]

\* The recursion of a walk has a solution.
LEMMA WalkedExists == ASSUME NEW g, NEW x PROVE \A n \in Nat : \E d : Walked(d, g, x, n)
<1>. DEFINE S == {n \in Nat : \E d : Walked(d, g, x, n)}
<1>1. 0 \in S
  <2>. DEFINE d == [m \in 0 .. 0 |-> << >>]
  <2>1. Walked(d, g, x, 0)
      BY DEF Walked
  <2>. QED BY <2>1
<1>2. ASSUME NEW n \in Nat, n \in S PROVE n + 1 \in S
  <2>1. PICK d : Walked(d, g, x, n)
      BY <1>2
  <2>. DEFINE f == [m \in 0 .. n + 1 |-> IF m <= n THEN d[m] ELSE Onward(g, x, d[n])]
  <2>2. ASSUME NEW m \in 0 .. n + 1 PROVE f[m] = IF m = 0 THEN << >> ELSE Onward(g, x, f[m - 1])
    <3>1. CASE m = 0
        BY <2>1, <3>1 DEF Walked
    <3>2. CASE m # 0 /\ m <= n
      <4>1. m \in 0 .. n /\ m - 1 \in 0 .. n + 1 /\ m - 1 <= n
          BY <3>2
      <4>2. f[m] = d[m] /\ f[m - 1] = d[m - 1]
          BY <3>2, <4>1
      <4>3. d[m] = Onward(g, x, d[m - 1])
          BY <2>1, <3>2, <4>1 DEF Walked
      <4>. QED BY <3>2, <4>2, <4>3
    <3>3. CASE m = n + 1
      <4>1. m - 1 = n /\ n \in 0 .. n + 1 /\ m # 0 /\ ~(n + 1 <= n)
          BY <3>3
      <4>2. f[n] = d[n] /\ f[n + 1] = Onward(g, x, d[n])
          BY <4>1
      <4>. QED BY <3>3, <4>1, <4>2
    <3>. QED BY <3>1, <3>2, <3>3
  <2>3. f = [m \in 0 .. n + 1 |-> IF m = 0 THEN << >> ELSE Onward(g, x, f[m - 1])]
      BY <2>2
  <2>. HIDE DEF f
  <2>4. Walked(f, g, x, n + 1)
      BY <2>3 DEF Walked
  <2>. QED BY <2>4
<1>. HIDE DEF S
<1>3. \A n \in Nat : n \in S
    BY <1>1, <1>2, InductionInSet
<1>. QED BY <1>3 DEF S

\* Ranks fall along the super pointers.
Ranked(g, rank) ==
    /\ IsFiniteSet(DOMAIN g.super)
    /\ NULL \notin DOMAIN g.super
    /\ \A x \in DOMAIN g.super :
           /\ rank[x] \in Nat
           /\ g.super[x] # NULL => g.super[x] \in DOMAIN g.super /\ rank[g.super[x]] < rank[x]

\* up is a part of the chain of x, from its start.
Walks(g, x, up) ==
    /\ up \in Seq(DOMAIN g.super)
    /\ Len(up) > 0 => up[1] = x
    /\ \A i \in 1 .. Len(up) - 1 : g.super[up[i]] = up[i + 1]

\* Ranks fall along a walk, however long.
LEMMA WalkFalls ==
    ASSUME NEW g, NEW rank, Ranked(g, rank), NEW x, NEW up, Walks(g, x, up),
           NEW i \in 1 .. Len(up)
    PROVE  \A j \in i + 1 .. Len(up) : rank[up[j]] < rank[up[i]]
<1>. DEFINE S == {n \in Nat : i + n + 1 <= Len(up) => rank[up[i + n + 1]] < rank[up[i]]}
<1>0. Len(up) \in Nat /\ \A j \in 1 .. Len(up) : up[j] \in DOMAIN g.super
    BY DEF Walks
<1>a. \A j \in 1 .. Len(up) - 1 : rank[up[j]] \in Nat /\ rank[up[j + 1]] \in Nat /\ rank[up[j + 1]] < rank[up[j]]
    BY <1>0, SMTT(30) DEF Walks, Ranked
<1>1. 0 \in S
    BY <1>0, <1>a
<1>2. ASSUME NEW n \in Nat, n \in S PROVE n + 1 \in S
  <2>. SUFFICES ASSUME i + (n + 1) + 1 <= Len(up) PROVE rank[up[i + (n + 1) + 1]] < rank[up[i]]
      OBVIOUS
  <2>1. i + n + 1 \in 1 .. Len(up) - 1 /\ i + (n + 1) + 1 = i + n + 1 + 1 /\ i \in 1 .. Len(up) - 1
      BY <1>0
  <2>2. rank[up[i + n + 1]] < rank[up[i]]
      BY <1>2, <2>1, <1>0
  <2>3. rank[up[i]] \in Nat /\ rank[up[i + n + 1]] \in Nat /\ rank[up[i + n + 1 + 1]] \in Nat
        /\ rank[up[i + n + 1 + 1]] < rank[up[i + n + 1]]
      BY <2>1, <1>a
  <2>. QED BY <2>1, <2>2, <2>3
<1>. HIDE DEF S
<1>3. \A n \in Nat : n \in S
    BY <1>1, <1>2, InductionInSet
<1>4. ASSUME NEW j \in i + 1 .. Len(up) PROVE rank[up[j]] < rank[up[i]]
  <2>1. j - i - 1 \in Nat /\ i + (j - i - 1) + 1 = j /\ j <= Len(up)
      BY <1>0
  <2>. QED BY <1>3, <2>1 DEF S
<1>. QED BY <1>4

\* So a walk does not pass a place twice, and is not longer than there are places.
LEMMA WalkBounded ==
    ASSUME NEW g, NEW rank, Ranked(g, rank), NEW x, NEW up, Walks(g, x, up)
    PROVE  /\ \A i, j \in 1 .. Len(up) : up[i] = up[j] => i = j
           /\ Len(up) <= Cardinality(DOMAIN g.super)
<1>0. Len(up) \in Nat /\ up \in [1 .. Len(up) -> DOMAIN g.super]
    BY DEF Walks
<1>a. \A i \in 1 .. Len(up) : rank[up[i]] \in Nat
    BY <1>0 DEF Ranked
<1>1. ASSUME NEW i \in 1 .. Len(up), NEW j \in 1 .. Len(up), up[i] = up[j] PROVE i = j
  <2>1. CASE i < j
    <3>1. j \in i + 1 .. Len(up)
        BY <2>1, <1>0
    <3>. QED BY <3>1, <1>1, <1>a, WalkFalls
  <2>2. CASE j < i
    <3>1. i \in j + 1 .. Len(up)
        BY <2>2, <1>0
    <3>. QED BY <3>1, <1>1, <1>a, WalkFalls
  <2>. QED BY <2>1, <2>2, <1>0
<1>2. up \in Injection(1 .. Len(up), DOMAIN g.super)
    BY <1>0, <1>1 DEF Injection, IsInjective
<1>3. IsFiniteSet(1 .. Len(up)) /\ Cardinality(1 .. Len(up)) = Len(up)
    BY <1>0, FS_Interval
<1>4. Cardinality(1 .. Len(up)) <= Cardinality(DOMAIN g.super)
    BY <1>2, FS_Injection DEF Ranked, ExistsInjection
<1>. QED BY <1>1, <1>3, <1>4


\* The whole chain of x
Full(g, x, up) == Walks(g, x, up) /\ Len(up) > 0 /\ g.super[up[Len(up)]] = NULL

\* A step of a walk leaves a walk, one longer or at its end.
LEMMA OnwardWalks ==
    ASSUME NEW g, NEW rank, Ranked(g, rank), NEW x \in DOMAIN g.super, NEW up, Walks(g, x, up)
    PROVE  /\ Walks(g, x, Onward(g, x, up))
           /\ \/ Len(Onward(g, x, up)) = Len(up) + 1
              \/ Onward(g, x, up) = up /\ Full(g, x, up)
<1>0. up \in Seq(DOMAIN g.super) /\ Len(up) \in Nat
    BY DEF Walks
<1>1. CASE up = << >>
  <2>1. Onward(g, x, up) = Append(up, x)
      BY <1>1 DEF Onward, Ranked
  <2>2. Append(up, x) \in Seq(DOMAIN g.super) /\ Len(Append(up, x)) = 1 /\ Append(up, x)[1] = x
    <3>1. Len(up) = 0
        BY <1>1
    <3>. QED BY <1>0, <3>1, AppendProperties
  <2>3. Walks(g, x, Append(up, x))
      BY <2>2 DEF Walks
  <2>. QED BY <1>1, <2>1, <2>2, <2>3
<1>2. CASE up # << >>
  <2>. DEFINE last == up[Len(up)]
  <2>1. Len(up) > 0 /\ last \in DOMAIN g.super
      BY <1>0, <1>2
  <2>2. CASE g.super[last] = NULL
    <3>1. Onward(g, x, up) = up
        BY <1>2, <2>2 DEF Onward
    <3>. QED BY <2>1, <2>2, <3>1 DEF Full
  <2>3. CASE g.super[last] # NULL
    <3>2. PICK z \in DOMAIN g.super : z = g.super[last]
        BY <2>1, <2>3 DEF Ranked
    <3>. DEFINE longer == Append(up, z)
    <3>1. Onward(g, x, up) = longer
        BY <1>2, <2>3, <3>2 DEF Onward
    <3>3. /\ longer \in Seq(DOMAIN g.super) /\ Len(longer) = Len(up) + 1
          /\ \A i \in 1 .. Len(up) : longer[i] = up[i]
          /\ longer[Len(up) + 1] = z
        BY <1>0, <3>2, AppendProperties, ZenonT(90)
    <3>. HIDE DEF longer
    <3>4. longer[1] = x
        BY <1>0, <2>1, <3>3 DEF Walks
    <3>5. \A i \in 1 .. Len(up) : g.super[longer[i]] = longer[i + 1]
      <4>1. ASSUME NEW i \in 1 .. Len(up), i < Len(up) PROVE g.super[longer[i]] = longer[i + 1]
        <5>1. i + 1 \in 1 .. Len(up) /\ i \in 1 .. Len(up) - 1
            BY <4>1, <1>0
        <5>. QED BY <3>3, <5>1 DEF Walks
      <4>2. ASSUME NEW i \in 1 .. Len(up), i = Len(up) PROVE g.super[longer[i]] = longer[i + 1]
          BY <4>2, <3>2, <3>3
      <4>. QED BY <4>1, <4>2, <1>0
    <3>6. Walks(g, x, longer)
        BY <1>0, <3>3, <3>4, <3>5 DEF Walks
    <3>. QED BY <3>1, <3>3, <3>6
  <2>. QED BY <2>2, <2>3
<1>. QED BY <1>1, <1>2

\* Chain(g, x) is the whole chain.
LEMMA ChainFull ==
    ASSUME NEW g, NEW rank, Ranked(g, rank), NEW x \in DOMAIN g.super
    PROVE  Full(g, x, Chain(g, x))
<1>. DEFINE N == Cardinality(DOMAIN g.super)
            d == CHOOSE d : Walked(d, g, x, N)
<1>1. N \in Nat
    BY FS_CardinalityType DEF Ranked
<1>2. Walked(d, g, x, N)
    BY <1>1, WalkedExists
<1>3. Chain(g, x) = d[N]
    BY DEF Chain, Walked
<1>. HIDE DEF d, N
<1>. DEFINE S == {n \in Nat : n <= N => Walks(g, x, d[n]) /\ (Len(d[n]) = n \/ Full(g, x, d[n]))}
<1>4. 0 \in S
  <2>1. d[0] = << >>
      BY <1>1, <1>2 DEF Walked
  <2>2. << >> \in Seq(DOMAIN g.super) /\ Len(<< >>) = 0
      OBVIOUS
  <2>3. Walks(g, x, << >>)
      BY <2>2 DEF Walks
  <2>. QED BY <2>1, <2>2, <2>3
<1>5. ASSUME NEW n \in Nat, n \in S PROVE n + 1 \in S
  <2>. SUFFICES ASSUME n + 1 <= N
                PROVE  Walks(g, x, d[n + 1]) /\ (Len(d[n + 1]) = n + 1 \/ Full(g, x, d[n + 1]))
      OBVIOUS
  <2>1. n + 1 \in 0 .. N /\ n + 1 # 0 /\ n + 1 - 1 = n /\ n <= N
      BY <1>1
  <2>2. d[n + 1] = Onward(g, x, d[n])
      BY <1>2, <2>1 DEF Walked
  <2>3. Walks(g, x, d[n]) /\ (Len(d[n]) = n \/ Full(g, x, d[n]))
      BY <1>5, <2>1
  <2>4. PICK up : up = d[n]
      OBVIOUS
  <2>5. CASE Onward(g, x, up) = up /\ Full(g, x, up)
      BY <2>2, <2>3, <2>4, <2>5
  <2>6. CASE Len(Onward(g, x, up)) = Len(up) + 1
    <3>1. CASE Full(g, x, up)
      <4>1. up # << >>
          BY <3>1 DEF Full
      <4>2. Onward(g, x, up) = up
          BY <3>1, <4>1 DEF Onward, Full
      <4>. QED BY <2>2, <2>3, <2>4, <3>1, <4>2
    <3>2. CASE Len(up) = n
        BY <2>2, <2>3, <2>4, <2>6, <3>2, OnwardWalks
    <3>. QED BY <2>3, <2>4, <3>1, <3>2
  <2>. QED BY <2>3, <2>4, <2>5, <2>6, OnwardWalks
<1>. HIDE DEF S
<1>6. \A n \in Nat : n \in S
    BY <1>4, <1>5, InductionInSet
<1>7. Walks(g, x, d[N]) /\ (Len(d[N]) = N \/ Full(g, x, d[N]))
    BY <1>1, <1>6 DEF S
<1>8. PICK up : up = d[N]
    OBVIOUS
<1>9. ASSUME Len(up) = N PROVE Full(g, x, up)
  <2>1. Walks(g, x, Onward(g, x, up)) /\ Walks(g, x, up)
      BY <1>7, <1>8, OnwardWalks
  <2>2. Len(Onward(g, x, up)) <= N
      BY <2>1, WalkBounded DEF N
  <2>3. Len(Onward(g, x, up)) # Len(up) + 1
      BY <1>1, <1>9, <2>2
  <2>. QED BY <2>1, <2>3, OnwardWalks
<1>. QED BY <1>3, <1>7, <1>8, <1>9

\* Two heaps that lead the same way from x have the same chain of x.
LEMMA SameChain ==
    ASSUME NEW g, NEW f, NEW x, NEW up, NEW vp, Full(g, x, up), Full(f, x, vp),
           NULL \notin DOMAIN g.super, NULL \notin DOMAIN f.super,
           \A i \in 1 .. Len(up) : f.super[up[i]] = g.super[up[i]]
    PROVE  up = vp
<1>0. /\ up \in Seq(DOMAIN g.super) /\ Len(up) \in Nat /\ Len(up) > 0
      /\ vp \in Seq(DOMAIN f.super) /\ Len(vp) \in Nat /\ Len(vp) > 0
    BY DEF Full, Walks
<1>. DEFINE S == {n \in Nat : n + 1 <= Len(up) => n + 1 <= Len(vp) /\ vp[n + 1] = up[n + 1]}
<1>1. 0 \in S
    BY <1>0 DEF Full, Walks
<1>2. ASSUME NEW n \in Nat, n \in S PROVE n + 1 \in S
  <2>. SUFFICES ASSUME n + 1 + 1 <= Len(up) PROVE n + 1 + 1 <= Len(vp) /\ vp[n + 1 + 1] = up[n + 1 + 1]
      OBVIOUS
  <2>1. n + 1 <= Len(vp) /\ vp[n + 1] = up[n + 1]
      BY <1>0, <1>2
  <2>2. n + 1 \in 1 .. Len(up) - 1 /\ n + 1 \in 1 .. Len(up) /\ n + 1 + 1 \in 1 .. Len(up)
      BY <1>0
  <2>3. f.super[vp[n + 1]] = up[n + 1 + 1] /\ up[n + 1 + 1] # NULL
      BY <1>0, <2>1, <2>2 DEF Full, Walks
  <2>4. n + 1 # Len(vp)
      BY <2>3 DEF Full
  <2>5. n + 1 \in 1 .. Len(vp) - 1
      BY <1>0, <2>1, <2>4
  <2>. QED BY <1>0, <2>3, <2>5 DEF Full, Walks
<1>. HIDE DEF S
<1>3. \A n \in Nat : n \in S
    BY <1>1, <1>2, InductionInSet
<1>4. \A i \in 1 .. Len(up) : i <= Len(vp) /\ vp[i] = up[i]
  <2>1. \A i \in 1 .. Len(up) : i - 1 \in Nat /\ i - 1 + 1 = i
      BY <1>0
  <2>2. \A i \in 1 .. Len(up) : i - 1 \in S /\ i <= Len(up)
      BY <1>0, <1>3, <2>1
  <2>3. \A n \in S : n + 1 <= Len(up) => n + 1 <= Len(vp) /\ vp[n + 1] = up[n + 1]
      BY DEF S
  <2>4. ASSUME NEW i \in 1 .. Len(up) PROVE i <= Len(vp) /\ vp[i] = up[i]
    <3>1. PICK n \in S : n = i - 1 /\ n + 1 = i
        BY <2>1, <2>2
    <3>2. n + 1 <= Len(up)
        BY <3>1, <2>2
    <3>. QED BY <2>3, <3>1, <3>2
  <2>. QED BY <2>4
<1>5. Len(vp) = Len(up)
  <2>1. Len(up) <= Len(vp) /\ Len(up) \in 1 .. Len(up)
      BY <1>0, <1>4
  <2>2. f.super[vp[Len(up)]] = NULL
      BY <1>4, <2>1 DEF Full
  <2>3. ASSUME Len(up) < Len(vp) PROVE FALSE
    <3>1. Len(up) \in 1 .. Len(vp) - 1 /\ Len(up) + 1 \in 1 .. Len(vp)
        BY <1>0, <2>3
    <3>2. f.super[vp[Len(up)]] = vp[Len(up) + 1] /\ vp[Len(up) + 1] \in DOMAIN f.super
        BY <1>0, <3>1 DEF Full, Walks
    <3>. QED BY <2>2, <3>2
  <2>. QED BY <1>0, <2>1, <2>3
<1>. QED BY <1>0, <1>4, <1>5

-----------------------------------------------------------------------------
(* What stands on a chain.                                                 *)

On(g, x) == ToSet(Chain(g, x))

LEMMA OnFacts ==
    ASSUME NEW g, NEW rank, Ranked(g, rank), NEW x \in DOMAIN g.super
    PROVE  /\ x \in On(g, x) /\ On(g, x) \subseteq DOMAIN g.super
           /\ \A y \in On(g, x) : g.super[y] # NULL => g.super[y] \in On(g, x)
<1>. DEFINE up == Chain(g, x)
<1>1. Full(g, x, up)
    BY ChainFull
<1>. HIDE DEF up
<1>2. On(g, x) = {up[i] : i \in 1 .. Len(up)}
    BY <1>1 DEF On, ToSet, Full, Walks, up
<1>3. up \in Seq(DOMAIN g.super) /\ Len(up) \in Nat /\ Len(up) > 0 /\ up[1] = x
    BY <1>1 DEF Full, Walks
<1>4. ASSUME NEW i \in 1 .. Len(up), g.super[up[i]] # NULL
      PROVE  \E j \in 1 .. Len(up) : g.super[up[i]] = up[j]
  <2>1. i \in 1 .. Len(up) - 1 /\ i + 1 \in 1 .. Len(up)
      BY <1>1, <1>3, <1>4 DEF Full
  <2>2. g.super[up[i]] = up[i + 1]
      BY <1>1, <2>1 DEF Full, Walks
  <2>. QED BY <2>1, <2>2
<1>. QED BY <1>2, <1>3, <1>4

\* What holds x and, with a place, the next one holds the whole chain.
LEMMA OnInduction ==
    ASSUME NEW g, NEW rank, Ranked(g, rank), NEW x \in DOMAIN g.super, NEW S, x \in S,
           \A y \in S : y \in DOMAIN g.super /\ g.super[y] # NULL => g.super[y] \in S
    PROVE  On(g, x) \subseteq S
<1>. DEFINE up == Chain(g, x)
<1>1. Full(g, x, up)
    BY ChainFull
<1>. HIDE DEF up
<1>2. On(g, x) = {up[i] : i \in 1 .. Len(up)}
    BY <1>1 DEF On, ToSet, Full, Walks, up
<1>3. up \in Seq(DOMAIN g.super) /\ Len(up) \in Nat /\ Len(up) > 0 /\ up[1] = x
    BY <1>1 DEF Full, Walks
<1>. DEFINE T == {n \in Nat : n + 1 <= Len(up) => up[n + 1] \in S}
<1>4. 0 \in T
    BY <1>3
<1>5. ASSUME NEW n \in Nat, n \in T PROVE n + 1 \in T
  <2>. SUFFICES ASSUME n + 1 + 1 <= Len(up) PROVE up[n + 1 + 1] \in S
      OBVIOUS
  <2>1. n + 1 <= Len(up) /\ n + 1 \in 1 .. Len(up) - 1 /\ n + 1 \in 1 .. Len(up) /\ n + 1 + 1 \in 1 .. Len(up)
      BY <1>3
  <2>2. up[n + 1] \in S /\ up[n + 1] \in DOMAIN g.super /\ up[n + 1 + 1] \in DOMAIN g.super
      BY <1>3, <1>5, <2>1
  <2>3. g.super[up[n + 1]] = up[n + 1 + 1]
      BY <1>1, <2>1 DEF Full, Walks
  <2>. QED BY <2>2, <2>3 DEF Ranked
<1>. HIDE DEF T
<1>6. \A n \in Nat : n \in T
    BY <1>4, <1>5, InductionInSet
<1>7. ASSUME NEW i \in 1 .. Len(up) PROVE up[i] \in S
  <2>1. i - 1 \in Nat /\ i - 1 + 1 = i /\ i <= Len(up)
      BY <1>3
  <2>. QED BY <1>6, <2>1 DEF T
<1>. QED BY <1>2, <1>7

LEMMA OnSuffix ==
    ASSUME NEW g, NEW rank, Ranked(g, rank), NEW x \in DOMAIN g.super, NEW y \in On(g, x)
    PROVE  On(g, y) \subseteq On(g, x)
<1>1. y \in DOMAIN g.super /\ \A z \in On(g, x) : g.super[z] # NULL => g.super[z] \in On(g, x)
    BY OnFacts
<1>. QED BY <1>1, OnInduction

\* The first place of X on a sequence
LEMMA FirstOfFacts ==
    ASSUME NEW up, NEW D, up \in Seq(D), NEW X
    PROVE  \/ FirstOf(up, X) = 0 /\ \A i \in 1 .. Len(up) : up[i] \notin X
           \/ /\ FirstOf(up, X) \in 1 .. Len(up) /\ up[FirstOf(up, X)] \in X
              /\ \A i \in 1 .. FirstOf(up, X) - 1 : up[i] \notin X
<1>. DEFINE places == {i \in DOMAIN up : up[i] \in X}
<1>1. DOMAIN up = 1 .. Len(up) /\ Len(up) \in Nat
    OBVIOUS
<1>2. CASE places = {}
    BY <1>1, <1>2 DEF FirstOf
<1>3. CASE places # {}
  <2>1. FirstOf(up, X) = Min(places)
      BY <1>3 DEF FirstOf
  <2>2. places \in SUBSET Nat
      BY <1>1
  <2>3. Min(places) \in places /\ \A m \in places : Min(places) <= m
      BY <1>3, <2>2, MinFacts
  <2>4. PICK n : n = Min(places)
      OBVIOUS
  <2>5. ASSUME NEW i \in 1 .. n - 1 PROVE up[i] \notin X
    <3>1. i \in DOMAIN up /\ ~(n <= i)
        BY <1>1, <2>3, <2>4
    <3>. QED BY <2>3, <2>4, <3>1
  <2>. QED BY <1>1, <2>1, <2>3, <2>4, <2>5
<1>. QED BY <1>2, <1>3


-----------------------------------------------------------------------------
(* Threads.  Every ICLASS belongs to the class or module it was put behind, *)
(* directly or not: its owner.  A chain is the thread of its head, then the *)
(* threads of the superclasses.                                             *)

Heads(g) == DOMAIN g.super \ Iclasses(g)
Above(c) == IF c \in Class THEN SuperOf[c] ELSE NULL

\* The fields of a heap, what is an ICLASS and what is not
Shaped(g) ==
    /\ g = [super |-> g.super, mt |-> g.mt, of |-> g.of, origin |-> g.origin,
            prepended |-> g.prepended, inherited |-> g.inherited, eq |-> g.eq]
    /\ IsFiniteSet(DOMAIN g.super) /\ DOMAIN g.mt = DOMAIN g.super
    /\ Iclasses(g) \subseteq DOMAIN g.super /\ Iclasses(g) \subseteq Nat
    /\ Heads(g) \subseteq Named /\ Named \ Singleton \subseteq Heads(g)
    /\ g.origin \subseteq Iclasses(g) /\ g.prepended \subseteq Heads(g)

\* Ranks fall along every pointer; a thread has no two members of one rank,
\* and a pointer leads to the next lower member of it, if there is one.
Threaded(g, rank, owner) ==
    \A x \in DOMAIN g.super :
        /\ rank[x] \in Nat /\ owner[x] \in Heads(g)
        /\ x \in Heads(g) => owner[x] = x
        /\ x \in Iclasses(g) => rank[x] < rank[owner[x]]
        /\ \/ g.super[x] \in Iclasses(g) /\ owner[g.super[x]] = owner[x] /\ rank[g.super[x]] < rank[x]
           \/ /\ g.super[x] = Above(owner[x])
              /\ g.super[x] # NULL => g.super[x] \in Heads(g) /\ rank[g.super[x]] < rank[x]
        /\ \A y \in DOMAIN g.super : owner[y] = owner[x] =>
               /\ rank[y] = rank[x] => y = x
               /\ rank[y] < rank[x] => g.super[x] \in Iclasses(g) /\ rank[y] <= rank[g.super[x]]

LEMMA NullNowhere == ASSUME NEW g, Shaped(g) PROVE NULL \notin DOMAIN g.super
    BY ClassAssumption DEF Shaped, Heads

LEMMA ThreadRanked ==
    ASSUME NEW g, NEW rank, NEW owner, Shaped(g), Threaded(g, rank, owner)
    PROVE  Ranked(g, rank)
    BY NullNowhere DEF Shaped, Threaded, Ranked, Heads

\* Everything stands on the chain of its owner.
LEMMA OwnThread ==
    ASSUME NEW g, NEW rank, NEW owner, Shaped(g), Threaded(g, rank, owner), NEW y \in DOMAIN g.super
    PROVE  y \in On(g, owner[y])
<1>. DEFINE k == owner[y]
            M == {n \in Nat : \E x \in On(g, k) : owner[x] = k /\ rank[x] = n /\ rank[y] <= n}
<1>1. Ranked(g, rank)
    BY ThreadRanked
<1>2. k \in Heads(g) /\ k \in DOMAIN g.super /\ owner[k] = k
    BY DEF Threaded, Heads
<1>3. rank[y] <= rank[k] /\ rank[k] \in Nat /\ rank[y] \in Nat
    BY <1>2 DEF Threaded, Heads
<1>4. k \in On(g, k) /\ On(g, k) \subseteq DOMAIN g.super
      /\ \A x \in On(g, k) : g.super[x] # NULL => g.super[x] \in On(g, k)
    BY <1>1, <1>2, OnFacts
<1>5. M # {} /\ M \in SUBSET Nat
    BY <1>2, <1>3, <1>4
<1>6. PICK n \in M : \A m \in M : n <= m
    BY <1>5, LeastMember
<1>7. PICK x \in On(g, k) : owner[x] = k /\ rank[x] = n /\ rank[y] <= n
    BY <1>6
<1>8. ASSUME x # y PROVE FALSE
  <2>1. x \in DOMAIN g.super /\ rank[y] < rank[x] /\ n \in Nat
      BY <1>3, <1>4, <1>6, <1>7, <1>8 DEF Threaded
  <2>2. g.super[x] \in Iclasses(g) /\ rank[y] <= rank[g.super[x]]
      BY <1>7, <2>1 DEF Threaded
  <2>3. g.super[x] \in DOMAIN g.super /\ g.super[x] # NULL /\ g.super[x] \notin Heads(g)
      BY <2>2, NullNowhere DEF Shaped, Heads
  <2>4. owner[g.super[x]] = k /\ rank[g.super[x]] < n /\ rank[g.super[x]] \in Nat
      BY <1>7, <2>1, <2>2, <2>3 DEF Threaded
  <2>5. g.super[x] \in On(g, k)
      BY <1>4, <2>3
  <2>6. rank[g.super[x]] \in M
      BY <2>2, <2>4, <2>5
  <2>. QED BY <1>6, <2>4, <2>6
<1>. QED BY <1>7, <1>8

\* What stands on the chain of a class or module is its own or a superclass's;
\* no one's chain passes a singleton class, but its own.
LEMMA OnOwner ==
    ASSUME NEW g, NEW rank, NEW owner, Shaped(g), Threaded(g, rank, owner),
           NEW k \in Heads(g), NEW y \in On(g, k)
    PROVE  /\ y \in DOMAIN g.super /\ owner[y] \in On(g, k)
           /\ owner[y] = k \/ (k \in Class /\ owner[y] \in Class \ Singleton)
<1>. DEFINE S == {x \in On(g, k) : owner[x] \in On(g, k)
                                   /\ (owner[x] = k \/ (k \in Class /\ owner[x] \in Class \ Singleton))}
<1>1. Ranked(g, rank) /\ k \in DOMAIN g.super /\ owner[k] = k
    BY ThreadRanked DEF Heads, Threaded
<1>2. k \in On(g, k) /\ On(g, k) \subseteq DOMAIN g.super
      /\ \A x \in On(g, k) : g.super[x] # NULL => g.super[x] \in On(g, k)
    BY <1>1, OnFacts
<1>3. k \in S
    BY <1>1, <1>2
<1>4. ASSUME NEW x \in S, g.super[x] # NULL PROVE g.super[x] \in S
  <2>1. x \in DOMAIN g.super /\ g.super[x] \in On(g, k)
      BY <1>2, <1>4
  <2>2. CASE g.super[x] \in Iclasses(g) /\ owner[g.super[x]] = owner[x]
      BY <2>1, <2>2
  <2>3. CASE g.super[x] = Above(owner[x]) /\ g.super[x] \in Heads(g)
    <3>1. owner[x] \in Class /\ g.super[x] \in Class \ Singleton
        BY <1>4, <2>3, ClassAssumption DEF Above
    <3>2. owner[g.super[x]] = g.super[x]
        BY <2>3 DEF Threaded, Heads
    <3>. QED BY <1>4, <2>1, <3>1, <3>2
  <2>. QED BY <1>4, <2>1, <2>2, <2>3 DEF Threaded
<1>. HIDE DEF S
<1>5. On(g, k) \subseteq S
    BY <1>1, <1>3, <1>4, OnInduction
<1>. QED BY <1>2, <1>5 DEF S

-----------------------------------------------------------------------------
(* What an ICLASS stands for, and which table it shares.                   *)

Standing(g, owner) ==
    /\ \A x \in g.origin : g.of[x] = owner[x] /\ owner[x] \in g.prepended
    /\ \A x, y \in g.origin : owner[x] = owner[y] => x = y
    /\ \A x \in Iclasses(g) \ g.origin : g.of[x] \in Module
    /\ \A c \in g.prepended : g.mt[c] = NULL /\ \E o \in g.origin : owner[o] = c
    /\ \A x \in DOMAIN g.super \ g.prepended :
           g.mt[x] = Real(g, x) \/ (g.mt[x] = NULL /\ Real(g, x) \in Singleton)

Sound(g, rank, owner) == Shaped(g) /\ Threaded(g, rank, owner) /\ Standing(g, owner)

\* The origin of a prepended class is the one of its own thread.
LEMMA OriginOwn ==
    ASSUME NEW g, NEW rank, NEW owner, Sound(g, rank, owner), NEW c \in g.prepended
    PROVE  Origin(g, c) \in g.origin /\ owner[Origin(g, c)] = c
<1>. DEFINE up == Chain(g, c)
            first == FirstOf(up, g.origin)
<1>1. Shaped(g) /\ Threaded(g, rank, owner) /\ Standing(g, owner) /\ Ranked(g, rank)
    BY ThreadRanked DEF Sound
<1>2. c \in Heads(g) /\ c \in DOMAIN g.super /\ owner[c] = c
    BY <1>1 DEF Shaped, Heads, Threaded
<1>3. PICK o \in g.origin : owner[o] = c
    BY <1>1 DEF Standing
<1>4. o \in On(g, c) /\ o \in DOMAIN g.super
    BY <1>1, <1>3, OwnThread DEF Shaped
<1>5. Full(g, c, up)
    BY <1>1, <1>2, ChainFull
<1>. HIDE DEF up
<1>6. up \in Seq(DOMAIN g.super) /\ Len(up) \in Nat
    BY <1>5 DEF Full, Walks
<1>7. PICK j \in 1 .. Len(up) : up[j] = o
    BY <1>4, <1>6 DEF On, ToSet, up
<1>8. first \in 1 .. Len(up) /\ up[first] \in g.origin /\ \A i \in 1 .. first - 1 : up[i] \notin g.origin
    BY <1>3, <1>6, <1>7, FirstOfFacts
<1>. HIDE DEF first
<1>9. rank[o] <= rank[up[first]]
  <2>1. first <= j
      BY <1>3, <1>6, <1>7, <1>8
  <2>2. rank[o] \in Nat
      BY <1>1, <1>4 DEF Threaded
  <2>3. CASE first = j
      BY <1>7, <2>2, <2>3
  <2>4. CASE first < j
    <3>1. j \in first + 1 .. Len(up)
        BY <1>6, <1>8, <2>4
    <3>2. rank[up[j]] < rank[up[first]] /\ rank[up[first]] \in Nat
        BY <1>1, <1>5, <1>6, <1>8, <3>1, WalkFalls DEF Full, Threaded
    <3>. QED BY <1>7, <2>2, <3>2
  <2>. QED BY <1>6, <1>8, <2>1, <2>3, <2>4
<1>. DEFINE S == {x \in DOMAIN g.super : rank[o] <= rank[x] => owner[x] = c}
<1>10. c \in S
    BY <1>2
<1>11. ASSUME NEW x \in S, g.super[x] # NULL PROVE g.super[x] \in S
  <2>1. rank[x] \in Nat /\ rank[o] \in Nat /\ g.super[x] \in DOMAIN g.super
        /\ rank[g.super[x]] \in Nat /\ rank[g.super[x]] < rank[x]
      BY <1>1, <1>4, <1>11 DEF Ranked
  <2>2. CASE rank[o] < rank[x]
    <3>1. owner[x] = c
        BY <1>11, <2>1, <2>2
    <3>2. g.super[x] \in Iclasses(g)
        BY <1>1, <1>3, <1>4, <1>11, <2>2, <3>1 DEF Threaded
    <3>3. g.super[x] \notin Heads(g)
        BY <3>2 DEF Heads
    <3>4. owner[g.super[x]] = c
        BY <1>1, <1>11, <3>1, <3>3 DEF Threaded
    <3>. QED BY <2>1, <3>4
  <2>3. CASE ~(rank[o] < rank[x])
      BY <2>1, <2>3
  <2>. QED BY <2>2, <2>3
<1>. HIDE DEF S
<1>12. On(g, c) \subseteq S
    BY <1>1, <1>2, <1>10, <1>11, OnInduction
<1>13. up[first] \in On(g, c)
    BY <1>6, <1>8 DEF On, ToSet, up
<1>14. owner[up[first]] = c
    BY <1>9, <1>12, <1>13 DEF S
<1>15. Origin(g, c) = up[first]
    BY DEF Origin, up, first
<1>. QED BY <1>8, <1>14, <1>15


-----------------------------------------------------------------------------
(* A new ICLASS behind p.                                                  *)

LEMMA NextIclassNew ==
    ASSUME NEW g, Shaped(g)
    PROVE  NextIclass(g) \in Nat /\ NextIclass(g) \notin Iclasses(g) /\ NextIclass(g) \notin DOMAIN g.super
<1>. DEFINE N == Cardinality(Iclasses(g))
            free == (1 .. N + 1) \ Iclasses(g)
<1>1. IsFiniteSet(Iclasses(g)) /\ N \in Nat
    BY FS_Subset, FS_CardinalityType DEF Shaped
<1>2. IsFiniteSet(1 .. N + 1) /\ Cardinality(1 .. N + 1) = N + 1
    BY <1>1, FS_Interval
<1>3. free # {}
  <2>1. SUFFICES ASSUME 1 .. N + 1 \subseteq Iclasses(g) PROVE FALSE
      OBVIOUS
  <2>2. Cardinality(1 .. N + 1) <= N
      BY <1>1, <2>1, FS_Subset
  <2>. QED BY <1>1, <1>2, <2>2
<1>4. free \in SUBSET Nat
    BY <1>1
<1>5. NextIclass(g) \in free
    BY <1>3, <1>4, MinFacts DEF NextIclass
<1>. QED BY <1>4, <1>5, ClassAssumption DEF Shaped, Heads

LEMMA PutFields ==
    ASSUME NEW g, Shaped(g), NEW p \in DOMAIN g.super, NEW of, NEW mt, NEW n, n = NextIclass(g),
           NEW f, f = Put(g, p, of, mt)
    PROVE  /\ f.origin = g.origin /\ f.prepended = g.prepended /\ f.inherited = g.inherited /\ f.eq = g.eq
           /\ DOMAIN f.super = DOMAIN g.super \cup {n} /\ DOMAIN f.mt = DOMAIN g.super \cup {n}
           /\ Iclasses(f) = Iclasses(g) \cup {n} /\ Heads(f) = Heads(g)
           /\ f.super[n] = g.super[p] /\ f.super[p] = n /\ f.mt[n] = mt /\ f.of[n] = of
           /\ \A x \in DOMAIN g.super : (x # p => f.super[x] = g.super[x]) /\ f.mt[x] = g.mt[x]
           /\ \A x \in Iclasses(g) : f.of[x] = g.of[x]
           /\ f = [super |-> f.super, mt |-> f.mt, of |-> f.of, origin |-> f.origin,
                   prepended |-> f.prepended, inherited |-> f.inherited, eq |-> f.eq]
<1>1. n \notin DOMAIN g.super /\ n \notin Iclasses(g) /\ n # p
    BY NextIclassNew
<1>. DEFINE super == With([g.super EXCEPT ![p] = n], n, g.super[p])
            fmt == With(g.mt, n, mt)
            fof == With(g.of, n, of)
<1>2. f = [g EXCEPT !.super = super, !.mt = fmt, !.of = fof]
    BY DEF Put
<1>3. /\ DOMAIN super = DOMAIN g.super \cup {n} /\ super[n] = g.super[p] /\ super[p] = n
      /\ \A x \in DOMAIN g.super : x # p => super[x] = g.super[x]
    BY <1>1 DEF With
<1>4. DOMAIN fmt = DOMAIN g.super \cup {n} /\ fmt[n] = mt /\ \A x \in DOMAIN g.super : fmt[x] = g.mt[x]
    BY <1>1 DEF With, Shaped
<1>5. DOMAIN fof = Iclasses(g) \cup {n} /\ fof[n] = of /\ \A x \in Iclasses(g) : fof[x] = g.of[x]
    BY <1>1 DEF With, Iclasses
<1>. HIDE DEF super, fmt, fof
<1>6. f = [super |-> super, mt |-> fmt, of |-> fof, origin |-> g.origin,
           prepended |-> g.prepended, inherited |-> g.inherited, eq |-> g.eq]
    BY <1>2 DEF Shaped
<1>7. f.super = super /\ f.mt = fmt /\ f.of = fof /\ f.origin = g.origin
      /\ f.prepended = g.prepended /\ f.inherited = g.inherited /\ f.eq = g.eq
    BY <1>6
<1>8. Iclasses(f) = Iclasses(g) \cup {n}
    BY <1>5, <1>7 DEF Iclasses
<1>9. Heads(f) = Heads(g)
    BY <1>1, <1>3, <1>7, <1>8 DEF Heads
<1>. QED BY <1>3, <1>4, <1>5, <1>6, <1>7, <1>8, <1>9

\* The ranks and owners after it: n takes the rank of p, and all from there
\* up move one up.
Raised(g, rank, p) ==
    [x \in DOMAIN g.super \cup {NextIclass(g)} |->
        IF x = NextIclass(g) THEN rank[p] ELSE IF rank[p] <= rank[x] THEN rank[x] + 1 ELSE rank[x]]
Adopted(g, owner, p) ==
    [x \in DOMAIN g.super \cup {NextIclass(g)} |-> IF x = NextIclass(g) THEN owner[p] ELSE owner[x]]

LEMMA PutThreaded ==
    ASSUME NEW g, NEW rank, NEW owner, Shaped(g), Threaded(g, rank, owner),
           NEW p \in DOMAIN g.super, NEW of, NEW mt
    PROVE  Shaped(Put(g, p, of, mt))
           /\ Threaded(Put(g, p, of, mt), Raised(g, rank, p), Adopted(g, owner, p))
<1>. DEFINE n == NextIclass(g)
            f == Put(g, p, of, mt)
            r == Raised(g, rank, p)
            w == Adopted(g, owner, p)
<1>1. n \in Nat /\ n \notin DOMAIN g.super /\ n \notin Iclasses(g) /\ n # p
    BY NextIclassNew
<1>2. /\ f.origin = g.origin /\ f.prepended = g.prepended
      /\ DOMAIN f.super = DOMAIN g.super \cup {n} /\ DOMAIN f.mt = DOMAIN g.super \cup {n}
      /\ Iclasses(f) = Iclasses(g) \cup {n} /\ Heads(f) = Heads(g)
      /\ f.super[n] = g.super[p] /\ f.super[p] = n
      /\ \A x \in DOMAIN g.super : x # p => f.super[x] = g.super[x]
      /\ f = [super |-> f.super, mt |-> f.mt, of |-> f.of, origin |-> f.origin,
              prepended |-> f.prepended, inherited |-> f.inherited, eq |-> f.eq]
    BY PutFields
<1>3. IsFiniteSet(DOMAIN g.super \cup {n})
    BY FS_AddElement DEF Shaped
<1>4. /\ r[n] = rank[p] /\ w[n] = owner[p]
      /\ \A x \in DOMAIN g.super : r[x] = (IF rank[p] <= rank[x] THEN rank[x] + 1 ELSE rank[x]) /\ w[x] = owner[x]
    BY <1>1 DEF Raised, Adopted
<1>. HIDE DEF n, f, r, w
<1>5. Shaped(f)
    BY <1>1, <1>2, <1>3 DEF Shaped
<1>6. \A x \in DOMAIN g.super : rank[x] \in Nat
    BY DEF Threaded
<1>7. Iclasses(g) \subseteq DOMAIN g.super /\ Heads(g) \subseteq DOMAIN g.super
      /\ Heads(g) \cap Iclasses(g) = {} /\ n # NULL /\ NULL \notin DOMAIN g.super
    BY <1>1, NullNowhere, ClassAssumption DEF Shaped, Heads
<1>8. ASSUME NEW x \in DOMAIN g.super, NEW y \in DOMAIN g.super
      PROVE  (rank[x] < rank[y] <=> r[x] < r[y]) /\ (rank[x] = rank[y] <=> r[x] = r[y])
             /\ r[x] # rank[p] /\ r[x] \in Nat /\ (r[x] < rank[p] <=> rank[x] < rank[p])
    BY <1>4, <1>6
<1>9. ASSUME NEW x \in DOMAIN f.super
      PROVE  /\ r[x] \in Nat /\ w[x] \in Heads(f)
             /\ x \in Heads(f) => w[x] = x
             /\ x \in Iclasses(f) => r[x] < r[w[x]]
  <2>1. CASE x = n
    <3>1. r[x] = rank[p] /\ w[x] = owner[p] /\ rank[p] \in Nat /\ owner[p] \in Heads(g)
        BY <1>4, <1>6, <2>1 DEF Threaded
    <3>2. x \notin Heads(f)
        BY <1>1, <1>2, <1>7, <2>1
    <3>3. r[owner[p]] = rank[owner[p]] + 1 /\ rank[owner[p]] \in Nat /\ rank[p] <= rank[owner[p]]
      <4>1. owner[p] \in DOMAIN g.super /\ rank[owner[p]] \in Nat
          BY <1>6, <1>7, <3>1
      <4>2. rank[p] <= rank[owner[p]]
        <5>1. CASE p \in Iclasses(g)
            BY <3>1, <4>1, <5>1 DEF Threaded
        <5>2. CASE p \notin Iclasses(g)
            BY <3>1, <4>1, <5>2 DEF Threaded, Heads
        <5>. QED BY <5>1, <5>2
      <4>. QED BY <1>4, <4>1, <4>2
    <3>. QED BY <1>2, <3>1, <3>2, <3>3
  <2>2. CASE x # n
    <3>1. x \in DOMAIN g.super /\ w[x] = owner[x] /\ owner[x] \in Heads(g) /\ owner[x] \in DOMAIN g.super
        BY <1>2, <1>4, <1>7, <2>2 DEF Threaded
    <3>. QED BY <1>2, <1>8, <2>2, <3>1 DEF Threaded
  <2>. QED BY <2>1, <2>2
<1>10. ASSUME NEW x \in DOMAIN f.super
       PROVE  \/ f.super[x] \in Iclasses(f) /\ w[f.super[x]] = w[x] /\ r[f.super[x]] < r[x]
              \/ /\ f.super[x] = Above(w[x])
                 /\ f.super[x] # NULL => f.super[x] \in Heads(f) /\ r[f.super[x]] < r[x]
  <2>0. \A z \in DOMAIN g.super : g.super[z] # NULL => g.super[z] \in DOMAIN g.super /\ rank[g.super[z]] < rank[z]
      BY ThreadRanked DEF Ranked
  <2>1. CASE x = p
    <3>1. rank[p] \in Nat /\ r[p] = rank[p] + 1 /\ w[p] = owner[p]
        BY <1>4, <1>6
    <3>. QED BY <1>2, <1>4, <2>1, <3>1
  <2>2. CASE x = n
    <3>1. f.super[x] = g.super[p] /\ r[x] = rank[p] /\ w[x] = owner[p]
        BY <1>2, <1>4, <2>2
    <3>2. CASE g.super[p] = NULL
      <4>1. g.super[p] = Above(owner[p])
          BY <1>7, <3>2 DEF Threaded
      <4>. QED BY <3>1, <3>2, <4>1
    <3>3. CASE g.super[p] # NULL
      <4>1. g.super[p] \in DOMAIN g.super /\ rank[g.super[p]] < rank[p]
          BY <2>0, <3>3
      <4>2. r[g.super[p]] < rank[p] /\ w[g.super[p]] = owner[g.super[p]]
          BY <1>4, <1>8, <4>1
      <4>3. CASE g.super[p] \in Iclasses(g) /\ owner[g.super[p]] = owner[p]
          BY <1>2, <3>1, <4>2, <4>3
      <4>4. CASE g.super[p] = Above(owner[p]) /\ g.super[p] \in Heads(g)
          BY <1>2, <3>1, <4>2, <4>4
      <4>. QED BY <3>3, <4>3, <4>4 DEF Threaded
    <3>. QED BY <3>2, <3>3
  <2>3. CASE x # p /\ x # n
    <3>1. x \in DOMAIN g.super /\ f.super[x] = g.super[x] /\ w[x] = owner[x]
        BY <1>2, <1>4, <2>3
    <3>2. CASE g.super[x] = NULL
      <4>1. g.super[x] = Above(owner[x])
          BY <1>7, <3>1, <3>2 DEF Threaded
      <4>. QED BY <3>1, <3>2, <4>1
    <3>3. CASE g.super[x] # NULL
      <4>1. g.super[x] \in DOMAIN g.super /\ rank[g.super[x]] < rank[x]
          BY <2>0, <3>1, <3>3
      <4>2. r[g.super[x]] < r[x] /\ w[g.super[x]] = owner[g.super[x]]
          BY <1>4, <1>8, <3>1, <4>1
      <4>3. CASE g.super[x] \in Iclasses(g) /\ owner[g.super[x]] = owner[x]
          BY <1>2, <3>1, <4>2, <4>3
      <4>4. CASE g.super[x] = Above(owner[x]) /\ g.super[x] \in Heads(g)
          BY <1>2, <3>1, <4>2, <4>4
      <4>. QED BY <3>1, <3>3, <4>3, <4>4 DEF Threaded
    <3>. QED BY <3>2, <3>3
  <2>. QED BY <2>1, <2>2, <2>3
<1>11. ASSUME NEW x \in DOMAIN f.super, NEW y \in DOMAIN f.super, w[y] = w[x]
       PROVE  /\ r[y] = r[x] => y = x
              /\ r[y] < r[x] => f.super[x] \in Iclasses(f) /\ r[y] <= r[f.super[x]]
  <2>0. rank[p] \in Nat /\ r[p] = rank[p] + 1
      BY <1>4, <1>6
  <2>1. CASE x = n /\ y = n
      BY <1>9, <2>1
  <2>2. CASE x = n /\ y # n
    <3>1. y \in DOMAIN g.super /\ owner[y] = owner[p] /\ r[x] = rank[p] /\ f.super[x] = g.super[p]
        BY <1>2, <1>4, <1>11, <2>2
    <3>2. ASSUME r[y] < r[x] PROVE f.super[x] \in Iclasses(f) /\ r[y] <= r[f.super[x]]
      <4>1. rank[y] < rank[p]
          BY <1>8, <3>1, <3>2
      <4>2. g.super[p] \in Iclasses(g) /\ rank[y] <= rank[g.super[p]]
          BY <3>1, <4>1 DEF Threaded
      <4>3. r[y] <= r[g.super[p]]
          BY <1>4, <1>6, <1>7, <3>1, <4>2
      <4>. QED BY <1>2, <3>1, <4>2, <4>3
    <3>. QED BY <1>8, <3>1, <3>2
  <2>3. CASE x = p
    <3>1. f.super[x] = n /\ n \in Iclasses(f) /\ r[n] = rank[p]
        BY <1>2, <1>4, <2>3
    <3>2. r[y] < r[x] => r[y] <= r[n]
        BY <1>4, <1>9, <2>0, <2>3
    <3>3. r[y] = r[x] => y = x
      <4>1. CASE y = n
          BY <1>4, <2>0, <2>3, <4>1
      <4>2. CASE y # n
        <5>1. y \in DOMAIN g.super /\ owner[y] = owner[x]
            BY <1>2, <1>4, <1>11, <2>3, <4>2
        <5>. QED BY <1>8, <2>3, <5>1 DEF Threaded
      <4>. QED BY <4>1, <4>2
    <3>. QED BY <3>1, <3>2, <3>3
  <2>4. CASE x # p /\ x # n /\ y = n
    <3>1. x \in DOMAIN g.super /\ owner[p] = owner[x] /\ f.super[x] = g.super[x] /\ r[y] = rank[p]
        BY <1>2, <1>4, <1>11, <2>4
    <3>2. ASSUME r[y] < r[x] PROVE f.super[x] \in Iclasses(f) /\ r[y] <= r[f.super[x]]
      <4>1. rank[p] < rank[x]
        <5>1. rank[x] # rank[p]
            BY <2>4, <3>1 DEF Threaded
        <5>. QED BY <1>4, <1>6, <3>1, <3>2, <5>1
      <4>2. g.super[x] \in Iclasses(g) /\ rank[p] <= rank[g.super[x]]
          BY <3>1, <4>1 DEF Threaded
      <4>3. rank[p] <= r[g.super[x]]
          BY <1>4, <1>6, <1>7, <4>2
      <4>. QED BY <1>2, <3>1, <4>2, <4>3
    <3>. QED BY <1>8, <3>1, <3>2
  <2>5. CASE x # p /\ x # n /\ y # n
    <3>1. x \in DOMAIN g.super /\ y \in DOMAIN g.super /\ owner[y] = owner[x] /\ f.super[x] = g.super[x]
        BY <1>2, <1>4, <1>11, <2>5
    <3>2. r[y] = r[x] => y = x
        BY <1>8, <3>1 DEF Threaded
    <3>3. ASSUME r[y] < r[x] PROVE f.super[x] \in Iclasses(f) /\ r[y] <= r[f.super[x]]
      <4>1. rank[y] < rank[x]
          BY <1>8, <3>1, <3>3
      <4>2. g.super[x] \in Iclasses(g) /\ rank[y] <= rank[g.super[x]]
          BY <3>1, <4>1 DEF Threaded
      <4>3. r[y] <= r[g.super[x]]
          BY <1>4, <1>6, <1>7, <3>1, <4>2
      <4>. QED BY <1>2, <3>1, <4>2, <4>3
    <3>. QED BY <3>2, <3>3
  <2>. QED BY <2>1, <2>2, <2>3, <2>4, <2>5
<1>12. Threaded(f, r, w)
    BY <1>9, <1>10, <1>11 DEF Threaded
<1>. QED BY <1>5, <1>12 DEF f, r, w


\* Another flag or mark changes nothing of it.
LEMMA SoundMarked ==
    ASSUME NEW g, NEW rank, NEW owner, Sound(g, rank, owner), NEW f,
           f.super = g.super, f.mt = g.mt, f.of = g.of, f.origin = g.origin, f.prepended = g.prepended,
           f = [super |-> f.super, mt |-> f.mt, of |-> f.of, origin |-> f.origin,
                prepended |-> f.prepended, inherited |-> f.inherited, eq |-> f.eq]
    PROVE  /\ Sound(f, rank, owner) /\ Iclasses(f) = Iclasses(g) /\ Heads(f) = Heads(g)
           /\ \A x : Real(f, x) = Real(g, x)
           /\ \A x \in DOMAIN g.super : Chain(f, x) = Chain(g, x) /\ On(f, x) = On(g, x)
<1>1. Iclasses(f) = Iclasses(g) /\ Heads(f) = Heads(g)
    BY DEF Iclasses, Heads
<1>2. \A x : Real(f, x) = Real(g, x)
    BY <1>1 DEF Real
<1>5. Shaped(f)
    BY <1>1 DEF Sound, Shaped
<1>6. Threaded(f, rank, owner)
    BY <1>1 DEF Sound, Threaded
<1>3. Ranked(g, rank) /\ Ranked(f, rank)
    BY <1>5, <1>6, ThreadRanked DEF Sound
<1>4. ASSUME NEW x \in DOMAIN g.super PROVE Chain(f, x) = Chain(g, x) /\ On(f, x) = On(g, x)
  <2>1. Full(g, x, Chain(g, x)) /\ Full(f, x, Chain(f, x))
      BY <1>3, ChainFull
  <2>2. Chain(f, x) = Chain(g, x)
      BY <1>3, <2>1, SameChain DEF Ranked
  <2>. QED BY <2>2 DEF On
<1>7. Standing(f, owner)
    BY <1>1, <1>2 DEF Sound, Standing
<1>. QED BY <1>1, <1>2, <1>4, <1>5, <1>6, <1>7 DEF Sound

\* A module's table is named after it, wherever it is.
LEMMA ModuleTable ==
    ASSUME NEW g, NEW rank, NEW owner, Sound(g, rank, owner), NEW m \in Module
    PROVE  /\ m \in Heads(g) /\ m \notin Class /\ m \notin Singleton
           /\ Origin(g, m) \in DOMAIN g.super /\ g.mt[Origin(g, m)] = m
<1>1. m \notin Singleton /\ m \notin Class /\ m \in Named
    BY ClassAssumption DEF Named
<1>2. m \in Heads(g) /\ m \in DOMAIN g.super /\ m \notin Iclasses(g)
    BY <1>1 DEF Sound, Shaped, Heads
<1>3. CASE m \notin g.prepended
  <2>1. Origin(g, m) = m
      BY <1>3 DEF Origin
  <2>2. Real(g, m) = m
      BY <1>2 DEF Real
  <2>. QED BY <1>1, <1>2, <1>3, <2>1, <2>2 DEF Sound, Standing
<1>4. CASE m \in g.prepended
  <2>1. Origin(g, m) \in g.origin /\ owner[Origin(g, m)] = m
      BY <1>4, OriginOwn
  <2>2. PICK o : o = Origin(g, m)
      OBVIOUS
  <2>3. o \in Iclasses(g) /\ o \in DOMAIN g.super /\ o \notin g.prepended
      BY <2>1, <2>2 DEF Sound, Shaped, Heads
  <2>4. Real(g, o) = m
      BY <2>1, <2>2, <2>3 DEF Sound, Standing, Real
  <2>5. g.mt[o] = m
      BY <1>1, <2>3, <2>4 DEF Sound, Standing
  <2>. QED BY <1>1, <1>2, <2>2, <2>3, <2>5
<1>. QED BY <1>3, <1>4

\* f is g with more ICLASSes, which changes nothing for what was there.
Grown(g, owner, f, w) ==
    /\ DOMAIN g.super \subseteq DOMAIN f.super /\ Heads(f) = Heads(g)
    /\ f.origin = g.origin /\ f.prepended = g.prepended
    /\ \A x \in DOMAIN g.super : w[x] = owner[x] /\ f.mt[x] = g.mt[x] /\ Real(f, x) = Real(g, x)
    /\ \A k \in Heads(g) : On(g, k) = On(f, k) \cap DOMAIN g.super

LEMMA GrownSelf ==
    ASSUME NEW g, NEW rank, NEW owner, Sound(g, rank, owner)
    PROVE  Grown(g, owner, g, owner)
<1>1. \A k \in Heads(g) : On(g, k) \subseteq DOMAIN g.super
    BY ThreadRanked, OnFacts DEF Sound, Heads
<1>. QED BY <1>1 DEF Grown

LEMMA GrownOn ==
    ASSUME NEW g, NEW owner, NEW e, NEW v, NEW f, NEW w, Grown(g, owner, e, v), Grown(e, v, f, w)
    PROVE  Grown(g, owner, f, w)
    BY DEF Grown

\* A chain with a new ICLASS on it is the chain it was, otherwise.
LEMMA PutOn ==
    ASSUME NEW g, NEW rank, NEW owner, Shaped(g), Threaded(g, rank, owner),
           NEW p \in DOMAIN g.super, NEW of, NEW mt, NEW f, f = Put(g, p, of, mt), NEW k \in DOMAIN g.super
    PROVE  On(g, k) = On(f, k) \cap DOMAIN g.super
<1>. DEFINE n == NextIclass(g)
<1>1. n \notin DOMAIN g.super
    BY NextIclassNew
<1>2. /\ DOMAIN f.super = DOMAIN g.super \cup {n} /\ f.super[n] = g.super[p] /\ f.super[p] = n
      /\ \A x \in DOMAIN g.super : x # p => f.super[x] = g.super[x]
    BY PutFields
<1>3. Ranked(g, rank) /\ Ranked(f, Raised(g, rank, p))
    BY ThreadRanked, PutThreaded
<1>. HIDE DEF n
<1>4. k \in On(g, k) /\ On(g, k) \subseteq DOMAIN g.super
      /\ \A y \in On(g, k) : g.super[y] # NULL => g.super[y] \in On(g, k)
    BY <1>3, OnFacts
<1>5. k \in On(f, k) /\ On(f, k) \subseteq DOMAIN f.super
      /\ \A y \in On(f, k) : f.super[y] # NULL => f.super[y] \in On(f, k)
    BY <1>2, <1>3, OnFacts
<1>6. n # NULL
    BY <1>2, <1>3 DEF Ranked
<1>7. On(g, k) \subseteq On(f, k)
  <2>. DEFINE S == On(f, k) \cap DOMAIN g.super
  <2>1. ASSUME NEW y \in S, g.super[y] # NULL PROVE g.super[y] \in S
    <3>1. g.super[y] \in DOMAIN g.super
        BY <1>3, <2>1 DEF Ranked
    <3>2. CASE y # p
        BY <1>2, <1>5, <2>1, <3>1, <3>2
    <3>3. CASE y = p
        BY <1>2, <1>5, <1>6, <2>1, <3>1, <3>3
    <3>. QED BY <3>2, <3>3
  <2>2. k \in S
      BY <1>5
  <2>. HIDE DEF S
  <2>3. On(g, k) \subseteq S
      BY <1>3, <2>1, <2>2, OnInduction
  <2>. QED BY <2>3 DEF S
<1>8. On(f, k) \cap DOMAIN g.super \subseteq On(g, k)
  <2>. DEFINE S == {y \in DOMAIN f.super : y \in On(g, k) \/ (y = n /\ p \in On(g, k))}
  <2>1. ASSUME NEW y \in S, f.super[y] # NULL PROVE f.super[y] \in S
    <3>1. CASE y = n
        BY <1>1, <1>2, <1>4, <2>1, <3>1
    <3>2. CASE y = p
        BY <1>1, <1>2, <1>4, <2>1, <3>2
    <3>3. CASE y # n /\ y # p
        BY <1>2, <1>4, <2>1, <3>3
    <3>. QED BY <3>1, <3>2, <3>3
  <2>2. k \in S /\ k \in DOMAIN f.super
      BY <1>2, <1>4
  <2>. HIDE DEF S
  <2>3. On(f, k) \subseteq S
      BY <1>3, <2>1, <2>2, OnInduction
  <2>. QED BY <1>1, <2>3 DEF S
<1>. QED BY <1>4, <1>7, <1>8

\* include_class_new(): the ICLASS of a module behind p
LEMMA IncludeClassNew ==
    ASSUME NEW g, NEW rank, NEW owner, Sound(g, rank, owner), NEW p \in DOMAIN g.super,
           NEW m \in DOMAIN g.super, Real(g, m) \in Module, NEW f, f = include_class_new(g, m, p),
           NEW n, n = NextIclass(g), NEW w, w = Adopted(g, owner, p)
    PROVE  /\ Sound(f, Raised(g, rank, p), w) /\ Grown(g, owner, f, w)
           /\ DOMAIN f.super = DOMAIN g.super \cup {n} /\ n \notin DOMAIN g.super
           /\ w[n] = owner[p] /\ n \in Iclasses(f) /\ Real(f, n) = Real(g, m)
           /\ f.inherited = g.inherited /\ f.eq = g.eq
<1>. DEFINE M == Real(g, m)
<1>1. M \in Heads(g) /\ M \notin Singleton /\ g.mt[Origin(g, M)] = M
    BY ModuleTable
<1>. HIDE DEF M
<1>2. f = Put(g, p, M, M)
    BY <1>1 DEF include_class_new, M
<1>3. n \in Nat /\ n \notin Iclasses(g) /\ n \notin DOMAIN g.super
    BY NextIclassNew DEF Sound
<1>4. Shaped(f) /\ Threaded(f, Raised(g, rank, p), w)
    BY <1>2, PutThreaded DEF Sound
<1>5. /\ f.origin = g.origin /\ f.prepended = g.prepended /\ f.inherited = g.inherited /\ f.eq = g.eq
      /\ DOMAIN f.super = DOMAIN g.super \cup {n}
      /\ Iclasses(f) = Iclasses(g) \cup {n} /\ Heads(f) = Heads(g)
      /\ f.mt[n] = M /\ f.of[n] = M
      /\ \A x \in DOMAIN g.super : f.mt[x] = g.mt[x]
      /\ \A x \in Iclasses(g) : f.of[x] = g.of[x]
    BY <1>2, PutFields DEF Sound
<1>6. w[n] = owner[p] /\ \A x \in DOMAIN g.super : w[x] = owner[x]
    BY <1>3 DEF Adopted
<1>7. Real(f, n) = M /\ \A x \in DOMAIN g.super : Real(f, x) = Real(g, x)
    BY <1>3, <1>5 DEF Real
<1>8. Standing(f, w)
  <2>1. g.origin \subseteq Iclasses(g) /\ Iclasses(g) \subseteq DOMAIN g.super /\ g.prepended \subseteq DOMAIN g.super
        /\ n \notin g.prepended
      BY <1>3 DEF Sound, Shaped, Heads
  <2>2. \A x \in f.origin : f.of[x] = w[x] /\ w[x] \in f.prepended
      BY <1>5, <1>6, <2>1 DEF Sound, Standing
  <2>3. \A x, y \in f.origin : w[x] = w[y] => x = y
      BY <1>5, <1>6, <2>1 DEF Sound, Standing
  <2>4. \A x \in Iclasses(f) \ f.origin : f.of[x] \in Module
      BY <1>5, <2>1 DEF Sound, Standing, M
  <2>5. \A c \in f.prepended : f.mt[c] = NULL /\ \E o \in f.origin : w[o] = c
      BY <1>5, <1>6, <2>1 DEF Sound, Standing
  <2>6. \A x \in DOMAIN f.super \ f.prepended :
           f.mt[x] = Real(f, x) \/ (f.mt[x] = NULL /\ Real(f, x) \in Singleton)
      BY <1>5, <1>7 DEF Sound, Standing
  <2>. QED BY <2>2, <2>3, <2>4, <2>5, <2>6 DEF Standing
<1>9. ASSUME NEW k \in Heads(g) PROVE On(g, k) = On(f, k) \cap DOMAIN g.super
    BY <1>2, PutOn DEF Sound, Heads
<1>. QED BY <1>3, <1>4, <1>5, <1>6, <1>7, <1>8, <1>9 DEF Sound, Grown, M


-----------------------------------------------------------------------------
(* The loop of include_module_at().                                        *)

TailOf(g, x, up) == up = Tail(Chain(g, x))

\* What stands on the chain of x before a class is of the same thread.
LEMMA BeforeOwn ==
    ASSUME NEW g, NEW rank, NEW owner, Shaped(g), Threaded(g, rank, owner), NEW x \in DOMAIN g.super,
           NEW up, TailOf(g, x, up), NEW i \in 1 .. Len(up),
           FirstOf(up, Class \ Singleton) = 0 \/ i < FirstOf(up, Class \ Singleton)
    PROVE  owner[up[i]] = owner[x]
<1>. DEFINE ch == Chain(g, x)
            class == FirstOf(up, Class \ Singleton)
<1>1. Full(g, x, ch) /\ Ranked(g, rank)
    BY ThreadRanked, ChainFull
<1>2. ch \in Seq(DOMAIN g.super) /\ Len(ch) \in Nat /\ ch # << >> /\ ch[1] = x
    BY <1>1 DEF Full, Walks
<1>3. up \in Seq(DOMAIN g.super) /\ Len(up) = Len(ch) - 1 /\ \A j \in 1 .. Len(up) : up[j] = ch[j + 1]
    BY <1>2, HeadTailProperties DEF TailOf
<1>4. \A j \in 1 .. i : up[j] \notin Class \ Singleton
  <2>0. PICK n : n = class
      OBVIOUS
  <2>1. \/ n = 0 /\ \A j \in 1 .. Len(up) : up[j] \notin Class \ Singleton
        \/ n \in 1 .. Len(up) /\ \A j \in 1 .. n - 1 : up[j] \notin Class \ Singleton
      BY <1>3, <2>0, FirstOfFacts
  <2>2. n = 0 \/ i < n
      BY <2>0
  <2>3. Len(up) \in Nat
      BY <1>2, <1>3
  <2>. QED BY <2>1, <2>2, <2>3
<1>5. \A j \in 1 .. Len(up) : g.super[ch[j]] = up[j] /\ ch[j] \in DOMAIN g.super
  <2>1. ASSUME NEW j \in 1 .. Len(up) PROVE g.super[ch[j]] = up[j] /\ ch[j] \in DOMAIN g.super
    <3>1. j \in 1 .. Len(ch) - 1 /\ j \in 1 .. Len(ch)
        BY <1>2, <1>3
    <3>2. g.super[ch[j]] = ch[j + 1]
        BY <1>1, <3>1 DEF Full, Walks
    <3>. QED BY <1>2, <1>3, <3>1, <3>2
  <2>. QED BY <2>1
<1>. HIDE DEF ch, class
<1>. DEFINE S == {j \in Nat : j <= i => owner[ch[j + 1]] = owner[x]}
<1>6. 0 \in S
    BY <1>2
<1>7. ASSUME NEW j \in Nat, j \in S PROVE j + 1 \in S
  <2>. SUFFICES ASSUME j + 1 <= i PROVE owner[ch[j + 1 + 1]] = owner[x]
      OBVIOUS
  <2>1. owner[ch[j + 1]] = owner[x]
      BY <1>2, <1>3, <1>7
  <2>2. j + 1 \in 1 .. Len(up) /\ j + 1 \in 1 .. i
      BY <1>2, <1>3
  <2>3. g.super[ch[j + 1]] = ch[j + 1 + 1] /\ ch[j + 1] \in DOMAIN g.super /\ ch[j + 1 + 1] \notin Class \ Singleton
      BY <1>3, <1>4, <1>5, <2>2
  <2>4. ch[j + 1 + 1] # NULL
    <3>1. up[j + 1] \in DOMAIN g.super /\ ch[j + 1 + 1] = up[j + 1]
        BY <1>3, <2>2
    <3>. QED BY <1>1, <3>1 DEF Ranked
  <2>5. Above(owner[ch[j + 1]]) # ch[j + 1 + 1]
      BY <2>3, <2>4, ClassAssumption DEF Above
  <2>. QED BY <2>1, <2>3, <2>5 DEF Threaded
<1>. HIDE DEF S
<1>8. \A j \in Nat : j \in S
    BY <1>6, <1>7, InductionInSet
<1>9. i \in Nat /\ i <= i
    BY <1>2, <1>3
<1>10. owner[ch[i + 1]] = owner[x]
    BY <1>8, <1>9 DEF S
<1>. QED BY <1>3, <1>10

\* What the loop has done when it has come to b from a heap g: it grew by
\* ICLASSes of k's for members of X.
Including(g, owner, k, X, b, r, w) ==
    /\ b = [g |-> b.g, pos |-> b.pos, cyclic |-> b.cyclic] /\ b.cyclic \in BOOLEAN
    /\ Sound(b.g, r, w) /\ Grown(g, owner, b.g, w)
    /\ b.pos \in DOMAIN b.g.super /\ w[b.pos] = k
    /\ \A x \in DOMAIN b.g.super \ DOMAIN g.super : w[x] = k /\ Real(b.g, x) \in {Real(g, z) : z \in X}
    /\ b.g.eq = g.eq /\ g.inherited \subseteq b.g.inherited
    /\ \A x \in DOMAIN b.g.super \ DOMAIN g.super :
           \E z \in X \cap b.g.inherited : z \notin g.prepended /\ Real(b.g, x) = Real(g, z)

\* z has a place on the chain of k.
Placed(g, z, f, k) == \E x \in On(f, k) : Real(f, x) = Real(g, z)

\* The state of the loop when it comes to m
Coming(a, g, rank, owner, c, m) ==
    /\ g = a.g /\ a = [g |-> a.g, pos |-> a.pos, cyclic |-> a.cyclic] /\ a.cyclic \in BOOLEAN
    /\ Sound(g, rank, owner) /\ c \in DOMAIN g.super
    /\ m \in DOMAIN g.super /\ Real(g, m) \in Module
    /\ a.pos \in DOMAIN g.super /\ owner[a.pos] = owner[c]

\* b is its state when it goes on from m.
Gone(a, g, owner, c, m, klass_mt, b) ==
    /\ \E r, w : Including(g, owner, owner[c], {m}, b, r, w)
    /\ ~b.cyclic => ~a.cyclic
    /\ ~b.cyclic /\ m \notin g.prepended => Placed(g, m, b.g, owner[c])
    /\ ~b.cyclic /\ m \notin g.prepended /\ klass_mt # NULL => klass_mt # Real(g, m)
    /\ b.cyclic => a.cyclic \/ klass_mt = Real(g, m)

LEMMA IncludeOneFacts ==
    ASSUME NEW a, NEW g, NEW rank, NEW owner, NEW c, NEW m, Coming(a, g, rank, owner, c, m),
           NEW klass_mt, NEW search_super \in BOOLEAN
    PROVE  Gone(a, g, owner, c, m, klass_mt, IncludeOne(a, m, c, klass_mt, search_super))
<1>a. PICK b : b = IncludeOne(a, m, c, klass_mt, search_super)
    OBVIOUS
<1>. SUFFICES /\ \E r, w : Including(g, owner, owner[c], {m}, b, r, w)
              /\ ~b.cyclic => ~a.cyclic
              /\ ~b.cyclic /\ m \notin g.prepended => Placed(g, m, b.g, owner[c])
              /\ ~b.cyclic /\ m \notin g.prepended /\ klass_mt # NULL => klass_mt # Real(g, m)
              /\ b.cyclic => a.cyclic \/ klass_mt = Real(g, m)
    BY <1>a DEF Gone
<1>. USE <1>a
<1>0. /\ g = a.g /\ a = [g |-> a.g, pos |-> a.pos, cyclic |-> a.cyclic] /\ a.cyclic \in BOOLEAN
      /\ Sound(g, rank, owner) /\ c \in DOMAIN g.super
      /\ m \in DOMAIN g.super /\ Real(g, m) \in Module
      /\ a.pos \in DOMAIN g.super /\ owner[a.pos] = owner[c]
    BY DEF Coming
<1>. USE <1>0
<1>. DEFINE up == Tail(Chain(g, c))
            class == FirstOf(up, Class \ Singleton)
            X == {p \in Iclasses(g) : g.mt[p] = g.mt[m]}
            i == FirstOf(up, X)
            before == class = 0 \/ i < class
            k == owner[c]
<1>1. Shaped(g) /\ Threaded(g, rank, owner) /\ Standing(g, owner) /\ Ranked(g, rank)
    BY ThreadRanked DEF Sound
<1>2. k \in Heads(g) /\ k \in DOMAIN g.super
    BY <1>1 DEF Threaded, Heads
<1>3. Grown(g, owner, g, owner)
    BY GrownSelf
<1>4. m \notin g.prepended => g.mt[m] = Real(g, m)
    BY <1>1, ModuleTable DEF Standing
<1>5. CASE a.cyclic \/ m \in g.prepended
  <2>1. b = a
      BY <1>5 DEF IncludeOne
  <2>2. Including(g, owner, k, {m}, b, rank, owner)
      BY <1>3, <2>1 DEF Including
  <2>. QED BY <1>5, <2>1, <2>2
<1>6. CASE ~a.cyclic /\ m \notin g.prepended /\ klass_mt # NULL /\ klass_mt = g.mt[m]
  <2>1. b = [a EXCEPT !.cyclic = TRUE]
      BY <1>6 DEF IncludeOne
  <2>2. b = [g |-> g, pos |-> a.pos, cyclic |-> TRUE]
      BY <2>1
  <2>3. b.g = g /\ b.pos = a.pos /\ b.cyclic
      BY <2>2
  <2>4. Including(g, owner, k, {m}, b, rank, owner)
      BY <1>3, <2>2, <2>3 DEF Including
  <2>. QED BY <1>4, <1>6, <2>3, <2>4
<1>7. CASE ~a.cyclic /\ m \notin g.prepended /\ ~(klass_mt # NULL /\ klass_mt = g.mt[m])
  <2>0. klass_mt # NULL => klass_mt # Real(g, m)
      BY <1>4, <1>7
  <2>1. CASE i > 0 /\ (search_super \/ before)
    <3>1. Full(g, c, Chain(g, c))
        BY <1>1, ChainFull
    <3>2. PICK ch \in Seq(DOMAIN g.super) : ch = Chain(g, c) /\ Len(ch) \in Nat /\ ch # << >>
        BY <3>1 DEF Full, Walks
    <3>3. PICK vp \in Seq(DOMAIN g.super) :
              vp = up /\ Len(vp) = Len(ch) - 1 /\ \A j \in 1 .. Len(vp) : vp[j] = ch[j + 1]
      <4>1. PICK vp : vp = Tail(ch)
          OBVIOUS
      <4>2. vp \in Seq(DOMAIN g.super) /\ Len(vp) = Len(ch) - 1 /\ \A j \in 1 .. Len(vp) : vp[j] = ch[j + 1]
          BY <3>2, <4>1, HeadTailProperties
      <4>. QED BY <3>2, <4>1, <4>2
    <3>4. PICK j \in 1 .. Len(vp) : j = i /\ vp[j] \in X
      <4>1. FirstOf(vp, X) > 0
          BY <2>1, <3>3
      <4>. HIDE DEF X
      <4>a. vp \in Seq(DOMAIN g.super)
          BY <3>3
      <4>2. FirstOf(vp, X) \in 1 .. Len(vp) /\ vp[FirstOf(vp, X)] \in X
          BY <4>a, <4>1, FirstOfFacts
      <4>. QED BY <3>3, <4>2
    <3>5. vp[j] \in On(g, c)
      <4>1. j + 1 \in 1 .. Len(ch) /\ vp[j] = ch[j + 1]
          BY <3>2, <3>3, <3>4
      <4>. QED BY <3>2, <4>1 DEF On, ToSet
    <3>6. c \in On(g, k)
        BY <1>1, OwnThread
    <3>7. vp[j] \in On(g, k)
        BY <1>1, <1>2, <3>5, <3>6, OnSuffix
    <3>8. Real(g, vp[j]) = Real(g, m)
      <4>1. PICK y : y = vp[j]
          OBVIOUS
      <4>2. y \in Iclasses(g) /\ y \in DOMAIN g.super /\ g.mt[y] = Real(g, m) /\ y \notin g.prepended
          BY <1>1, <1>4, <1>7, <3>4, <4>1 DEF Shaped, Heads
      <4>3. Real(g, m) # NULL
          BY ClassAssumption DEF Named
      <4>. QED BY <1>1, <4>1, <4>2, <4>3 DEF Standing
    <3>9. Placed(g, m, g, k)
        BY <3>7, <3>8 DEF Placed
    <3>10. b = IF before /\ c = a.pos THEN [a EXCEPT !.pos = up[i]] ELSE a
      <4>1. ~(a.cyclic \/ m \in g.prepended) /\ ~(klass_mt # NULL /\ klass_mt = g.mt[m])
          BY <1>7
      <4>. QED BY <2>1, <4>1 DEF IncludeOne
    <3>11. CASE before /\ c = a.pos
      <4>0. PICK y : y = up[i] /\ y = vp[j]
          BY <3>3, <3>4
      <4>a. b = [a EXCEPT !.pos = y]
          BY <3>10, <3>11, <4>0
      <4>1. b = [g |-> g, pos |-> y, cyclic |-> FALSE]
          BY <1>7, <4>a
      <4>2. b.g = g /\ b.pos = y /\ ~b.cyclic
          BY <4>1
      <4>3. owner[y] = k
        <5>1. FirstOf(vp, Class \ Singleton) = 0 \/ j < FirstOf(vp, Class \ Singleton)
            BY <3>3, <3>4, <3>11
        <5>2. TailOf(g, c, vp)
            BY <3>3 DEF TailOf
        <5>. HIDE DEF up, i, before, class, X
        <5>3. owner[vp[j]] = owner[c]
          <6>1. \A x \in 1 .. Len(vp) : (FirstOf(vp, Class \ Singleton) = 0 \/ x < FirstOf(vp, Class \ Singleton))
                                         => owner[vp[x]] = owner[c]
              BY <1>1, <5>2, BeforeOwn
          <6>. QED BY <5>1, <6>1, Zenon
        <5>. QED BY <4>0, <5>3
      <4>4. y \in DOMAIN g.super
          BY <3>3, <3>4, <4>0
      <4>. HIDE DEF up, i, before, class, X
      <4>5. Including(g, owner, k, {m}, b, rank, owner)
          BY <1>3, <4>1, <4>2, <4>3, <4>4 DEF Including
      <4>. QED BY <2>0, <3>9, <4>2, <4>5, <1>7
    <3>12. CASE ~(before /\ c = a.pos)
      <4>1. b = a
          BY <3>10, <3>12
      <4>2. Including(g, owner, k, {m}, b, rank, owner)
          BY <1>3, <4>1 DEF Including
      <4>. QED BY <1>7, <2>0, <3>9, <4>1, <4>2
    <3>. QED BY <3>11, <3>12
  <2>2. CASE ~(i > 0 /\ (search_super \/ before))
    <3>. DEFINE n == NextIclass(g)
                e == include_class_new(g, m, a.pos)
                f == [e EXCEPT !.inherited = @ \cup {m}]
                r == Raised(g, rank, a.pos)
                w == Adopted(g, owner, a.pos)
    <3>1. b = [a EXCEPT !.g = f, !.pos = n]
      <4>1. ~(a.cyclic \/ m \in g.prepended) /\ ~(klass_mt # NULL /\ klass_mt = g.mt[m])
          BY <1>7
      <4>. QED BY <2>2, <4>1 DEF IncludeOne
    <3>2. /\ Sound(e, r, w) /\ Grown(g, owner, e, w)
          /\ DOMAIN e.super = DOMAIN g.super \cup {n} /\ n \notin DOMAIN g.super
          /\ w[n] = owner[a.pos] /\ n \in Iclasses(e) /\ Real(e, n) = Real(g, m)
          /\ e.inherited = g.inherited /\ e.eq = g.eq
        BY IncludeClassNew
    <3>. HIDE DEF n, e, r, w
    <3>3. e = [super |-> e.super, mt |-> e.mt, of |-> e.of, origin |-> e.origin,
               prepended |-> e.prepended, inherited |-> e.inherited, eq |-> e.eq]
        BY <3>2 DEF Sound, Shaped
    <3>4. f = [super |-> e.super, mt |-> e.mt, of |-> e.of, origin |-> e.origin,
               prepended |-> e.prepended, inherited |-> e.inherited \cup {m}, eq |-> e.eq]
        BY <3>3
    <3>. HIDE DEF f
    <3>5. /\ f.super = e.super /\ f.mt = e.mt /\ f.of = e.of /\ f.origin = e.origin /\ f.prepended = e.prepended
          /\ f.inherited = g.inherited \cup {m} /\ f.eq = g.eq
          /\ f = [super |-> f.super, mt |-> f.mt, of |-> f.of, origin |-> f.origin,
                  prepended |-> f.prepended, inherited |-> f.inherited, eq |-> f.eq]
        BY <3>2, <3>4
    <3>6. /\ Sound(f, r, w) /\ Iclasses(f) = Iclasses(e) /\ Heads(f) = Heads(e)
          /\ \A x : Real(f, x) = Real(e, x)
          /\ \A x \in DOMAIN e.super : On(f, x) = On(e, x)
        BY <3>2, <3>5, SoundMarked
    <3>7. Grown(g, owner, f, w)
      <4>1. \A x \in Heads(g) : On(f, x) = On(e, x)
          BY <3>2, <3>6 DEF Heads
      <4>. QED BY <3>2, <3>5, <3>6, <4>1 DEF Grown
    <3>8. b = [g |-> f, pos |-> n, cyclic |-> FALSE]
        BY <1>7, <3>1
    <3>9. b.g = f /\ b.pos = n /\ ~b.cyclic
        BY <3>8
    <3>10. \A x \in DOMAIN f.super \ DOMAIN g.super : w[x] = k /\ Real(f, x) = Real(g, m)
        BY <3>2, <3>5, <3>6
    <3>11. Including(g, owner, k, {m}, b, r, w)
        BY <1>7, <3>2, <3>5, <3>6, <3>7, <3>8, <3>9, <3>10 DEF Including
    <3>12. Placed(g, m, f, k)
      <4>1. n \in DOMAIN f.super /\ w[n] = k /\ Real(f, n) = Real(g, m)
          BY <3>2, <3>5, <3>10
      <4>2. n \in On(f, k)
          BY <3>6, <4>1, OwnThread DEF Sound
      <4>. QED BY <4>1, <4>2 DEF Placed
    <3>. QED BY <1>7, <2>0, <3>9, <3>11, <3>12
  <2>. QED BY <2>1, <2>2
<1>. QED BY <1>5, <1>6, <1>7


Looped(d, a, up, c, klass_mt, search_super, n) ==
    d = [i \in 0 .. n |-> IF i = 0 THEN a ELSE IncludeOne(d[i - 1], up[i], c, klass_mt, search_super)]

\* The recursion of the loop has a solution.
LEMMA LoopedExists == ASSUME NEW a, NEW up, NEW c, NEW klass_mt, NEW search_super PROVE \A n \in Nat : \E d : Looped(d, a, up, c, klass_mt, search_super, n)
<1>. DEFINE S == {n \in Nat : \E d : Looped(d, a, up, c, klass_mt, search_super, n)}
<1>1. 0 \in S
  <2>. DEFINE d == [i \in 0 .. 0 |-> a]
  <2>1. Looped(d, a, up, c, klass_mt, search_super, 0)
      BY DEF Looped
  <2>. QED BY <2>1
<1>2. ASSUME NEW n \in Nat, n \in S PROVE n + 1 \in S
  <2>1. PICK d : Looped(d, a, up, c, klass_mt, search_super, n)
      BY <1>2
  <2>. DEFINE f == [i \in 0 .. n + 1 |-> IF i <= n THEN d[i] ELSE IncludeOne(d[n], up[n + 1], c, klass_mt, search_super)]
  <2>2. ASSUME NEW i \in 0 .. n + 1 PROVE f[i] = IF i = 0 THEN a ELSE IncludeOne(f[i - 1], up[i], c, klass_mt, search_super)
    <3>1. CASE i = 0
        BY <2>1, <3>1 DEF Looped
    <3>2. CASE i # 0 /\ i <= n
      <4>1. i \in 0 .. n /\ i - 1 \in 0 .. n + 1 /\ i - 1 <= n
          BY <3>2
      <4>2. f[i] = d[i] /\ f[i - 1] = d[i - 1]
          BY <3>2, <4>1
      <4>3. d[i] = IncludeOne(d[i - 1], up[i], c, klass_mt, search_super)
          BY <2>1, <3>2, <4>1 DEF Looped
      <4>. QED BY <3>2, <4>2, <4>3
    <3>3. CASE i = n + 1
      <4>1. i - 1 = n /\ n \in 0 .. n + 1 /\ i # 0 /\ ~(n + 1 <= n)
          BY <3>3
      <4>2. f[n] = d[n] /\ f[n + 1] = IncludeOne(d[n], up[n + 1], c, klass_mt, search_super)
          BY <4>1
      <4>. QED BY <3>3, <4>1, <4>2
    <3>. QED BY <3>1, <3>2, <3>3
  <2>3. f = [i \in 0 .. n + 1 |-> IF i = 0 THEN a ELSE IncludeOne(f[i - 1], up[i], c, klass_mt, search_super)]
      BY <2>2
  <2>. HIDE DEF f
  <2>4. Looped(f, a, up, c, klass_mt, search_super, n + 1)
      BY <2>3 DEF Looped
  <2>. QED BY <2>4
<1>. HIDE DEF S
<1>3. \A n \in Nat : n \in S
    BY <1>1, <1>2, InductionInSet
<1>. QED BY <1>3 DEF S


\* One more round of the loop
LEMMA IncludingOn ==
    ASSUME NEW g, NEW owner, NEW k \in Heads(g), NEW X \in SUBSET DOMAIN g.super, NEW a, NEW r, NEW w,
           Including(g, owner, k, X, a, r, w),
           NEW z \in X, NEW b, NEW s, NEW v, Including(a.g, w, k, {z}, b, s, v)
    PROVE  /\ Including(g, owner, k, X, b, s, v)
           /\ \A y \in X : Placed(g, y, a.g, k) => Placed(g, y, b.g, k)
           /\ Placed(a.g, z, b.g, k) => Placed(g, z, b.g, k)
<1>. DEFINE e == a.g
            f == b.g
<1>1. /\ Sound(e, r, w) /\ Grown(g, owner, e, w) /\ e.eq = g.eq /\ g.inherited \subseteq e.inherited
      /\ \A x \in DOMAIN e.super \ DOMAIN g.super : w[x] = k /\ Real(e, x) \in {Real(g, y) : y \in X}
      /\ \A x \in DOMAIN e.super \ DOMAIN g.super :
             \E y \in X \cap e.inherited : y \notin g.prepended /\ Real(e, x) = Real(g, y)
    BY DEF Including
<1>2. /\ b = [g |-> b.g, pos |-> b.pos, cyclic |-> b.cyclic] /\ b.cyclic \in BOOLEAN
      /\ Sound(f, s, v) /\ Grown(e, w, f, v) /\ b.pos \in DOMAIN f.super /\ v[b.pos] = k
      /\ f.eq = e.eq /\ e.inherited \subseteq f.inherited
      /\ \A x \in DOMAIN f.super \ DOMAIN e.super : v[x] = k /\ Real(f, x) = Real(e, z)
      /\ \A x \in DOMAIN f.super \ DOMAIN e.super : z \in f.inherited /\ z \notin e.prepended
    BY DEF Including
<1>. HIDE DEF e, f
<1>3. Grown(g, owner, f, v)
    BY <1>1, <1>2, GrownOn
<1>4. z \in DOMAIN g.super /\ Real(e, z) = Real(g, z) /\ e.prepended = g.prepended /\ Heads(e) = Heads(g)
    BY <1>1 DEF Grown
<1>5. ASSUME NEW x \in DOMAIN f.super \ DOMAIN g.super
      PROVE  /\ v[x] = k /\ Real(f, x) \in {Real(g, y) : y \in X}
             /\ \E y \in X \cap f.inherited : y \notin g.prepended /\ Real(f, x) = Real(g, y)
  <2>1. CASE x \in DOMAIN e.super
    <3>1. v[x] = w[x] /\ Real(f, x) = Real(e, x)
        BY <1>2, <2>1 DEF Grown
    <3>. QED BY <1>1, <1>2, <2>1, <3>1
  <2>2. CASE x \notin DOMAIN e.super
      BY <1>2, <1>4, <2>2
  <2>. QED BY <2>1, <2>2
<1>6. Including(g, owner, k, X, b, s, v)
    BY <1>1, <1>2, <1>3, <1>5 DEF Including, f
<1>7. ASSUME NEW y \in X, Placed(g, y, e, k) PROVE Placed(g, y, f, k)
  <2>1. PICK x \in On(e, k) : Real(e, x) = Real(g, y)
      BY <1>7 DEF Placed
  <2>2. k \in Heads(e) /\ k \in DOMAIN e.super
      BY <1>4 DEF Heads
  <2>3. x \in DOMAIN e.super
      BY <1>1, <2>1, <2>2, OnFacts, ThreadRanked DEF Sound
  <2>4. x \in On(f, k) /\ Real(f, x) = Real(e, x)
      BY <1>2, <2>1, <2>2, <2>3 DEF Grown
  <2>. QED BY <2>1, <2>4 DEF Placed
<1>8. Placed(e, z, f, k) => Placed(g, z, f, k)
    BY <1>4 DEF Placed
<1>. QED BY <1>6, <1>7, <1>8 DEF e, f


\* The chain of a module holds the module and ICLASSes of modules.
LEMMA ModuleChain ==
    ASSUME NEW g, NEW rank, NEW owner, Sound(g, rank, owner), NEW m \in Module
    PROVE  /\ m \in DOMAIN g.super /\ On(g, m) \subseteq DOMAIN g.super
           /\ \A z \in DOMAIN g.super : z \in On(g, m) <=> owner[z] = m
           /\ \A z \in On(g, m) : Real(g, z) \in Module
<1>1. m \in Heads(g) /\ m \notin Class
    BY ModuleTable
<1>2. m \in DOMAIN g.super /\ Ranked(g, rank)
    BY <1>1, ThreadRanked DEF Heads, Sound
<1>3. On(g, m) \subseteq DOMAIN g.super
    BY <1>2, OnFacts
<1>4. ASSUME NEW z \in On(g, m) PROVE owner[z] = m /\ Real(g, z) \in Module
  <2>1. owner[z] = m /\ z \in DOMAIN g.super
      BY <1>1, OnOwner DEF Sound
  <2>2. CASE z \in Iclasses(g)
      BY <2>1, <2>2 DEF Sound, Standing, Real
  <2>3. CASE z \notin Iclasses(g)
      BY <2>1, <2>3 DEF Sound, Threaded, Heads, Real
  <2>. QED BY <2>1, <2>2, <2>3
<1>5. ASSUME NEW z \in DOMAIN g.super, owner[z] = m PROVE z \in On(g, m)
    BY <1>5, OwnThread DEF Sound
<1>. QED BY <1>2, <1>3, <1>4, <1>5

\* What a loop that has not given up has seen to for z
Seen(g, z, f, k, klass_mt) ==
    z \notin g.prepended => Placed(g, z, f, k) /\ (klass_mt # NULL => klass_mt # Real(g, z))

\* The names of the ancestors of k
Names(g, k) == {Real(g, x) : x \in On(g, k)}

\* The arguments of include_module_at()
Starting(g, rank, owner, c, pos, m) ==
    /\ Sound(g, rank, owner) /\ c \in DOMAIN g.super /\ pos \in DOMAIN g.super
    /\ owner[pos] = owner[c] /\ m \in Module

LEMMA IncludeLoop ==
    ASSUME NEW g, NEW rank, NEW owner, NEW c, NEW pos, NEW m, Starting(g, rank, owner, c, pos, m),
           NEW klass_mt, NEW search_super \in BOOLEAN, NEW up \in Seq(DOMAIN g.super), On(g, m) = ToSet(up),
           NEW d, Looped(d, [g |-> g, pos |-> pos, cyclic |-> FALSE], up, c, klass_mt, search_super, Len(up))
    PROVE  /\ \E r, w : Including(g, owner, owner[c], On(g, m), d[Len(up)], r, w)
           /\ ~d[Len(up)].cyclic => \A j \in 1 .. Len(up) : Seen(g, up[j], d[Len(up)].g, owner[c], klass_mt)
           /\ d[Len(up)].cyclic => klass_mt \in Names(g, m)
<1>0. /\ Sound(g, rank, owner) /\ c \in DOMAIN g.super /\ pos \in DOMAIN g.super
      /\ owner[pos] = owner[c] /\ m \in Module
    BY DEF Starting
<1>. USE <1>0
<1>a. PICK a : a = [g |-> g, pos |-> pos, cyclic |-> FALSE]
    OBVIOUS
<1>b. Looped(d, a, up, c, klass_mt, search_super, Len(up))
    BY <1>a
<1>. DEFINE k == owner[c]
            X == On(g, m)
            S == {i \in Nat : i <= Len(up) =>
                      /\ \E r, w : Including(g, owner, k, X, d[i], r, w)
                      /\ ~d[i].cyclic => \A j \in 1 .. i : Seen(g, up[j], d[i].g, k, klass_mt)
                      /\ d[i].cyclic => klass_mt \in Names(g, m)}
<1>1. k \in Heads(g) /\ X \in SUBSET DOMAIN g.super /\ \A z \in X : Real(g, z) \in Module
    BY ModuleChain DEF Sound, Threaded
<1>2. \A j \in 1 .. Len(up) : up[j] \in X
    BY DEF ToSet
<1>. HIDE DEF X, k
<1>3. 0 \in S
  <2>1. d[0] = a
      BY <1>b DEF Looped
  <2>2. a.g = g /\ a.pos = pos /\ a.cyclic = FALSE
      BY <1>a
  <2>3. Including(g, owner, k, X, a, rank, owner)
      BY <1>a, <2>2, GrownSelf DEF Including, k
  <2>. QED BY <2>1, <2>2, <2>3
<1>4. ASSUME NEW i \in Nat, i \in S PROVE i + 1 \in S
  <2>. SUFFICES ASSUME i + 1 <= Len(up)
                PROVE  /\ \E r, w : Including(g, owner, k, X, d[i + 1], r, w)
                       /\ ~d[i + 1].cyclic => \A j \in 1 .. i + 1 : Seen(g, up[j], d[i + 1].g, k, klass_mt)
                       /\ d[i + 1].cyclic => klass_mt \in Names(g, m)
      OBVIOUS
  <2>1. i + 1 \in 0 .. Len(up) /\ i + 1 # 0 /\ i + 1 - 1 = i /\ i <= Len(up) /\ i + 1 \in 1 .. Len(up)
      OBVIOUS
  <2>2. d[i + 1] = IncludeOne(d[i], up[i + 1], c, klass_mt, search_super)
    <3>1. \A q \in 0 .. Len(up) : q # 0 => d[q] = IncludeOne(d[q - 1], up[q], c, klass_mt, search_super)
        BY <1>b DEF Looped
    <3>2. d[i + 1] = IncludeOne(d[i + 1 - 1], up[i + 1], c, klass_mt, search_super)
        BY <2>1, <3>1
    <3>. QED BY <2>1, <3>2
  <2>3. PICK b : b = d[i]
      OBVIOUS
  <2>4. PICK r, w : Including(g, owner, k, X, b, r, w)
      BY <1>4, <2>1, <2>3
  <2>5. ~b.cyclic => \A j \in 1 .. i : Seen(g, up[j], b.g, k, klass_mt)
      BY <1>4, <2>1, <2>3
  <2>6. PICK z \in X : z = up[i + 1]
      BY <1>2, <2>1
  <2>7. PICK e : e = d[i + 1]
      OBVIOUS
  <2>8. PICK f : f = b.g
      OBVIOUS
  <2>9. /\ Sound(f, r, w) /\ z \in DOMAIN f.super /\ Real(f, z) = Real(g, z) /\ Real(f, z) \in Module
        /\ c \in DOMAIN f.super /\ w[c] = k /\ b = [g |-> b.g, pos |-> b.pos, cyclic |-> b.cyclic]
        /\ b.cyclic \in BOOLEAN /\ b.pos \in DOMAIN f.super /\ w[b.pos] = w[c] /\ f.prepended = g.prepended
      BY <1>1, <2>4, <2>6, <2>8 DEF Including, Grown, k
  <2>10. e = IncludeOne(b, z, c, klass_mt, search_super)
      BY <2>2, <2>3, <2>6, <2>7
  <2>11. /\ \E s, v : Including(f, w, w[c], {z}, e, s, v)
         /\ ~e.cyclic => ~b.cyclic
         /\ ~e.cyclic /\ z \notin f.prepended => Placed(f, z, e.g, w[c])
         /\ ~e.cyclic /\ z \notin f.prepended /\ klass_mt # NULL => klass_mt # Real(f, z)
         /\ e.cyclic => b.cyclic \/ klass_mt = Real(f, z)
    <3>1. Coming(b, f, r, w, c, z)
        BY <2>8, <2>9 DEF Coming
    <3>2. Gone(b, f, w, c, z, klass_mt, IncludeOne(b, z, c, klass_mt, search_super))
        BY <3>1, IncludeOneFacts
    <3>3. Gone(b, f, w, c, z, klass_mt, e)
        BY <2>10, <3>2
    <3>. QED BY <3>3 DEF Gone
  <2>12. PICK s, v : Including(f, w, k, {z}, e, s, v)
      BY <2>9, <2>11
  <2>13. /\ Including(g, owner, k, X, e, s, v)
         /\ \A y \in X : Placed(g, y, f, k) => Placed(g, y, e.g, k)
         /\ Placed(f, z, e.g, k) => Placed(g, z, e.g, k)
      BY <1>1, <2>4, <2>8, <2>12, IncludingOn
  <2>14. ASSUME ~e.cyclic, NEW j \in 1 .. i + 1 PROVE Seen(g, up[j], e.g, k, klass_mt)
    <3>1. CASE j = i + 1
        BY <2>6, <2>9, <2>11, <2>13, <2>14, <3>1 DEF Seen
    <3>2. CASE j # i + 1
      <4>1. j \in 1 .. i /\ j \in 1 .. Len(up)
          BY <2>1, <3>2
      <4>2. Seen(g, up[j], f, k, klass_mt) /\ up[j] \in X
          BY <1>2, <2>5, <2>8, <2>11, <2>14, <4>1
      <4>. QED BY <2>13, <4>2 DEF Seen
    <3>. QED BY <3>1, <3>2
  <2>15. e.cyclic => klass_mt \in Names(g, m)
    <3>1. b.cyclic => klass_mt \in Names(g, m)
        BY <1>4, <2>1, <2>3
    <3>. QED BY <2>6, <2>9, <2>11, <3>1 DEF Names, X
  <2>. QED BY <2>7, <2>13, <2>14, <2>15
<1>. HIDE DEF S
<1>5. \A i \in Nat : i \in S
    BY <1>3, <1>4, InductionInSet
<1>6. Len(up) \in S
    BY <1>5
<1>. QED BY <1>6 DEF S, k, X

\* Marks are all that eq_defined_mark() changes.
LEMMA MarkSound ==
    ASSUME NEW g, NEW rank, NEW owner, Sound(g, rank, owner), NEW c, NEW f, f = eq_defined_mark(g, c)
    PROVE  /\ f.super = g.super /\ f.mt = g.mt /\ f.of = g.of /\ f.origin = g.origin
           /\ f.prepended = g.prepended /\ f.inherited = g.inherited
           /\ Sound(f, rank, owner) /\ Iclasses(f) = Iclasses(g) /\ Heads(f) = Heads(g)
           /\ \A x : Real(f, x) = Real(g, x)
           /\ \A x \in DOMAIN g.super : Chain(f, x) = Chain(g, x) /\ On(f, x) = On(g, x)
<1>1. g = [super |-> g.super, mt |-> g.mt, of |-> g.of, origin |-> g.origin,
           prepended |-> g.prepended, inherited |-> g.inherited, eq |-> g.eq]
    BY DEF Sound, Shaped
<1>2. \E E : f = [g EXCEPT !.eq = E] \/ f = g
    BY DEF eq_defined_mark
<1>3. PICK E : f = [super |-> g.super, mt |-> g.mt, of |-> g.of, origin |-> g.origin,
                    prepended |-> g.prepended, inherited |-> g.inherited, eq |-> E]
  <2>1. PICK E : f = [g EXCEPT !.eq = E] \/ f = g
      BY <1>2
  <2>2. CASE f = g
      BY <1>1, <2>2
  <2>3. CASE f = [g EXCEPT !.eq = E]
      BY <1>1, <2>3
  <2>. QED BY <2>1, <2>2, <2>3
<1>4. /\ f.super = g.super /\ f.mt = g.mt /\ f.of = g.of /\ f.origin = g.origin
      /\ f.prepended = g.prepended /\ f.inherited = g.inherited
      /\ f = [super |-> f.super, mt |-> f.mt, of |-> f.of, origin |-> f.origin,
              prepended |-> f.prepended, inherited |-> f.inherited, eq |-> f.eq]
    BY <1>3
<1>. QED BY <1>4, SoundMarked

\* include_module_at(): the loop, then the mark.
LEMMA IncludeAt ==
    ASSUME NEW g, NEW rank, NEW owner, NEW c, NEW pos, NEW m, Starting(g, rank, owner, c, pos, m),
           NEW search_super \in BOOLEAN, NEW out, out = include_module_at(g, c, pos, m, search_super)
    PROVE  \E done, r, w :
               /\ Including(g, owner, owner[c], On(g, m), done, r, w)
               /\ ~done.cyclic => \A z \in On(g, m) : Seen(g, z, done.g, owner[c], g.mt[Origin(g, c)])
               /\ done.cyclic => g.mt[Origin(g, c)] \in Names(g, m)
               /\ out.cyclic = done.cyclic
               /\ out.g = IF ~done.cyclic /\ m \in g.eq THEN eq_defined_mark(done.g, c) ELSE done.g
<1>. DEFINE up == Chain(g, m)
            klass_mt == g.mt[Origin(g, c)]
            a == [g |-> g, pos |-> pos, cyclic |-> FALSE]
            d == CHOOSE d : Looped(d, a, up, c, klass_mt, search_super, Len(up))
            done == d[Len(up)]
<1>0. Sound(g, rank, owner) /\ m \in Module
    BY DEF Starting
<1>1. m \in DOMAIN g.super /\ Ranked(g, rank)
    BY <1>0, ModuleChain, ThreadRanked DEF Sound
<1>2. up \in Seq(DOMAIN g.super) /\ Len(up) \in Nat
    BY <1>1, ChainFull DEF Full, Walks
<1>3. Looped(d, a, up, c, klass_mt, search_super, Len(up))
    BY <1>2, LoopedExists
<1>4. out = [g |-> IF ~done.cyclic /\ m \in g.eq THEN eq_defined_mark(done.g, c) ELSE done.g,
             cyclic |-> done.cyclic]
    BY DEF include_module_at, Looped
<1>5. On(g, m) = ToSet(up)
    BY DEF On
<1>. HIDE DEF up, klass_mt, d
<1>6. /\ \E r, w : Including(g, owner, owner[c], On(g, m), done, r, w)
      /\ ~done.cyclic => \A j \in 1 .. Len(up) : Seen(g, up[j], done.g, owner[c], klass_mt)
      /\ done.cyclic => klass_mt \in Names(g, m)
    BY <1>2, <1>3, <1>5, IncludeLoop
<1>. HIDE DEF done
<1>7. out.cyclic = done.cyclic /\ out.g = IF ~done.cyclic /\ m \in g.eq THEN eq_defined_mark(done.g, c) ELSE done.g
    BY <1>4
<1>8. ~done.cyclic => \A z \in On(g, m) : Seen(g, z, done.g, owner[c], klass_mt)
    BY <1>2, <1>5, <1>6 DEF ToSet
<1>. QED BY <1>6, <1>7, <1>8 DEF klass_mt


-----------------------------------------------------------------------------
(* Marks and flags.                                                        *)

LEMMA OnTail ==
    ASSUME NEW g, NEW rank, Ranked(g, rank), NEW k \in DOMAIN g.super
    PROVE  ToSet(Tail(Chain(g, k))) \subseteq On(g, k) /\ On(g, k) \ {k} \subseteq ToSet(Tail(Chain(g, k)))
<1>1. Full(g, k, Chain(g, k))
    BY ChainFull
<1>2. PICK ch \in Seq(DOMAIN g.super) : ch = Chain(g, k) /\ Len(ch) \in Nat /\ ch # << >> /\ ch[1] = k
    BY <1>1 DEF Full, Walks
<1>3. PICK up : up = Tail(ch)
    OBVIOUS
<1>4. up \in Seq(DOMAIN g.super) /\ Len(up) = Len(ch) - 1 /\ \A i \in 1 .. Len(up) : up[i] = ch[i + 1]
    BY <1>2, <1>3, HeadTailProperties
<1>5. ToSet(up) = {up[i] : i \in 1 .. Len(up)} /\ On(g, k) = {ch[i] : i \in 1 .. Len(ch)}
    BY <1>2, <1>4 DEF ToSet, On
<1>6. ASSUME NEW i \in 1 .. Len(up) PROVE up[i] \in On(g, k)
  <2>1. i + 1 \in 1 .. Len(ch)
      BY <1>2, <1>4
  <2>. QED BY <1>4, <1>5, <2>1
<1>7. ASSUME NEW i \in 1 .. Len(ch), ch[i] # k PROVE ch[i] \in ToSet(up)
  <2>1. i - 1 \in 1 .. Len(up) /\ i - 1 + 1 = i
      BY <1>2, <1>4, <1>7
  <2>2. up[i - 1] = ch[i]
      BY <1>4, <2>1
  <2>. QED BY <1>5, <2>1, <2>2
<1>. QED BY <1>2, <1>3, <1>5, <1>6, <1>7

\* What eq_defined_mark() marks: c, and what has it or another marked one on its chain.
LEMMA MarkEq ==
    ASSUME NEW g, NEW rank, NEW owner, Sound(g, rank, owner), NEW c, NEW f, f = eq_defined_mark(g, c)
    PROVE  /\ g.eq \subseteq f.eq /\ c \in f.eq
           /\ \A k \in f.eq : k \in g.eq \/ k = c
                              \/ (k \in Heads(g) /\ \E x \in On(g, k) : Real(g, x) \in g.eq \cup {c})
           /\ c \notin g.eq /\ c \in g.inherited \cup Module =>
                  \A k \in Heads(g) : \A x \in On(g, k) : x # k /\ Real(g, x) \in g.eq \cup {c} => k \in f.eq
<1>1. CASE c \in g.eq
    BY <1>1 DEF eq_defined_mark
<1>2. CASE c \notin g.eq
  <2>. DEFINE marked == g.eq \cup {c}
              W == {k \in Heads(g) : eq_defined_walk(g, marked, k)}
              walked == IF c \in g.inherited \cup Module THEN W ELSE {}
  <2>1. f = [g EXCEPT !.eq = marked \cup walked]
      BY <1>2 DEF eq_defined_mark, Heads
  <2>2. f.eq = marked \cup walked
      BY <2>1 DEF Sound, Shaped
  <2>3. \A k \in Heads(g) : k \in DOMAIN g.super
      BY DEF Heads
  <2>4. \A k \in Heads(g) : ToSet(Tail(Chain(g, k))) \subseteq On(g, k) /\ On(g, k) \ {k} \subseteq ToSet(Tail(Chain(g, k)))
      BY <2>3, OnTail, ThreadRanked DEF Sound
  <2>5. \A k \in W : k \in Heads(g) /\ \E x \in On(g, k) : Real(g, x) \in marked
      BY <2>4 DEF eq_defined_walk
  <2>6. ASSUME NEW k \in Heads(g), NEW x \in On(g, k), x # k, Real(g, x) \in marked PROVE k \in W
      BY <2>4, <2>6 DEF eq_defined_walk
  <2>. HIDE DEF W
  <2>. QED BY <1>2, <2>2, <2>5, <2>6
<1>. QED BY <1>1, <1>2

\* A module that has an ICLASS, and was not prepended to, has the flag.
Flagged(g) == \A x \in Iclasses(g) \ g.origin : g.of[x] \notin g.prepended => g.of[x] \in g.inherited

\* What has a marked one on its chain is marked.
EqClosed(g) == \A k \in Heads(g) : \A x \in On(g, k) : Real(g, x) \in g.eq => k \in g.eq

\* Whoever has a member of X on its chain is marked, if m is.
EqReady(g, X, m) ==
    EqClosed(g) /\ (m \in g.eq => \A y \in X : \A k \in Heads(g) : y \in On(g, k) => k \in g.eq)

\* All that m brings has a place on the chain of k.
AllPlaced(g, m, f, k) == \A z \in On(g, m) : z \notin g.prepended => Placed(g, z, f, k)

LEMMA IncludingFlagged ==
    ASSUME NEW g, NEW rank, NEW owner, Sound(g, rank, owner), NEW k, NEW X \in SUBSET DOMAIN g.super,
           NEW b, NEW r, NEW w, Including(g, owner, k, X, b, r, w), Flagged(g)
    PROVE  Flagged(b.g)
<1>. DEFINE f == b.g
<1>1. /\ Sound(f, r, w) /\ Grown(g, owner, f, w) /\ g.inherited \subseteq f.inherited
      /\ \A x \in DOMAIN f.super \ DOMAIN g.super :
             \E z \in X \cap f.inherited : z \notin g.prepended /\ Real(f, x) = Real(g, z)
    BY DEF Including
<1>. HIDE DEF f
<1>2. ASSUME NEW x \in Iclasses(f) \ f.origin, f.of[x] \notin f.prepended PROVE f.of[x] \in f.inherited
  <2>1. x \in DOMAIN f.super /\ Real(f, x) = f.of[x]
      BY <1>1, <1>2 DEF Sound, Shaped, Real
  <2>2. CASE x \in DOMAIN g.super
    <3>1. x \in Iclasses(g) /\ x \notin g.origin /\ g.prepended = f.prepended
        BY <1>1, <1>2, <2>2 DEF Grown, Heads
    <3>2. g.of[x] = f.of[x]
        BY <1>1, <2>1, <2>2, <3>1 DEF Grown, Real
    <3>. QED BY <1>1, <1>2, <3>1, <3>2 DEF Flagged
  <2>3. CASE x \notin DOMAIN g.super
    <3>1. PICK z \in X \cap f.inherited : z \notin g.prepended /\ Real(f, x) = Real(g, z)
        BY <1>1, <2>1, <2>3
    <3>2. CASE z \notin Iclasses(g)
        BY <2>1, <3>1, <3>2 DEF Real
    <3>3. CASE z \in Iclasses(g)
      <4>1. f.of[x] = g.of[z] /\ g.prepended = f.prepended
          BY <1>1, <2>1, <3>1, <3>3 DEF Real, Grown
      <4>2. z \notin g.origin
          BY <1>2, <4>1 DEF Sound, Standing
      <4>. QED BY <1>1, <1>2, <3>3, <4>1, <4>2 DEF Flagged
    <3>. QED BY <3>2, <3>3
  <2>. QED BY <2>2, <2>3
<1>. QED BY <1>2 DEF Flagged, f

\* A thread on a chain is all on it.
LEMMA ThreadOn ==
    ASSUME NEW g, NEW rank, NEW owner, Sound(g, rank, owner), NEW k \in Heads(g), NEW x \in DOMAIN g.super
    PROVE  x \in On(g, k) <=> owner[x] \in On(g, k)
<1>1. x \in On(g, k) => owner[x] \in On(g, k)
    BY OnOwner DEF Sound
<1>2. ASSUME owner[x] \in On(g, k) PROVE x \in On(g, k)
  <2>1. x \in On(g, owner[x])
      BY OwnThread DEF Sound
  <2>2. On(g, owner[x]) \subseteq On(g, k)
      BY <1>2, OnSuffix, ThreadRanked DEF Sound, Heads
  <2>. QED BY <2>1, <2>2
<1>. QED BY <1>1, <1>2

\* Where all that m brings has a place, all its ancestors' names are.
LEMMA NamesPlaced ==
    ASSUME NEW g, NEW rank, NEW owner, Sound(g, rank, owner), NEW m \in Module, NEW f, NEW k,
           AllPlaced(g, m, f, k)
    PROVE  Names(g, m) \subseteq Names(f, k)
<1>1. SUFFICES ASSUME NEW z \in On(g, m) PROVE Real(g, z) \in Names(f, k)
    BY DEF Names
<1>2. CASE z \notin g.prepended
    BY <1>2 DEF AllPlaced, Placed, Names
<1>3. CASE z \in g.prepended
  <2>1. z \in DOMAIN g.super /\ z \in Heads(g) /\ z \notin Iclasses(g)
      BY <1>3, ModuleChain DEF Sound, Shaped, Heads
  <2>2. owner[z] = z /\ owner[z] = m
      BY <2>1, ModuleChain DEF Sound, Threaded
  <2>3. PICK o : o = Origin(g, m) /\ o \in g.origin /\ owner[o] = m
      BY <1>3, <2>2, OriginOwn
  <2>4. o \in Iclasses(g) /\ o \in DOMAIN g.super /\ o \notin g.prepended /\ g.of[o] = m
      BY <2>3 DEF Sound, Shaped, Standing, Heads
  <2>5. o \in On(g, m)
      BY <2>3, <2>4, ModuleChain
  <2>6. Real(g, o) = m /\ Real(g, z) = m
      BY <2>1, <2>2, <2>4 DEF Real
  <2>. QED BY <2>4, <2>5, <2>6 DEF AllPlaced, Placed, Names
<1>. QED BY <1>2, <1>3

\* What including m behind the members of X leaves behind
Brought(g, owner, X, m, f, r, w) ==
    /\ Sound(f, r, w) /\ Grown(g, owner, f, w) /\ g.inherited \subseteq f.inherited
    /\ \A x \in DOMAIN f.super \ DOMAIN g.super :
           Real(f, x) \in Names(g, m) /\ \E y \in X : w[x] = owner[y]
    /\ Flagged(g) => Flagged(f)
    /\ EqReady(g, X, m) => EqClosed(f) /\ f.eq \cap Named = g.eq \cap Named
    /\ \A y \in X : y \in Iclasses(g) /\ g.mt[y] \notin Names(g, m) => Names(g, m) \subseteq Names(f, owner[y])

LEMMA RealNamed ==
    ASSUME NEW g, NEW rank, NEW owner, Sound(g, rank, owner), NEW x \in DOMAIN g.super
    PROVE  Real(g, x) \in Named /\ Real(g, x) \notin Iclasses(g)
<1>1. CASE x \in g.origin
  <2>1. Real(g, x) = owner[x] /\ owner[x] \in Heads(g)
      BY <1>1 DEF Sound, Shaped, Standing, Threaded, Real
  <2>. QED BY <2>1 DEF Sound, Shaped, Heads
<1>2. CASE x \in Iclasses(g) \ g.origin
  <2>1. Real(g, x) \in Module
      BY <1>2 DEF Sound, Standing, Real
  <2>. QED BY <2>1, ModuleTable DEF Named, Heads
<1>3. CASE x \notin Iclasses(g)
    BY <1>3 DEF Sound, Shaped, Heads, Real
<1>. QED BY <1>1, <1>2, <1>3

LEMMA NamedNumber == ASSUME NEW n \in Named PROVE n \notin Nat
    BY ClassAssumption

\* Behind one y, when whoever has y on its chain is marked if m is
LEMMA OneEq ==
    ASSUME NEW g, NEW rank, NEW owner, Sound(g, rank, owner), NEW y \in DOMAIN g.super, NEW m \in Module,
           NEW done, NEW r, NEW w, Including(g, owner, owner[y], On(g, m), done, r, w),
           NEW e, e = IF ~done.cyclic /\ m \in g.eq THEN eq_defined_mark(done.g, y) ELSE done.g,
           EqReady(g, {y}, m)
    PROVE  EqClosed(e) /\ e.eq \cap Named = g.eq \cap Named
<1>. DEFINE f == done.g
<1>1. /\ Sound(f, r, w) /\ Grown(g, owner, f, w) /\ f.eq = g.eq
      /\ \A x \in DOMAIN f.super \ DOMAIN g.super : w[x] = owner[y] /\ Real(f, x) \in {Real(g, z) : z \in On(g, m)}
    BY DEF Including
<1>2. e = IF ~done.cyclic /\ m \in g.eq THEN eq_defined_mark(f, y) ELSE f
    OBVIOUS
<1>. HIDE DEF f
<1>3. m \in Heads(g) /\ Heads(f) = Heads(g) /\ Heads(g) \subseteq Named /\ Heads(g) \subseteq DOMAIN g.super
    BY <1>1, ModuleTable DEF Grown, Sound, Shaped, Heads
<1>4. ASSUME NEW k \in Heads(f), NEW x \in On(f, k), Real(f, x) \in g.eq PROVE k \in g.eq
  <2>1. x \in DOMAIN f.super
      BY <1>1, <1>3, OnFacts, ThreadRanked DEF Sound, Heads
  <2>2. CASE x \in DOMAIN g.super
    <3>1. x \in On(g, k) /\ Real(g, x) = Real(f, x)
        BY <1>1, <1>3, <2>2 DEF Grown
    <3>. QED BY <1>3, <1>4, <3>1 DEF EqReady, EqClosed
  <2>3. CASE x \notin DOMAIN g.super
    <3>1. PICK z \in On(g, m) : Real(f, x) = Real(g, z)
        BY <1>1, <2>1, <2>3
    <3>2. m \in g.eq
        BY <1>3, <1>4, <3>1 DEF EqReady, EqClosed
    <3>3. w[x] = owner[y] /\ owner[y] \in Heads(g)
        BY <1>1, <2>1, <2>3 DEF Sound, Threaded
    <3>4. owner[y] \in On(f, k)
        BY <1>1, <2>1, <3>3, ThreadOn
    <3>5. owner[y] \in On(g, k)
        BY <1>1, <1>3, <3>3, <3>4 DEF Grown
    <3>6. y \in On(g, k)
        BY <1>3, <3>5, ThreadOn
    <3>. QED BY <1>3, <3>2, <3>6 DEF EqReady
  <2>. QED BY <2>2, <2>3
<1>5. CASE ~(~done.cyclic /\ m \in g.eq)
    BY <1>1, <1>2, <1>4, <1>5 DEF EqClosed
<1>6. CASE ~done.cyclic /\ m \in g.eq
  <2>1. e = eq_defined_mark(f, y)
      BY <1>2, <1>6
  <2>2. /\ f.eq \subseteq e.eq /\ y \in e.eq
        /\ \A k \in e.eq : k \in f.eq \/ k = y
                              \/ (k \in Heads(f) /\ \E x \in On(f, k) : Real(f, x) \in f.eq \cup {y})
      BY <1>1, <2>1, MarkEq
  <2>3. /\ Heads(e) = Heads(f) /\ \A x : Real(e, x) = Real(f, x)
        /\ \A x \in DOMAIN f.super : On(e, x) = On(f, x)
      BY <1>1, <2>1, MarkSound
  <2>4. y \in Named => y \in g.eq
    <3>1. ASSUME y \in Named PROVE y \in Heads(g)
        BY <3>1, NamedNumber DEF Sound, Shaped, Heads
    <3>2. y \in Heads(g) => y \in On(g, y)
        BY OnFacts, ThreadRanked DEF Sound
    <3>. QED BY <1>6, <3>1, <3>2 DEF EqReady
  <2>5. ASSUME NEW k \in Heads(f), NEW x \in On(f, k), Real(f, x) \in g.eq \cup {y} PROVE k \in g.eq
    <3>1. Real(f, x) \in Named
        BY <1>1, <1>3, OnFacts, ThreadRanked, RealNamed DEF Sound, Heads
    <3>. QED BY <1>4, <2>4, <2>5, <3>1
  <2>6. \A n \in e.eq : n \in Named => n \in g.eq
      BY <1>1, <2>2, <2>4, <2>5
  <2>7. ASSUME NEW k \in Heads(e), NEW x \in On(e, k), Real(e, x) \in e.eq PROVE k \in e.eq
    <3>1. k \in Heads(f) /\ x \in On(f, k) /\ Real(f, x) \in e.eq
        BY <1>1, <2>3, <2>7 DEF Heads
    <3>2. Real(f, x) \in Named
        BY <1>1, <3>1, OnFacts, ThreadRanked, RealNamed DEF Sound, Heads
    <3>3. Real(f, x) \in g.eq
        BY <2>6, <3>1, <3>2
    <3>. QED BY <1>1, <1>4, <2>2, <3>1, <3>3
  <2>. QED BY <1>1, <2>2, <2>6, <2>7 DEF EqClosed
<1>. QED BY <1>5, <1>6

\* One m behind one y
LEMMA OneBrought ==
    ASSUME NEW g, NEW rank, NEW owner, Sound(g, rank, owner), NEW y \in DOMAIN g.super, NEW m \in Module,
           NEW search_super \in BOOLEAN, NEW e, e = include_module_at(g, y, y, m, search_super).g
    PROVE  \E r, w : Brought(g, owner, {y}, m, e, r, w)
<1>1. Starting(g, rank, owner, y, y, m)
    BY DEF Starting
<1>2. PICK out : out = include_module_at(g, y, y, m, search_super)
    OBVIOUS
<1>3. PICK done, r, w :
               /\ Including(g, owner, owner[y], On(g, m), done, r, w)
               /\ ~done.cyclic => \A z \in On(g, m) : Seen(g, z, done.g, owner[y], g.mt[Origin(g, y)])
               /\ done.cyclic => g.mt[Origin(g, y)] \in Names(g, m)
               /\ out.g = IF ~done.cyclic /\ m \in g.eq THEN eq_defined_mark(done.g, y) ELSE done.g
    BY <1>1, <1>2, IncludeAt
<1>4. e = IF ~done.cyclic /\ m \in g.eq THEN eq_defined_mark(done.g, y) ELSE done.g
    BY <1>2, <1>3
<1>5. EqReady(g, {y}, m) => EqClosed(e) /\ e.eq \cap Named = g.eq \cap Named
    BY <1>3, <1>4, OneEq, ZenonT(60)
<1>6. PICK f : f = done.g
    OBVIOUS
<1>7. /\ Sound(f, r, w) /\ Grown(g, owner, f, w) /\ f.eq = g.eq /\ g.inherited \subseteq f.inherited
      /\ \A x \in DOMAIN f.super \ DOMAIN g.super : w[x] = owner[y] /\ Real(f, x) \in {Real(g, z) : z \in On(g, m)}
    BY <1>3, <1>6 DEF Including
<1>8. /\ e.super = f.super /\ e.mt = f.mt /\ e.of = f.of /\ e.origin = f.origin
      /\ e.prepended = f.prepended /\ e.inherited = f.inherited
      /\ Sound(e, r, w) /\ Iclasses(e) = Iclasses(f) /\ Heads(e) = Heads(f)
      /\ \A x : Real(e, x) = Real(f, x)
      /\ \A x \in DOMAIN f.super : On(e, x) = On(f, x)
  <2>1. CASE ~done.cyclic /\ m \in g.eq
    <3>1. e = eq_defined_mark(f, y)
        BY <1>4, <1>6, <2>1
    <3>. QED BY <1>7, <3>1, MarkSound
  <2>2. CASE ~(~done.cyclic /\ m \in g.eq)
      BY <1>4, <1>6, <1>7, <2>2
  <2>. QED BY <2>1, <2>2
<1>9. Grown(g, owner, e, w)
    BY <1>7, <1>8 DEF Grown, Heads
<1>10. \A x \in DOMAIN e.super \ DOMAIN g.super : Real(e, x) \in Names(g, m) /\ \E z \in {y} : w[x] = owner[z]
    BY <1>7, <1>8 DEF Names
<1>11. Flagged(g) => Flagged(e)
  <2>1. On(g, m) \in SUBSET DOMAIN g.super
      BY ModuleChain
  <2>2. Flagged(g) => Flagged(f)
      BY <1>3, <1>6, <2>1, IncludingFlagged
  <2>. QED BY <1>8, <2>2 DEF Flagged
<1>12. ASSUME y \in Iclasses(g), g.mt[y] \notin Names(g, m) PROVE Names(g, m) \subseteq Names(e, owner[y])
  <2>1. Origin(g, y) = y
      BY <1>12 DEF Sound, Shaped, Heads, Origin
  <2>2. ~done.cyclic
      BY <1>3, <1>12, <2>1
  <2>3. AllPlaced(g, m, f, owner[y])
      BY <1>3, <1>6, <2>2 DEF AllPlaced, Seen
  <2>4. Names(g, m) \subseteq Names(f, owner[y])
      BY <2>3, NamesPlaced
  <2>5. owner[y] \in DOMAIN f.super
      BY <1>7 DEF Sound, Threaded, Grown, Heads
  <2>. QED BY <1>8, <2>4, <2>5 DEF Names
<1>13. Brought(g, owner, {y}, m, e, r, w)
    BY <1>5, <1>7, <1>8, <1>9, <1>10, <1>11, <1>12 DEF Brought
<1>. QED BY <1>13

\* What m brings does not change the names of its own ancestors.
LEMMA BroughtNames ==
    ASSUME NEW g, NEW rank, NEW owner, Sound(g, rank, owner), NEW X, NEW m \in Module,
           NEW f, NEW r, NEW w, Brought(g, owner, X, m, f, r, w)
    PROVE  Names(f, m) = Names(g, m)
<1>1. Sound(f, r, w) /\ Grown(g, owner, f, w) /\ \A x \in DOMAIN f.super \ DOMAIN g.super : Real(f, x) \in Names(g, m)
    BY DEF Brought
<1>2. m \in Heads(g) /\ On(f, m) \subseteq DOMAIN f.super
    BY <1>1, ModuleTable, ModuleChain
<1>3. On(g, m) = On(f, m) \cap DOMAIN g.super /\ \A x \in DOMAIN g.super : Real(f, x) = Real(g, x)
    BY <1>1, <1>2 DEF Grown
<1>. QED BY <1>1, <1>2, <1>3 DEF Names

\* Names stay on a chain that grows.
LEMMA GrownNames ==
    ASSUME NEW g, NEW owner, NEW f, NEW w, Grown(g, owner, f, w), NEW k \in Heads(g)
    PROVE  Names(g, k) \subseteq Names(f, k)
    BY DEF Grown, Names

\* One more y after the members of X
LEMMA BroughtOn ==
    ASSUME NEW g, NEW rank, NEW owner, Sound(g, rank, owner), NEW X \in SUBSET DOMAIN g.super, NEW m \in Module,
           NEW a, NEW r, NEW w, Brought(g, owner, X, m, a, r, w),
           NEW y \in DOMAIN g.super, NEW f, NEW s, NEW v, Brought(a, w, {y}, m, f, s, v)
    PROVE  Brought(g, owner, X \cup {y}, m, f, s, v)
<1>1. /\ Sound(a, r, w) /\ Grown(g, owner, a, w) /\ g.inherited \subseteq a.inherited
      /\ \A x \in DOMAIN a.super \ DOMAIN g.super :
           Real(a, x) \in Names(g, m) /\ \E z \in X : w[x] = owner[z]
      /\ Flagged(g) => Flagged(a)
      /\ EqReady(g, X, m) => EqClosed(a) /\ a.eq \cap Named = g.eq \cap Named
      /\ \A z \in X : z \in Iclasses(g) /\ g.mt[z] \notin Names(g, m) => Names(g, m) \subseteq Names(a, owner[z])
    BY DEF Brought
<1>2. /\ Sound(f, s, v) /\ Grown(a, w, f, v) /\ a.inherited \subseteq f.inherited
      /\ \A x \in DOMAIN f.super \ DOMAIN a.super : Real(f, x) \in Names(a, m) /\ v[x] = w[y]
      /\ Flagged(a) => Flagged(f)
      /\ EqReady(a, {y}, m) => EqClosed(f) /\ f.eq \cap Named = a.eq \cap Named
      /\ y \in Iclasses(a) /\ a.mt[y] \notin Names(a, m) => Names(a, m) \subseteq Names(f, w[y])
    BY DEF Brought
<1>3. Names(a, m) = Names(g, m)
    BY BroughtNames
<1>4. Grown(g, owner, f, v)
    BY <1>1, <1>2, GrownOn
<1>5. /\ DOMAIN g.super \subseteq DOMAIN a.super /\ Heads(a) = Heads(g)
      /\ \A x \in DOMAIN g.super : w[x] = owner[x] /\ a.mt[x] = g.mt[x] /\ (x \in Iclasses(a) <=> x \in Iclasses(g))
      /\ \A k \in Heads(g) : On(g, k) = On(a, k) \cap DOMAIN g.super
    BY <1>1 DEF Grown, Heads
<1>6. /\ DOMAIN a.super \subseteq DOMAIN f.super
      /\ \A x \in DOMAIN a.super : v[x] = w[x] /\ Real(f, x) = Real(a, x)
    BY <1>2 DEF Grown
<1>7. ASSUME NEW x \in DOMAIN f.super \ DOMAIN g.super
      PROVE  Real(f, x) \in Names(g, m) /\ \E z \in X \cup {y} : v[x] = owner[z]
    BY <1>1, <1>2, <1>3, <1>5, <1>6
<1>8. ASSUME EqReady(g, X \cup {y}, m) PROVE EqClosed(f) /\ f.eq \cap Named = g.eq \cap Named
  <2>1. EqReady(g, X, m)
      BY <1>8 DEF EqReady
  <2>2. Heads(g) \subseteq Named /\ m \in Named
      BY DEF Sound, Shaped, Named
  <2>3. ASSUME m \in a.eq, NEW k \in Heads(a), y \in On(a, k) PROVE k \in a.eq
    <3>1. m \in g.eq /\ k \in Heads(g) /\ y \in On(g, k)
        BY <1>1, <1>5, <2>1, <2>2, <2>3
    <3>2. k \in g.eq
        BY <1>8, <3>1 DEF EqReady
    <3>. QED BY <1>1, <2>1, <2>2, <3>1, <3>2
  <2>4. EqReady(a, {y}, m)
      BY <1>1, <2>1, <2>3 DEF EqReady
  <2>. QED BY <1>1, <1>2, <2>1, <2>4
<1>9. ASSUME NEW z \in X \cup {y}, z \in Iclasses(g), g.mt[z] \notin Names(g, m)
      PROVE  Names(g, m) \subseteq Names(f, owner[z])
  <2>1. CASE z \in X
    <3>1. Names(g, m) \subseteq Names(a, owner[z]) /\ owner[z] \in Heads(a)
        BY <1>1, <1>5, <1>9, <2>1 DEF Sound, Threaded
    <3>. QED BY <1>2, <3>1, GrownNames
  <2>2. CASE z = y
      BY <1>2, <1>3, <1>5, <1>9, <2>2
  <2>. QED BY <2>1, <2>2
<1>10. g.inherited \subseteq f.inherited /\ (Flagged(g) => Flagged(f))
    BY <1>1, <1>2
<1>. QED BY <1>2, <1>4, <1>7, <1>8, <1>9, <1>10 DEF Brought

\* Nothing is brought where there is nobody.
LEMMA BroughtNone ==
    ASSUME NEW g, NEW rank, NEW owner, Sound(g, rank, owner), NEW m
    PROVE  Brought(g, owner, {}, m, g, rank, owner)
    BY GrownSelf DEF Brought, EqReady

\* The heaps of IncludeEach()
Eached(d, g, xs, m, search_super, n) ==
    d = [i \in 0 .. n |-> IF i = 0 THEN g ELSE include_module_at(d[i - 1], xs[i], xs[i], m, search_super).g]

\* The recursion over the members has a solution.
LEMMA EachedExists ==
    ASSUME NEW g, NEW xs, NEW m, NEW search_super
    PROVE  \A n \in Nat : \E d : Eached(d, g, xs, m, search_super, n)
<1>. DEFINE S == {n \in Nat : \E d : Eached(d, g, xs, m, search_super, n)}
<1>1. 0 \in S
  <2>. DEFINE d == [i \in 0 .. 0 |-> g]
  <2>1. Eached(d, g, xs, m, search_super, 0)
      BY DEF Eached
  <2>. QED BY <2>1
<1>2. ASSUME NEW n \in Nat, n \in S PROVE n + 1 \in S
  <2>1. PICK d : Eached(d, g, xs, m, search_super, n)
      BY <1>2
  <2>. DEFINE f == [i \in 0 .. n + 1 |-> IF i <= n THEN d[i] ELSE include_module_at(d[n], xs[n + 1], xs[n + 1], m, search_super).g]
  <2>2. ASSUME NEW i \in 0 .. n + 1 PROVE f[i] = IF i = 0 THEN g ELSE include_module_at(f[i - 1], xs[i], xs[i], m, search_super).g
    <3>1. CASE i = 0
        BY <2>1, <3>1 DEF Eached
    <3>2. CASE i # 0 /\ i <= n
      <4>1. i \in 0 .. n /\ i - 1 \in 0 .. n + 1 /\ i - 1 <= n
          BY <3>2
      <4>2. f[i] = d[i] /\ f[i - 1] = d[i - 1]
          BY <3>2, <4>1
      <4>3. d[i] = include_module_at(d[i - 1], xs[i], xs[i], m, search_super).g
          BY <2>1, <3>2, <4>1 DEF Eached
      <4>. QED BY <3>2, <4>2, <4>3
    <3>3. CASE i = n + 1
      <4>1. i - 1 = n /\ n \in 0 .. n + 1 /\ i # 0 /\ ~(n + 1 <= n)
          BY <3>3
      <4>2. f[n] = d[n] /\ f[n + 1] = include_module_at(d[n], xs[n + 1], xs[n + 1], m, search_super).g
          BY <4>1
      <4>. QED BY <3>3, <4>1, <4>2
    <3>. QED BY <3>1, <3>2, <3>3
  <2>3. f = [i \in 0 .. n + 1 |-> IF i = 0 THEN g ELSE include_module_at(f[i - 1], xs[i], xs[i], m, search_super).g]
      BY <2>2
  <2>. HIDE DEF f
  <2>4. Eached(f, g, xs, m, search_super, n + 1)
      BY <2>3 DEF Eached
  <2>. QED BY <2>4
<1>. HIDE DEF S
<1>3. \A n \in Nat : n \in S
    BY <1>1, <1>2, InductionInSet
<1>. QED BY <1>3 DEF S

\* The sequence of a finite set has its members, and no others.
LEMMA SetToSeqFacts ==
    ASSUME NEW X, IsFiniteSet(X)
    PROVE  SetToSeq(X) \in Seq(X) /\ ToSet(SetToSeq(X)) = X
<1>. DEFINE n == Cardinality(X)
<1>1. n \in Nat /\ IsFiniteSet(1 .. n) /\ Cardinality(1 .. n) = n
    BY FS_CardinalityType, FS_Interval
<1>2. PICK b : b \in Bijection(1 .. n, X)
    BY FS_CardinalityType DEF ExistsBijection
<1>3. b \in [1 .. n -> X] /\ IsInjective(b)
    BY <1>2 DEF Bijection, Injection
<1>4. PICK f : f = SetToSeq(X)
    OBVIOUS
<1>5. f \in [1 .. n -> X] /\ IsInjective(f)
    BY <1>3, <1>4 DEF SetToSeq
<1>6. f \in Injection(1 .. n, X)
    BY <1>5 DEF Injection
<1>7. f \in Surjection(1 .. n, X)
    BY <1>1, <1>6, FS_Injection
<1>8. \A x \in X : \E i \in 1 .. n : f[i] = x
    BY <1>7 DEF Surjection
<1>9. f \in Seq(X) /\ DOMAIN f = 1 .. n
    BY <1>1, <1>5
<1>10. ToSet(f) = X
    BY <1>5, <1>8, <1>9 DEF ToSet
<1>. QED BY <1>4, <1>9, <1>10

\* m behind every member of X
LEMMA EachBrought ==
    ASSUME NEW g, NEW rank, NEW owner, Sound(g, rank, owner), NEW X \in SUBSET DOMAIN g.super, NEW m \in Module,
           NEW search_super \in BOOLEAN
    PROVE  \E r, w : Brought(g, owner, X, m, IncludeEach(g, X, m, search_super), r, w)
<1>. DEFINE xs == SetToSeq(X)
            n == Len(xs)
            d == CHOOSE d : Eached(d, g, xs, m, search_super, n)
            Upto(i) == {xs[j] : j \in 1 .. i}
            Done(i) == \E r, w : Brought(g, owner, Upto(i), m, d[i], r, w)
            S == {i \in Nat : i <= n => Done(i)}
<1>1. xs \in Seq(X) /\ ToSet(xs) = X
    BY SetToSeqFacts, FS_Subset DEF Sound, Shaped
<1>2. n \in Nat /\ DOMAIN xs = 1 .. n /\ \A i \in 1 .. n : xs[i] \in X
    BY <1>1
<1>3. IncludeEach(g, X, m, search_super) = d[n]
    BY DEF IncludeEach, Eached
<1>. HIDE DEF xs, n
<1>4. Eached(d, g, xs, m, search_super, n)
    BY <1>2, EachedExists
<1>. HIDE DEF d
<1>5. d[0] = g /\ \A i \in 1 .. n : d[i] = include_module_at(d[i - 1], xs[i], xs[i], m, search_super).g
    BY <1>2, <1>4 DEF Eached
<1>6. 0 \in S
  <2>1. Upto(0) = {}
      OBVIOUS
  <2>2. Brought(g, owner, Upto(0), m, d[0], rank, owner)
      BY <1>5, <2>1, BroughtNone
  <2>3. Done(0)
      BY <2>2
  <2>. HIDE DEF Done
  <2>. QED BY <2>3
<1>7. ASSUME NEW i \in Nat, i \in S PROVE i + 1 \in S
  <2>. HIDE DEF Done
  <2>1. SUFFICES ASSUME i + 1 <= n PROVE Done(i + 1)
      OBVIOUS
  <2>. HIDE DEF Upto
  <2>2. PICK r, w : Brought(g, owner, Upto(i), m, d[i], r, w)
    <3>1. Done(i)
        BY <1>2, <1>7, <2>1
    <3>. QED BY <3>1 DEF Done
  <2>3. PICK a : a = d[i]
      OBVIOUS
  <2>4. PICK y \in X : y = xs[i + 1]
      BY <1>2, <2>1
  <2>5. PICK f : f = d[i + 1]
      OBVIOUS
  <2>6. f = include_module_at(a, y, y, m, search_super).g
    <3>1. i + 1 \in 1 .. n /\ i + 1 - 1 = i
        BY <1>2, <2>1
    <3>. QED BY <1>5, <2>3, <2>4, <2>5, <3>1
  <2>7. Upto(i) \in SUBSET DOMAIN g.super
      BY <1>2, <2>1 DEF Upto
  <2>8. Upto(i + 1) = Upto(i) \cup {y}
      BY <1>2, <2>1, <2>4 DEF Upto
  <2>9. Sound(a, r, w) /\ y \in DOMAIN a.super
      BY <2>2, <2>3 DEF Brought, Grown
  <2>10. PICK s, v : Brought(a, w, {y}, m, f, s, v)
      BY <2>6, <2>9, OneBrought
  <2>11. Brought(g, owner, Upto(i), m, a, r, w)
      BY <2>2, <2>3
  <2>12. Brought(g, owner, Upto(i) \cup {y}, m, f, s, v)
      BY <2>7, <2>10, <2>11, BroughtOn
  <2>. QED BY <2>5, <2>8, <2>12 DEF Done
<1>8. Upto(n) = X
    BY <1>1, <1>2 DEF ToSet
<1>. HIDE DEF S, Done, Upto
<1>9. n \in S
    BY <1>2, <1>6, <1>7, InductionInSet
<1>10. Done(n)
    BY <1>2, <1>9 DEF S
<1>. QED BY <1>3, <1>8, <1>10 DEF Done


-----------------------------------------------------------------------------
(* Origins and tables.                                                     *)

\* Chains depend on the super pointers alone.
LEMMA SuperChain ==
    ASSUME NEW g, NEW rank, Ranked(g, rank), NEW f, f.super = g.super, NEW x \in DOMAIN g.super
    PROVE  Chain(f, x) = Chain(g, x) /\ On(f, x) = On(g, x)
<1>1. Ranked(f, rank)
    BY DEF Ranked
<1>2. Full(g, x, Chain(g, x)) /\ Full(f, x, Chain(f, x))
    BY <1>1, ChainFull
<1>3. Chain(f, x) = Chain(g, x)
    BY <1>1, <1>2, SameChain DEF Ranked
<1>. QED BY <1>3 DEF On

\* The table of a class is where its origin is.
LEMMA OriginTable ==
    ASSUME NEW g, NEW rank, NEW owner, Sound(g, rank, owner), NEW c \in Heads(g)
    PROVE  /\ Origin(g, c) \in DOMAIN g.super \ g.prepended /\ owner[Origin(g, c)] = c
           /\ Real(g, Origin(g, c)) = c
           /\ g.mt[Origin(g, c)] = c \/ (g.mt[Origin(g, c)] = NULL /\ c \in Singleton)
<1>1. c \in DOMAIN g.super /\ c \notin Iclasses(g) /\ owner[c] = c
    BY DEF Heads, Sound, Threaded
<1>2. CASE c \notin g.prepended
  <2>1. Origin(g, c) = c
      BY <1>2 DEF Origin
  <2>2. Real(g, c) = c
      BY <1>1 DEF Real
  <2>. QED BY <1>1, <1>2, <2>1, <2>2 DEF Sound, Standing
<1>3. CASE c \in g.prepended
  <2>1. PICK o : o = Origin(g, c) /\ o \in g.origin /\ owner[o] = c
      BY <1>3, OriginOwn
  <2>2. o \in Iclasses(g) /\ o \in DOMAIN g.super /\ o \notin g.prepended
      BY <2>1 DEF Sound, Shaped, Heads
  <2>3. Real(g, o) = c
      BY <2>1, <2>2 DEF Sound, Standing, Real
  <2>4. g.mt[o] = c \/ (g.mt[o] = NULL /\ c \in Singleton)
      BY <2>2, <2>3 DEF Sound, Standing
  <2>. QED BY <2>1, <2>2, <2>3, <2>4
<1>. QED BY <1>2, <1>3

\* f is g with an origin for c, made if there was none.
Hidden(g, owner, c, f, w) ==
    /\ Heads(f) = Heads(g) /\ c \in f.prepended /\ f.eq = g.eq /\ g.inherited \subseteq f.inherited
    /\ DOMAIN g.super \subseteq DOMAIN f.super
    /\ \A x \in DOMAIN g.super : w[x] = owner[x] /\ Real(f, x) = Real(g, x)
    /\ \A x \in DOMAIN f.super \ DOMAIN g.super : Real(f, x) = c /\ w[x] = c /\ x \in f.origin
    /\ \A k \in Heads(g) : On(g, k) = On(f, k) \cap DOMAIN g.super
    /\ \A x \in Iclasses(f) \ f.origin : x \in Iclasses(g) \ g.origin /\ f.of[x] = g.of[x]
    /\ Flagged(g) => Flagged(f)
    /\ \A d \in Named : (\A x \in DOMAIN f.super : f.mt[x] # d) => (\A x \in DOMAIN g.super : g.mt[x] # d)

LEMMA HiddenSound ==
    ASSUME NEW g, NEW rank, NEW owner, Sound(g, rank, owner), NEW c \in Heads(g), NEW f, f = MakeOrigin(g, c)
    PROVE  \E r, w : Sound(f, r, w) /\ Hidden(g, owner, c, f, w)
<1>1. CASE c \in g.prepended
  <2>1. f = g
      BY <1>1 DEF MakeOrigin
  <2>2. \A k \in Heads(g) : On(g, k) = On(g, k) \cap DOMAIN g.super
      BY OnFacts, ThreadRanked DEF Sound, Heads
  <2>3. Hidden(g, owner, c, g, owner)
      BY <1>1, <2>2 DEF Hidden
  <2>. QED BY <2>1, <2>3
<1>2. CASE c \notin g.prepended
  <2>. DEFINE T == g.mt[c]
  <2>1. PICK n : n = NextIclass(g)
      OBVIOUS
  <2>2. PICK p : p = Put(g, c, c, T)
      OBVIOUS
  <2>3. PICK r, w : r = Raised(g, rank, c) /\ w = Adopted(g, owner, c)
      OBVIOUS
  <2>4. c \in DOMAIN g.super /\ c \notin Iclasses(g) /\ owner[c] = c /\ c \in Named
      BY DEF Heads, Sound, Shaped, Threaded
  <2>5. n \in Nat /\ n \notin Iclasses(g) /\ n \notin DOMAIN g.super
      BY <2>1, NextIclassNew DEF Sound
  <2>6. T = c \/ (T = NULL /\ c \in Singleton)
      BY <1>2, <2>4 DEF Sound, Standing, Real
  <2>. HIDE DEF T
  <2>7. Shaped(p) /\ Threaded(p, r, w)
      BY <2>2, <2>3, <2>4, PutThreaded DEF Sound
  <2>8. /\ p.origin = g.origin /\ p.prepended = g.prepended /\ p.inherited = g.inherited /\ p.eq = g.eq
        /\ DOMAIN p.super = DOMAIN g.super \cup {n} /\ DOMAIN p.mt = DOMAIN g.super \cup {n}
        /\ Iclasses(p) = Iclasses(g) \cup {n} /\ Heads(p) = Heads(g)
        /\ p.mt[n] = T /\ p.of[n] = c
        /\ \A x \in DOMAIN g.super : p.mt[x] = g.mt[x]
        /\ \A x \in Iclasses(g) : p.of[x] = g.of[x]
      BY <2>1, <2>2, <2>4, PutFields DEF Sound
  <2>9. w[n] = c /\ \A x \in DOMAIN g.super : w[x] = owner[x]
      BY <2>1, <2>3, <2>4, <2>5 DEF Adopted
  <2>10. f = [[p EXCEPT !.mt[c] = NULL] EXCEPT !.origin = @ \cup {n}, !.inherited = @ \cup {n},
                                               !.prepended = @ \cup {c}]
      BY <1>2, <2>1, <2>2 DEF MakeOrigin, T
  <2>11. /\ f = [super |-> p.super, mt |-> [p.mt EXCEPT ![c] = NULL], of |-> p.of, origin |-> p.origin \cup {n},
                 prepended |-> p.prepended \cup {c}, inherited |-> p.inherited \cup {n}, eq |-> p.eq]
    <3>1. p = [super |-> p.super, mt |-> p.mt, of |-> p.of, origin |-> p.origin,
               prepended |-> p.prepended, inherited |-> p.inherited, eq |-> p.eq]
        BY <2>7 DEF Shaped
    <3>2. PICK ps, pm, po, pr, pp, pi, pe :
              p = [super |-> ps, mt |-> pm, of |-> po, origin |-> pr, prepended |-> pp, inherited |-> pi, eq |-> pe]
        BY <3>1
    <3>. QED BY <2>10, <3>2, ZenonT(60)
  <2>12. /\ f.super = p.super /\ f.of = p.of /\ f.eq = g.eq
         /\ f.origin = g.origin \cup {n} /\ f.inherited = g.inherited \cup {n}
         /\ f.prepended = g.prepended \cup {c} /\ DOMAIN f.mt = DOMAIN p.mt
         /\ f.mt[c] = NULL /\ \A x \in DOMAIN p.mt \ {c} : f.mt[x] = p.mt[x]
      BY <2>4, <2>8, <2>11
  <2>13. Iclasses(f) = Iclasses(p) /\ Heads(f) = Heads(p)
      BY <2>12 DEF Iclasses, Heads
  <2>14. Shaped(f)
      BY <2>4, <2>7, <2>8, <2>11, <2>12, <2>13 DEF Shaped, Heads
  <2>15. Threaded(f, r, w)
      BY <2>7, <2>12, <2>13 DEF Threaded
  <2>16. Real(f, n) = c /\ \A x \in DOMAIN g.super : Real(f, x) = Real(g, x)
      BY <2>5, <2>8, <2>12, <2>13 DEF Real
  <2>17. Standing(f, w)
    <3>1. g.origin \subseteq Iclasses(g) /\ Iclasses(g) \subseteq DOMAIN g.super /\ g.prepended \subseteq DOMAIN g.super
        BY DEF Sound, Shaped, Heads
    <3>2. \A x \in g.origin : g.of[x] = owner[x] /\ owner[x] \in g.prepended /\ owner[x] # c
        BY <1>2 DEF Sound, Standing
    <3>3. \A x \in f.origin : f.of[x] = w[x] /\ w[x] \in f.prepended
        BY <2>8, <2>9, <2>12, <3>1, <3>2
    <3>4. \A x, y \in f.origin : w[x] = w[y] => x = y
        BY <2>9, <2>12, <3>1, <3>2 DEF Sound, Standing
    <3>5. \A x \in Iclasses(f) \ f.origin : f.of[x] \in Module
        BY <2>8, <2>12, <2>13 DEF Sound, Standing
    <3>6. ASSUME NEW d \in f.prepended PROVE f.mt[d] = NULL /\ \E o \in f.origin : w[o] = d
      <4>1. CASE d = c
          BY <2>9, <2>12, <4>1
      <4>2. CASE d # c
        <5>1. d \in g.prepended
            BY <2>12, <4>2
        <5>2. g.mt[d] = NULL /\ \E o \in g.origin : owner[o] = d
            BY <5>1 DEF Sound, Standing
        <5>. QED BY <2>8, <2>9, <2>12, <3>1, <4>2, <5>1, <5>2
      <4>. QED BY <4>1, <4>2
    <3>7. ASSUME NEW x \in DOMAIN f.super \ f.prepended
          PROVE  f.mt[x] = Real(f, x) \/ (f.mt[x] = NULL /\ Real(f, x) \in Singleton)
      <4>1. CASE x = n
          BY <2>4, <2>5, <2>6, <2>8, <2>12, <2>16, <4>1
      <4>2. CASE x # n
        <5>1. x \in DOMAIN g.super \ g.prepended /\ x # c
            BY <2>8, <2>12, <4>2
        <5>2. f.mt[x] = g.mt[x] /\ Real(f, x) = Real(g, x)
            BY <2>8, <2>12, <2>16, <5>1
        <5>. QED BY <5>1, <5>2 DEF Sound, Standing
      <4>. QED BY <4>1, <4>2
    <3>. QED BY <3>3, <3>4, <3>5, <3>6, <3>7 DEF Standing
  <2>18. \A k \in Heads(g) : On(g, k) = On(f, k) \cap DOMAIN g.super
    <3>1. SUFFICES ASSUME NEW k \in Heads(g) PROVE On(g, k) = On(f, k) \cap DOMAIN g.super
        OBVIOUS
    <3>2. On(g, k) = On(p, k) \cap DOMAIN g.super
        BY <2>2, <2>4, PutOn DEF Sound, Heads
    <3>3. On(f, k) = On(p, k)
        BY <2>7, <2>8, <2>12, SuperChain, ThreadRanked DEF Heads
    <3>. QED BY <3>2, <3>3
  <2>19. \A x \in Iclasses(f) \ f.origin : x \in Iclasses(g) \ g.origin /\ f.of[x] = g.of[x]
      BY <2>8, <2>12, <2>13
  <2>20. Flagged(g) => Flagged(f)
      BY <2>12, <2>19 DEF Flagged
  <2>21. ASSUME NEW d \in Named, \A x \in DOMAIN f.super : f.mt[x] # d, NEW x \in DOMAIN g.super
         PROVE  g.mt[x] # d
    <3>1. CASE x = c
        BY <2>5, <2>8, <2>12, <2>21, <3>1, <2>4 DEF T
    <3>2. CASE x # c
        BY <2>8, <2>12, <2>21, <3>2
    <3>. QED BY <3>1, <3>2
  <2>22. Hidden(g, owner, c, f, w)
      BY <2>8, <2>9, <2>12, <2>13, <2>16, <2>18, <2>19, <2>20, <2>21 DEF Hidden
  <2>. QED BY <2>14, <2>15, <2>17, <2>22 DEF Sound
<1>. QED BY <1>1, <1>2

\* f is g, and c has a table.
Tabled(g, c, f) ==
    /\ f.super = g.super /\ f.of = g.of /\ f.origin = g.origin /\ f.prepended = g.prepended
    /\ f.inherited = g.inherited /\ f.eq = g.eq
    /\ Iclasses(f) = Iclasses(g) /\ Heads(f) = Heads(g) /\ \A x : Real(f, x) = Real(g, x)
    /\ \A x \in DOMAIN g.super : Chain(f, x) = Chain(g, x) /\ On(f, x) = On(g, x)
    /\ f.mt[Origin(f, c)] = c
    /\ \A x \in DOMAIN g.super : f.mt[x] = g.mt[x]
                                 \/ (f.mt[x] = c /\ g.mt[x] = NULL /\ \A y \in DOMAIN g.super : g.mt[y] # c)

LEMMA TabledSound ==
    ASSUME NEW g, NEW rank, NEW owner, Sound(g, rank, owner), NEW c \in Heads(g), NEW f, f = mt_writable(g, c)
    PROVE  Sound(f, rank, owner) /\ Tabled(g, c, f)
<1>1. PICK o : o = Origin(g, c)
    OBVIOUS
<1>2. /\ o \in DOMAIN g.super \ g.prepended /\ owner[o] = c /\ Real(g, o) = c
      /\ g.mt[o] = c \/ (g.mt[o] = NULL /\ c \in Singleton)
    BY <1>1, OriginTable
<1>3. c \in Named /\ c # NULL /\ c \in DOMAIN g.super
    BY ClassAssumption DEF Sound, Shaped, Heads
<1>4. CASE g.mt[o] # NULL
  <2>1. f = g
      BY <1>1, <1>4 DEF mt_writable
  <2>2. g.mt[o] = c
      BY <1>2, <1>4
  <2>. QED BY <1>1, <2>1, <2>2 DEF Tabled
<1>5. CASE g.mt[o] = NULL
  <2>1. f = [g EXCEPT !.mt[o] = c]
      BY <1>1, <1>5 DEF mt_writable
  <2>2. /\ f = [super |-> g.super, mt |-> [g.mt EXCEPT ![o] = c], of |-> g.of, origin |-> g.origin,
                prepended |-> g.prepended, inherited |-> g.inherited, eq |-> g.eq]
    <3>1. g = [super |-> g.super, mt |-> g.mt, of |-> g.of, origin |-> g.origin,
               prepended |-> g.prepended, inherited |-> g.inherited, eq |-> g.eq]
        BY DEF Sound, Shaped
    <3>2. PICK ps, pm, po, pr, pp, pi, pe :
              g = [super |-> ps, mt |-> pm, of |-> po, origin |-> pr, prepended |-> pp, inherited |-> pi, eq |-> pe]
        BY <3>1
    <3>. QED BY <2>1, <3>2
  <2>3. DOMAIN g.mt = DOMAIN g.super
      BY DEF Sound, Shaped
  <2>4. /\ f.super = g.super /\ f.of = g.of /\ f.origin = g.origin /\ f.prepended = g.prepended
        /\ f.inherited = g.inherited /\ f.eq = g.eq
        /\ DOMAIN f.mt = DOMAIN g.super /\ f.mt[o] = c
        /\ \A x \in DOMAIN g.super \ {o} : f.mt[x] = g.mt[x]
      BY <1>2, <2>2, <2>3
  <2>5. Iclasses(f) = Iclasses(g) /\ Heads(f) = Heads(g)
      BY <2>4 DEF Iclasses, Heads
  <2>6. \A x : Real(f, x) = Real(g, x)
      BY <2>4, <2>5 DEF Real
  <2>7. \A x \in DOMAIN g.super : Chain(f, x) = Chain(g, x) /\ On(f, x) = On(g, x)
      BY <2>4, SuperChain, ThreadRanked DEF Sound
  <2>8. Origin(f, c) = o
      BY <1>1, <1>3, <2>4, <2>7 DEF Origin
  <2>9. Shaped(f)
      BY <2>2, <2>4, <2>5 DEF Sound, Shaped
  <2>10. Threaded(f, rank, owner)
      BY <2>4, <2>5 DEF Sound, Threaded
  <2>11. Standing(f, owner)
    <3>1. \A d \in g.prepended : d \in DOMAIN g.super /\ d # o
        BY <1>2 DEF Sound, Shaped, Heads
    <3>2. \A d \in f.prepended : f.mt[d] = NULL /\ \E x \in f.origin : owner[x] = d
        BY <2>4, <3>1 DEF Sound, Standing
    <3>3. \A x \in DOMAIN f.super \ f.prepended :
              f.mt[x] = Real(f, x) \/ (f.mt[x] = NULL /\ Real(f, x) \in Singleton)
        BY <1>2, <2>4, <2>6 DEF Sound, Standing
    <3>. QED BY <2>4, <2>5, <3>2, <3>3 DEF Sound, Standing
  <2>12. ASSUME NEW y \in DOMAIN g.super PROVE g.mt[y] # c
    <3>1. CASE y \in g.prepended
        BY <1>3, <3>1 DEF Sound, Standing
    <3>2. CASE y \notin g.prepended /\ g.mt[y] = c
      <4>1. Real(g, y) = c
          BY <1>3, <3>2 DEF Sound, Standing
      <4>2. c \notin Module
          BY <1>2, <1>5, <1>3, ClassAssumption
      <4>3. y \in g.origin \/ y = c
          BY <4>1, <4>2 DEF Sound, Standing, Real
      <4>4. CASE y \in g.origin
        <5>1. owner[y] = c /\ c \in g.prepended
            BY <4>1, <4>4 DEF Sound, Standing, Shaped, Real
        <5>2. o = y
            BY <1>1, <4>4, <5>1, OriginOwn DEF Sound, Standing
        <5>. QED BY <1>3, <1>5, <3>2, <5>2
      <4>5. CASE y = c
          BY <1>1, <1>3, <1>5, <3>2, <4>5 DEF Origin
      <4>. QED BY <4>3, <4>4, <4>5
    <3>. QED BY <3>1, <3>2
  <2>13. Tabled(g, c, f)
      BY <1>5, <2>4, <2>5, <2>6, <2>7, <2>8, <2>12 DEF Tabled
  <2>. QED BY <2>9, <2>10, <2>11, <2>13 DEF Sound
<1>. QED BY <1>4, <1>5


-----------------------------------------------------------------------------
(* Singleton classes.                                                      *)

\* The root is no singleton class, and the only class without a superclass.
LEMMA RootFacts ==
    /\ Root \in Class \ Singleton
    /\ \A k \in Class : SuperOf[k] = NULL <=> k = Root
<1>1. PICK c \in Class : \A k \in Class : SuperOf[k] = NULL <=> k = c
    BY ClassAssumption
<1>2. Root = c
    BY <1>1 DEF Root
<1>3. PICK depth \in [Class -> 0 .. Cardinality(Class)] :
           \A k \in Class : SuperOf[k] # NULL => depth[SuperOf[k]] < depth[k]
    BY ClassAssumption
<1>. DEFINE D == {depth[k] : k \in Class \ Singleton}
<1>4. D \in SUBSET Nat /\ D # {}
    BY <1>3, ClassAssumption
<1>5. PICK n \in D : \A j \in D : n <= j
    BY <1>4, LeastMember
<1>6. PICK k \in Class \ Singleton : n = depth[k]
    BY <1>5
<1>7. SuperOf[k] = NULL
  <2>1. SUFFICES ASSUME SuperOf[k] # NULL PROVE FALSE
      OBVIOUS
  <2>2. SuperOf[k] \in Class \ Singleton
      BY <2>1, ClassAssumption
  <2>3. depth[SuperOf[k]] < n /\ n <= depth[SuperOf[k]] /\ depth[SuperOf[k]] \in Nat /\ n \in Nat
      BY <1>3, <1>4, <1>5, <1>6, <2>1, <2>2
  <2>. QED BY <2>3
<1>. QED BY <1>1, <1>2, <1>6, <1>7

\* f is g with the singleton class c, which has no table.
Joined(g, c, f) ==
    /\ Heads(f) = Heads(g) \cup {c} /\ Iclasses(f) = Iclasses(g) /\ c \notin DOMAIN g.super
    /\ DOMAIN f.super = DOMAIN g.super \cup {c} /\ \A x : Real(f, x) = Real(g, x)
    /\ f.origin = g.origin /\ f.prepended = g.prepended /\ f.of = g.of
    /\ f.mt[c] = NULL /\ \A x \in DOMAIN g.super : f.mt[x] = g.mt[x]
    /\ \A x \in DOMAIN g.super : Chain(f, x) = Chain(g, x) /\ On(f, x) = On(g, x)
    /\ SuperOf[c] \in Heads(g) /\ On(f, c) = {c} \cup On(g, SuperOf[c])

Prepared(g, c, I, E, f) ==
    f = [g EXCEPT !.super = With(@, c, SuperOf[c]), !.mt = With(@, c, NULL), !.inherited = I, !.eq = E]

LEMMA JoinedSound ==
    ASSUME NEW g, NEW rank, NEW owner, Sound(g, rank, owner), NEW c \in Singleton \ Heads(g),
           NEW I, NEW E, NEW f, Prepared(g, c, I, E, f)
    PROVE  /\ f.inherited = I /\ f.eq = E /\ Joined(g, c, f)
           /\ \E r, w : Sound(f, r, w)
<1>1. c \in Class /\ c \in Named /\ c \notin Module /\ c # NULL
    BY ClassAssumption DEF Named
<1>2. c \notin Iclasses(g) /\ c \notin DOMAIN g.super
    BY <1>1, NamedNumber DEF Sound, Shaped, Heads
<1>3. PICK p : p = SuperOf[c]
    OBVIOUS
<1>4. p \in Class \ Singleton /\ p # c
    BY <1>1, <1>3, RootFacts, ClassAssumption
<1>5. p \in Heads(g) /\ p \in DOMAIN g.super
    BY <1>4 DEF Sound, Shaped, Heads, Named
<1>6. f = [super |-> With(g.super, c, p), mt |-> With(g.mt, c, NULL), of |-> g.of, origin |-> g.origin,
           prepended |-> g.prepended, inherited |-> I, eq |-> E]
  <2>1. g = [super |-> g.super, mt |-> g.mt, of |-> g.of, origin |-> g.origin,
             prepended |-> g.prepended, inherited |-> g.inherited, eq |-> g.eq]
      BY DEF Sound, Shaped
  <2>2. PICK ps, pm, po, pr, pp, pi, pe :
            g = [super |-> ps, mt |-> pm, of |-> po, origin |-> pr, prepended |-> pp, inherited |-> pi, eq |-> pe]
      BY <2>1
  <2>. QED BY <1>3, <2>2 DEF Prepared
<1>7. DOMAIN g.mt = DOMAIN g.super
    BY DEF Sound, Shaped
<1>8. /\ f.of = g.of /\ f.origin = g.origin /\ f.prepended = g.prepended /\ f.inherited = I /\ f.eq = E
      /\ f.super = With(g.super, c, p) /\ f.mt = With(g.mt, c, NULL)
    BY ONLY <1>6
<1>9. /\ DOMAIN f.super = DOMAIN g.super \cup {c} /\ DOMAIN f.mt = DOMAIN g.super \cup {c}
      /\ f.super[c] = p /\ f.mt[c] = NULL
      /\ \A x \in DOMAIN g.super : f.super[x] = g.super[x] /\ f.mt[x] = g.mt[x]
    BY <1>2, <1>7, <1>8 DEF With
<1>10. Iclasses(f) = Iclasses(g) /\ Heads(f) = Heads(g) \cup {c}
    BY <1>2, <1>8, <1>9 DEF Iclasses, Heads
<1>11. \A x : Real(f, x) = Real(g, x)
    BY <1>8, <1>10 DEF Real
<1>12. Shaped(f)
  <2>1. IsFiniteSet(DOMAIN f.super)
      BY <1>9, FS_AddElement DEF Sound, Shaped
  <2>. QED BY <1>1, <1>6, <1>8, <1>9, <1>10, <2>1 DEF Sound, Shaped
<1>. DEFINE r == [x \in DOMAIN f.super |-> IF x = c THEN rank[p] + 1 ELSE rank[x]]
            w == [x \in DOMAIN f.super |-> IF x = c THEN c ELSE owner[x]]
<1>13. /\ r[c] = rank[p] + 1 /\ w[c] = c
       /\ \A x \in DOMAIN g.super : r[x] = rank[x] /\ w[x] = owner[x] /\ owner[x] \in Heads(g) /\ rank[x] \in Nat
    BY <1>2, <1>9 DEF Sound, Threaded
<1>. HIDE DEF r, w
<1>14. Threaded(f, r, w)
  <2>1. ASSUME NEW x \in DOMAIN g.super
        PROVE  /\ r[x] \in Nat /\ w[x] \in Heads(f)
               /\ x \in Heads(f) => w[x] = x
               /\ x \in Iclasses(f) => r[x] < r[w[x]]
               /\ \/ f.super[x] \in Iclasses(f) /\ w[f.super[x]] = w[x] /\ r[f.super[x]] < r[x]
                  \/ /\ f.super[x] = Above(w[x])
                     /\ f.super[x] # NULL => f.super[x] \in Heads(f) /\ r[f.super[x]] < r[x]
               /\ \A y \in DOMAIN f.super : w[y] = w[x] =>
                      /\ r[y] = r[x] => y = x
                      /\ r[y] < r[x] => f.super[x] \in Iclasses(f) /\ r[y] <= r[f.super[x]]
    <3>1. /\ rank[x] \in Nat /\ owner[x] \in Heads(g) /\ owner[x] \in DOMAIN g.super
          /\ x \in Heads(g) => owner[x] = x
          /\ x \in Iclasses(g) => rank[x] < rank[owner[x]]
          /\ \/ g.super[x] \in Iclasses(g) /\ owner[g.super[x]] = owner[x] /\ rank[g.super[x]] < rank[x]
             \/ /\ g.super[x] = Above(owner[x])
                /\ g.super[x] # NULL => g.super[x] \in Heads(g) /\ rank[g.super[x]] < rank[x]
          /\ \A y \in DOMAIN g.super : owner[y] = owner[x] =>
               /\ rank[y] = rank[x] => y = x
               /\ rank[y] < rank[x] => g.super[x] \in Iclasses(g) /\ rank[y] <= rank[g.super[x]]
        BY DEF Sound, Threaded, Heads
    <3>2. Iclasses(g) \subseteq DOMAIN g.super /\ Heads(g) \subseteq DOMAIN g.super
        BY DEF Sound, Shaped, Heads
    <3>3. w[x] # c
        BY <1>13
    <3>4. \A y \in DOMAIN f.super : w[y] = w[x] => y \in DOMAIN g.super
        BY <1>9, <1>13, <3>3
    <3>5. \A y \in DOMAIN f.super : w[y] = w[x] =>
                      /\ r[y] = r[x] => y = x
                      /\ r[y] < r[x] => f.super[x] \in Iclasses(f) /\ r[y] <= r[f.super[x]]
        BY <1>9, <1>10, <1>13, <3>1, <3>2, <3>4
    <3>6. \/ f.super[x] \in Iclasses(f) /\ w[f.super[x]] = w[x] /\ r[f.super[x]] < r[x]
          \/ /\ f.super[x] = Above(w[x])
             /\ f.super[x] # NULL => f.super[x] \in Heads(f) /\ r[f.super[x]] < r[x]
        BY <1>9, <1>10, <1>13, <3>1, <3>2
    <3>. QED BY <1>2, <1>10, <1>13, <3>1, <3>5, <3>6
  <2>2. /\ r[c] \in Nat /\ w[c] \in Heads(f) /\ w[c] = c /\ c \notin Iclasses(f)
        /\ f.super[c] = Above(w[c])
        /\ f.super[c] # NULL => f.super[c] \in Heads(f) /\ r[f.super[c]] < r[c]
        /\ \A y \in DOMAIN f.super : w[y] = w[c] => y = c
    <3>1. \A y \in DOMAIN f.super : w[y] = c => y = c
        BY <1>2, <1>9, <1>13
    <3>. QED BY <1>1, <1>2, <1>3, <1>5, <1>9, <1>10, <1>13, <3>1 DEF Above
  <2>3. ~(r[c] < r[c])
      BY <2>2
  <2>. QED BY <1>9, <2>1, <2>2, <2>3 DEF Threaded
<1>15. Standing(f, w)
  <2>1. g.origin \subseteq Iclasses(g) /\ Iclasses(g) \subseteq DOMAIN g.super /\ g.prepended \subseteq DOMAIN g.super
      BY DEF Sound, Shaped, Heads
  <2>2. \A x \in g.origin : w[x] = owner[x]
      BY <1>13, <2>1
  <2>3. Real(f, c) = c
      BY <1>2, <1>10 DEF Real
  <2>4. \A d \in f.prepended : f.mt[d] = NULL /\ \E o \in f.origin : w[o] = d
      BY <1>8, <1>9, <2>1, <2>2 DEF Sound, Standing
  <2>5. \A x \in DOMAIN f.super \ f.prepended :
            f.mt[x] = Real(f, x) \/ (f.mt[x] = NULL /\ Real(f, x) \in Singleton)
      BY <1>8, <1>9, <1>11, <2>3 DEF Sound, Standing
  <2>6. \A x \in f.origin : f.of[x] = w[x] /\ w[x] \in f.prepended
      BY <1>8, <2>2 DEF Sound, Standing
  <2>7. \A x, y \in f.origin : w[x] = w[y] => x = y
      BY <1>8, <2>2 DEF Sound, Standing
  <2>8. \A x \in Iclasses(f) \ f.origin : f.of[x] \in Module
      BY <1>8, <1>10 DEF Sound, Standing
  <2>. QED BY <2>4, <2>5, <2>6, <2>7, <2>8 DEF Standing
<1>16. Ranked(f, r) /\ Ranked(g, rank)
    BY <1>12, <1>14, ThreadRanked DEF Sound
<1>17. ASSUME NEW x \in DOMAIN g.super PROVE Chain(f, x) = Chain(g, x) /\ On(f, x) = On(g, x)
  <2>1. PICK up, vp : up = Chain(g, x) /\ vp = Chain(f, x)
      OBVIOUS
  <2>2. Full(g, x, up) /\ Full(f, x, vp)
      BY <1>9, <1>16, <2>1, ChainFull
  <2>3. \A i \in 1 .. Len(up) : f.super[up[i]] = g.super[up[i]]
      BY <1>9, <2>2 DEF Full, Walks
  <2>4. up = vp
      BY <1>16, <2>2, <2>3, SameChain DEF Ranked
  <2>. QED BY <2>1, <2>4 DEF On
<1>18. On(f, c) = {c} \cup On(g, p)
  <2>1. p \in On(g, p) /\ On(g, p) \subseteq DOMAIN g.super
        /\ \A y \in On(g, p) : g.super[y] # NULL => g.super[y] \in On(g, p)
      BY <1>5, <1>16, OnFacts
  <2>2. PICK S : S = {c} \cup On(g, p)
      OBVIOUS
  <2>3. \A y \in S : y \in DOMAIN f.super /\ f.super[y] # NULL => f.super[y] \in S
      BY <1>9, <2>1, <2>2
  <2>4. c \in S /\ c \in DOMAIN f.super
      BY <1>9, <2>2
  <2>5. On(f, c) \subseteq S
      BY <1>16, <2>3, <2>4, OnInduction
  <2>6. c \in On(f, c) /\ p \in On(f, c)
      BY <1>4, <1>5, <1>9, <1>16, <2>4, OnFacts DEF Ranked
  <2>7. On(f, p) \subseteq On(f, c)
      BY <1>16, <2>4, <2>6, OnSuffix
  <2>8. On(f, p) = On(g, p)
      BY <1>5, <1>17
  <2>. QED BY <2>2, <2>5, <2>6, <2>7, <2>8
<1>19. Joined(g, c, f)
    BY <1>2, <1>3, <1>5, <1>8, <1>9, <1>10, <1>11, <1>17, <1>18 DEF Joined
<1>. QED BY <1>8, <1>12, <1>14, <1>15, <1>19 DEF Sound

\* The singleton class c and the rest of its thread are no longer in f.
Freed(g, owner, c, own, f) ==
    /\ own = {x \in DOMAIN g.super : owner[x] = c}
    /\ Heads(f) = Heads(g) \ {c} /\ DOMAIN f.super = DOMAIN g.super \ own
    /\ f.origin = g.origin \ own /\ f.prepended = g.prepended \ own
    /\ f.inherited = g.inherited \ own /\ f.eq = g.eq \ own
    /\ \A x \in DOMAIN f.super : f.mt[x] = g.mt[x] /\ Real(f, x) = Real(g, x) /\ (x \in Iclasses(f) <=> x \in Iclasses(g))
    /\ \A k \in Heads(f) : Chain(f, k) = Chain(g, k) /\ On(f, k) = On(g, k) /\ On(g, k) \cap own = {}
    /\ \A x \in DOMAIN f.super : Real(f, x) # c

LEMMA FreedSound ==
    ASSUME NEW g, NEW rank, NEW owner, Sound(g, rank, owner), NEW c \in Singleton \cap Heads(g),
           NEW own, own = ToSet(Chain(g, c)) \ UNION {ToSet(Chain(g, k)) : k \in Heads(g) \ {c}}, NEW f,
           f = [super |-> [x \in DOMAIN g.super \ own |-> g.super[x]], mt |-> [x \in DOMAIN g.mt \ own |-> g.mt[x]],
                of |-> [x \in DOMAIN g.of \ own |-> g.of[x]],
                origin |-> g.origin \ own, prepended |-> g.prepended \ own,
                inherited |-> g.inherited \ own, eq |-> g.eq \ own]
    PROVE  Sound(f, rank, owner) /\ Freed(g, owner, c, own, f)
<1>1. own = {x \in DOMAIN g.super : owner[x] = c}
  <2>1. own = On(g, c) \ UNION {On(g, k) : k \in Heads(g) \ {c}}
      BY DEF On
  <2>2. ASSUME NEW k \in Heads(g) \ {c}, NEW y \in On(g, k) PROVE owner[y] # c
      BY OnOwner DEF Sound
  <2>3. \A x \in DOMAIN g.super : x \in On(g, owner[x]) /\ owner[x] \in Heads(g)
      BY OwnThread DEF Sound, Threaded
  <2>4. On(g, c) \subseteq DOMAIN g.super
      BY OnFacts, ThreadRanked DEF Sound, Heads
  <2>5. ASSUME NEW x \in own PROVE x \in DOMAIN g.super /\ owner[x] = c
      BY <2>1, <2>3, <2>4
  <2>6. ASSUME NEW x \in DOMAIN g.super, owner[x] = c PROVE x \in own
      BY <2>1, <2>2, <2>3, <2>6
  <2>. QED BY <2>5, <2>6
<1>2. c \in Class /\ c \notin Module /\ c \in DOMAIN g.super /\ owner[c] = c /\ c \notin Iclasses(g) /\ c \in Named
    BY ClassAssumption DEF Heads, Sound, Shaped, Threaded
<1>3. DOMAIN g.mt = DOMAIN g.super /\ Iclasses(g) = DOMAIN g.of /\ Iclasses(g) \subseteq DOMAIN g.super
    BY DEF Sound, Shaped, Iclasses
<1>4. \A x \in Heads(g) : x \in own <=> x = c
    BY <1>1, <1>2 DEF Sound, Threaded, Heads
<1>5. /\ DOMAIN f.super = DOMAIN g.super \ own /\ DOMAIN f.mt = DOMAIN g.super \ own
      /\ DOMAIN f.of = Iclasses(g) \ own
      /\ f.origin = g.origin \ own /\ f.prepended = g.prepended \ own
      /\ f.inherited = g.inherited \ own /\ f.eq = g.eq \ own
      /\ \A x \in DOMAIN f.super : f.super[x] = g.super[x] /\ f.mt[x] = g.mt[x]
      /\ \A x \in DOMAIN f.of : f.of[x] = g.of[x]
    BY <1>3
<1>6. Iclasses(f) = Iclasses(g) \ own /\ Heads(f) = Heads(g) \ {c}
    BY <1>3, <1>4, <1>5 DEF Iclasses, Heads
<1>7. \A x \in DOMAIN f.super : Real(f, x) = Real(g, x) /\ (x \in Iclasses(f) <=> x \in Iclasses(g))
    BY <1>5, <1>6 DEF Real, Iclasses
<1>8. Shaped(f)
  <2>1. IsFiniteSet(DOMAIN f.super)
      BY <1>5, FS_Subset DEF Sound, Shaped
  <2>2. Named \ Singleton \subseteq Heads(f) /\ Heads(f) \subseteq Named
      BY <1>6 DEF Sound, Shaped
  <2>3. f.prepended \subseteq Heads(f) /\ f.origin \subseteq Iclasses(f)
      BY <1>4, <1>5, <1>6 DEF Sound, Shaped
  <2>4. f = [super |-> f.super, mt |-> f.mt, of |-> f.of, origin |-> f.origin,
             prepended |-> f.prepended, inherited |-> f.inherited, eq |-> f.eq]
      OBVIOUS
  <2>5. Iclasses(f) \subseteq DOMAIN f.super /\ Iclasses(f) \subseteq Nat
      BY <1>3, <1>5, <1>6 DEF Sound, Shaped
  <2>. HIDE DEF Iclasses
  <2>. QED BY <1>5, <2>1, <2>2, <2>3, <2>4, <2>5 DEF Shaped
<1>9. Threaded(f, rank, owner)
  <2>1. SUFFICES ASSUME NEW x \in DOMAIN f.super
        PROVE  /\ rank[x] \in Nat /\ owner[x] \in Heads(f)
               /\ x \in Heads(f) => owner[x] = x
               /\ x \in Iclasses(f) => rank[x] < rank[owner[x]]
               /\ \/ f.super[x] \in Iclasses(f) /\ owner[f.super[x]] = owner[x] /\ rank[f.super[x]] < rank[x]
                  \/ /\ f.super[x] = Above(owner[x])
                     /\ f.super[x] # NULL => f.super[x] \in Heads(f) /\ rank[f.super[x]] < rank[x]
               /\ \A y \in DOMAIN f.super : owner[y] = owner[x] =>
                      /\ rank[y] = rank[x] => y = x
                      /\ rank[y] < rank[x] => f.super[x] \in Iclasses(f) /\ rank[y] <= rank[f.super[x]]
      BY DEF Threaded
  <2>2. x \in DOMAIN g.super /\ owner[x] # c /\ f.super[x] = g.super[x] /\ owner[x] \in Heads(g)
      BY <1>1, <1>5 DEF Sound, Threaded
  <2>3. /\ rank[x] \in Nat
        /\ x \in Heads(g) => owner[x] = x
        /\ x \in Iclasses(g) => rank[x] < rank[owner[x]]
        /\ \/ g.super[x] \in Iclasses(g) /\ owner[g.super[x]] = owner[x] /\ rank[g.super[x]] < rank[x]
           \/ /\ g.super[x] = Above(owner[x])
              /\ g.super[x] # NULL => g.super[x] \in Heads(g) /\ rank[g.super[x]] < rank[x]
        /\ \A y \in DOMAIN g.super : owner[y] = owner[x] =>
               /\ rank[y] = rank[x] => y = x
               /\ rank[y] < rank[x] => g.super[x] \in Iclasses(g) /\ rank[y] <= rank[g.super[x]]
      BY <2>2 DEF Sound, Threaded
  <2>4. g.super[x] \in Iclasses(g) => g.super[x] \in Iclasses(f)
                                      /\ owner[g.super[x]] = owner[x] /\ rank[g.super[x]] < rank[x]
    <3>2. g.super[x] \in Iclasses(g) => g.super[x] # NULL
        BY ClassAssumption DEF Sound, Shaped
    <3>3. g.super[x] \in Iclasses(g) => owner[g.super[x]] = owner[x] /\ rank[g.super[x]] < rank[x]
        BY <2>3, <3>2 DEF Heads
    <3>. QED BY <1>1, <1>6, <2>2, <3>3
  <2>5. Above(owner[x]) # c
      BY <1>2, ClassAssumption DEF Above
  <2>. QED BY <1>5, <1>6, <2>2, <2>3, <2>4, <2>5
<1>10. Standing(f, owner)
  <2>1. \A x \in f.origin : f.of[x] = owner[x] /\ owner[x] \in f.prepended
    <3>1. SUFFICES ASSUME NEW x \in f.origin PROVE f.of[x] = owner[x] /\ owner[x] \in f.prepended
        OBVIOUS
    <3>2. x \in g.origin /\ x \notin own /\ x \in Iclasses(g) /\ x \in DOMAIN g.super
        BY <1>3, <1>5 DEF Sound, Shaped
    <3>3. g.of[x] = owner[x] /\ owner[x] \in g.prepended /\ owner[x] # c /\ owner[x] \in Heads(g)
        BY <1>1, <3>2 DEF Sound, Standing, Shaped
    <3>. QED BY <1>4, <1>5, <3>2, <3>3
  <2>2. \A x, y \in f.origin : owner[x] = owner[y] => x = y
      BY <1>5 DEF Sound, Standing
  <2>3. \A x \in Iclasses(f) \ f.origin : f.of[x] \in Module
      BY <1>5, <1>6 DEF Sound, Standing
  <2>4. ASSUME NEW d \in f.prepended PROVE f.mt[d] = NULL /\ \E o \in f.origin : owner[o] = d
    <3>1. d \in g.prepended /\ d \in Heads(g) /\ d # c /\ d \in DOMAIN f.super
        BY <1>4, <1>5 DEF Sound, Shaped, Heads
    <3>2. PICK o \in g.origin : owner[o] = d
        BY <3>1 DEF Sound, Standing
    <3>3. o \notin own /\ g.mt[d] = NULL
        BY <1>1, <3>1, <3>2 DEF Sound, Standing
    <3>. QED BY <1>5, <3>1, <3>2, <3>3
  <2>5. ASSUME NEW x \in DOMAIN f.super \ f.prepended
        PROVE  f.mt[x] = Real(f, x) \/ (f.mt[x] = NULL /\ Real(f, x) \in Singleton)
    <3>1. x \in DOMAIN g.super \ g.prepended
        BY <1>5
    <3>. QED BY <1>5, <1>7, <3>1 DEF Sound, Standing
  <2>. QED BY <2>1, <2>2, <2>3, <2>4, <2>5 DEF Standing
<1>11. Ranked(f, rank) /\ Ranked(g, rank)
    BY <1>8, <1>9, ThreadRanked DEF Sound
<1>. HIDE DEF Iclasses
<1>12. ASSUME NEW k \in Heads(f) PROVE Chain(f, k) = Chain(g, k) /\ On(f, k) = On(g, k) /\ On(g, k) \cap own = {}
  <2>1. k \in Heads(g) /\ k # c /\ k \in DOMAIN g.super /\ k \in DOMAIN f.super
      BY <1>6, <1>5, <1>4 DEF Heads
  <2>2. PICK up, vp : up = Chain(g, k) /\ vp = Chain(f, k)
      OBVIOUS
  <2>3. Full(g, k, up) /\ Full(f, k, vp)
      BY <1>11, <2>1, <2>2, ChainFull
  <2>4. On(g, k) \cap own = {}
      BY <1>1, <2>1, OnOwner DEF Sound
  <2>5. \A i \in 1 .. Len(up) : up[i] \in On(g, k) /\ up[i] \in DOMAIN g.super
    <3>1. up \in Seq(DOMAIN g.super) /\ On(g, k) = ToSet(up)
        BY <2>2, <2>3 DEF On, Full, Walks
    <3>2. DOMAIN up = 1 .. Len(up) /\ \A i \in 1 .. Len(up) : up[i] \in DOMAIN g.super
        BY <3>1
    <3>. QED BY <3>1, <3>2 DEF ToSet
  <2>6. \A i \in 1 .. Len(up) : f.super[up[i]] = g.super[up[i]]
      BY <1>5, <2>4, <2>5
  <2>7. up = vp
      BY <1>11, <2>3, <2>6, SameChain DEF Ranked
  <2>. QED BY <2>2, <2>4, <2>7 DEF On
<1>13. ASSUME NEW x \in DOMAIN f.super PROVE Real(f, x) # c
  <2>1. x \in DOMAIN g.super /\ owner[x] # c /\ Real(f, x) = Real(g, x) /\ x # c
      BY <1>1, <1>2, <1>5, <1>7
  <2>2. CASE x \in g.origin
      BY <2>1, <2>2 DEF Sound, Standing, Shaped, Real
  <2>3. CASE x \in Iclasses(g) \ g.origin
      BY <1>2, <2>1, <2>3 DEF Sound, Standing, Real
  <2>4. CASE x \notin Iclasses(g)
      BY <2>1, <2>4 DEF Real
  <2>. QED BY <2>2, <2>3, <2>4
<1>. QED BY <1>1, <1>5, <1>6, <1>7, <1>8, <1>9, <1>10, <1>12, <1>13 DEF Sound, Freed


-----------------------------------------------------------------------------
(* Sound heaps have sound chains.                                          *)

\* The chain of a class reaches the root.
LEMMA RootReached ==
    ASSUME NEW g, NEW rank, NEW owner, Sound(g, rank, owner), NEW c \in Heads(g) \cap Class
    PROVE  Root \in On(g, c)
<1>1. Ranked(g, rank) /\ c \in DOMAIN g.super
    BY ThreadRanked DEF Sound, Heads
<1>2. PICK up : up = Chain(g, c) /\ Full(g, c, up)
    BY <1>1, ChainFull
<1>3. up \in Seq(DOMAIN g.super) /\ Len(up) \in Nat /\ Len(up) > 0 /\ g.super[up[Len(up)]] = NULL
    BY <1>2 DEF Full, Walks
<1>4. PICK x \in DOMAIN g.super : x = up[Len(up)]
    BY <1>3
<1>5. x \in On(g, c) /\ g.super[x] = NULL
    BY <1>2, <1>3, <1>4 DEF On, ToSet
<1>6. owner[x] \in On(g, c) /\ owner[x] \in Class
    BY <1>5, OnOwner DEF Sound
<1>7. NULL \notin Iclasses(g)
    BY ClassAssumption DEF Sound, Shaped
<1>8. Above(owner[x]) = NULL
    BY <1>5, <1>7 DEF Sound, Threaded
<1>. QED BY <1>6, <1>8, RootFacts DEF Above

\* The part of the chain before the superclass, and where origins stand in it
OwnPart(g, c, own) ==
    LET up == Chain(g, c)
        class == FirstOf(Tail(up), Class)
    IN  own = IF class = 0 THEN up ELSE SubSeq(up, 1, class)

LEMMA OwnOrigins ==
    ASSUME NEW g, NEW rank, NEW owner, Sound(g, rank, owner), NEW c \in Heads(g), NEW own, OwnPart(g, c, own)
    PROVE  Cardinality({i \in DOMAIN own : own[i] \in g.origin}) = IF c \in g.prepended THEN 1 ELSE 0
<1>1. Ranked(g, rank) /\ c \in DOMAIN g.super /\ owner[c] = c
    BY ThreadRanked DEF Sound, Heads, Threaded
<1>2. PICK up : up = Chain(g, c)
    OBVIOUS
<1>3. Full(g, c, up)
    BY <1>1, <1>2, ChainFull
<1>4. up \in Seq(DOMAIN g.super) /\ Len(up) \in Nat /\ Len(up) > 0 /\ up[1] = c /\ up # << >>
    BY <1>3 DEF Full, Walks
<1>5. PICK t : t = Tail(up)
    OBVIOUS
<1>6. t \in Seq(DOMAIN g.super) /\ Len(t) = Len(up) - 1 /\ \A i \in 1 .. Len(t) : t[i] = up[i + 1]
    BY <1>4, <1>5, HeadTailProperties
<1>7. \A i, j \in 1 .. Len(up) : up[i] = up[j] => i = j
    BY <1>1, <1>3, WalkBounded DEF Full
<1>8. On(g, c) = {up[i] : i \in 1 .. Len(up)}
    BY <1>2, <1>4 DEF On, ToSet
<1>9. ASSUME NEW i \in 1 .. Len(t), t[i] \in Class PROVE t[i] \in Class \ Singleton
  <2>1. i + 1 \in 1 .. Len(up) /\ 1 \in 1 .. Len(up) /\ i + 1 # 1
      BY <1>4, <1>6
  <2>2. t[i] \in On(g, c) /\ t[i] # c
      BY <1>4, <1>6, <1>7, <1>8, <2>1
  <2>3. t[i] \in DOMAIN g.super /\ t[i] \in Named
      BY <1>6, <1>9 DEF Named
  <2>4. t[i] \in Heads(g)
      BY <2>3, NamedNumber DEF Sound, Shaped, Heads
  <2>5. owner[t[i]] = t[i]
      BY <2>3, <2>4 DEF Sound, Threaded
  <2>. QED BY <2>2, <2>5, OnOwner DEF Sound
<1>10. PICK n : n = FirstOf(t, Class)
    OBVIOUS
<1>11. FirstOf(t, Class \ Singleton) = n
  <2>1. DOMAIN t = 1 .. Len(t)
      BY <1>6
  <2>2. {i \in DOMAIN t : t[i] \in Class} = {i \in DOMAIN t : t[i] \in Class \ Singleton}
      BY <1>9, <2>1
  <2>. QED BY <1>10, <2>2 DEF FirstOf
<1>12. \/ n = 0
       \/ n \in 1 .. Len(t) /\ t[n] \in Class
    BY <1>6, <1>10, FirstOfFacts
<1>13. PICK L \in Nat : L = IF n = 0 THEN Len(up) ELSE n
    BY <1>4, <1>6, <1>12
<1>14. L \in 1 .. Len(up)
    BY <1>4, <1>6, <1>12, <1>13
<1>15. own = IF n = 0 THEN up ELSE SubSeq(up, 1, n)
    BY <1>2, <1>5, <1>10 DEF OwnPart
<1>16. DOMAIN own = 1 .. L /\ \A i \in 1 .. L : own[i] = up[i]
  <2>1. CASE n = 0
      BY <1>4, <1>13, <1>15, <2>1
  <2>2. CASE n # 0
    <3>1. PICK sub : sub = SubSeq(up, 1, n)
        OBVIOUS
    <3>2. n \in 0 .. Len(up)
        BY <1>4, <1>13, <1>14, <2>2
    <3>3. sub = Restrict(up, 1 .. n)
        BY <1>4, <3>1, <3>2, SubSeqRestrict
    <3>4. DOMAIN sub = 1 .. n /\ \A i \in 1 .. n : sub[i] = up[i]
        BY <3>3 DEF Restrict
    <3>. QED BY <1>13, <1>15, <2>2, <3>1, <3>4
  <2>. QED BY <2>1, <2>2
<1>17. ASSUME NEW i \in 1 .. L PROVE owner[up[i]] = c
  <2>1. CASE i = 1
      BY <1>1, <1>4, <2>1
  <2>2. CASE i # 1
    <3>1. i - 1 \in 1 .. Len(t) /\ i - 1 + 1 = i /\ (n = 0 \/ i - 1 < n)
        BY <1>4, <1>6, <1>12, <1>13, <1>14, <2>2
    <3>2. TailOf(g, c, t)
        BY <1>2, <1>5 DEF TailOf
    <3>3. PICK e \in 1 .. Len(t) : e = i - 1
        BY <3>1
    <3>4. FirstOf(t, Class \ Singleton) = 0 \/ e < FirstOf(t, Class \ Singleton)
        BY <1>11, <3>1, <3>3
    <3>5. Shaped(g) /\ Threaded(g, rank, owner)
        BY DEF Sound
    <3>6. owner[t[e]] = owner[c]
      <4>1. \A x \in 1 .. Len(t) : (FirstOf(t, Class \ Singleton) = 0 \/ x < FirstOf(t, Class \ Singleton))
                                    => owner[t[x]] = owner[c]
          BY <1>1, <3>2, <3>5, BeforeOwn
      <4>. QED BY <3>4, <4>1, Zenon
    <3>. QED BY <1>1, <1>6, <3>1, <3>3, <3>6
  <2>. QED BY <2>1, <2>2
<1>18. ASSUME NEW j \in 1 .. Len(up), owner[up[j]] = c PROVE j \in 1 .. L
  <2>1. SUFFICES ASSUME L < j PROVE FALSE
      BY <1>4, <1>13
  <2>2. n # 0 /\ L = n /\ n \in 1 .. Len(up) /\ n \in 1 .. Len(t)
      BY <1>4, <1>12, <1>13, <1>14, <2>1
  <2>3. j \in n + 1 .. Len(up)
      BY <1>4, <2>1, <2>2
  <2>4. PICK x \in DOMAIN g.super : x = up[n]
      BY <1>4, <2>2
  <2>5. PICK y \in DOMAIN g.super : y = up[j]
      BY <1>4
  <2>6. rank[y] < rank[x]
      BY <1>1, <1>3, <2>2, <2>3, <2>4, <2>5, WalkFalls DEF Full
  <2>7. owner[x] = c /\ owner[y] = c
      BY <1>17, <1>18, <2>2, <2>4, <2>5
  <2>8. g.super[x] \in Iclasses(g)
      BY <2>6, <2>7 DEF Sound, Threaded
  <2>9. g.super[x] = t[n]
    <3>1. n \in 1 .. Len(up) - 1
        BY <1>4, <1>6, <2>2
    <3>2. g.super[up[n]] = up[n + 1]
        BY <1>3, <3>1 DEF Full, Walks
    <3>. QED BY <1>6, <2>2, <2>4, <3>2
  <2>10. t[n] \in Named
      BY <1>12, <2>2 DEF Named
  <2>. QED BY <2>8, <2>9, <2>10, NamedNumber DEF Sound, Shaped
<1>19. PICK H : H = {i \in DOMAIN own : own[i] \in g.origin}
    OBVIOUS
<1>20. H = {i \in 1 .. L : up[i] \in g.origin}
    BY <1>16, <1>19
<1>21. CASE c \in g.prepended
  <2>1. PICK o \in g.origin : owner[o] = c
      BY <1>21 DEF Sound, Standing
  <2>2. o \in On(g, c)
    <3>1. o \in DOMAIN g.super
        BY <2>1 DEF Sound, Shaped
    <3>. QED BY <2>1, <3>1, OwnThread DEF Sound
  <2>3. PICK j \in 1 .. Len(up) : o = up[j]
      BY <1>8, <2>2
  <2>4. j \in 1 .. L
      BY <1>18, <2>1, <2>3
  <2>5. \A i \in H : i = j
    <3>1. SUFFICES ASSUME NEW i \in H PROVE i = j
        OBVIOUS
    <3>2. up[i] \in g.origin /\ owner[up[i]] = c /\ i \in 1 .. Len(up)
        BY <1>4, <1>14, <1>17, <1>20
    <3>3. up[i] = o
        BY <2>1, <3>2 DEF Sound, Standing
    <3>. QED BY <1>7, <2>3, <3>2, <3>3
  <2>6. H = {j}
      BY <1>20, <2>1, <2>3, <2>4, <2>5
  <2>. QED BY <1>19, <1>21, <2>6, FS_Singleton
<1>22. CASE c \notin g.prepended
  <2>1. H = {}
      BY <1>17, <1>20, <1>22 DEF Sound, Standing
  <2>. QED BY <1>19, <1>22, <2>1, FS_EmptySet
<1>. QED BY <1>21, <1>22

\* An ICLASS shares the table of the origin of what it stands for.
LEMMA SharedTable ==
    ASSUME NEW g, NEW rank, NEW owner, Sound(g, rank, owner), NEW x \in Iclasses(g)
    PROVE  g.mt[x] = g.mt[Origin(g, g.of[x])]
<1>1. x \in DOMAIN g.super /\ x \notin g.prepended /\ Real(g, x) = g.of[x]
    BY DEF Sound, Shaped, Heads, Real
<1>2. CASE x \in g.origin
  <2>1. g.of[x] = owner[x] /\ owner[x] \in g.prepended
      BY <1>2 DEF Sound, Standing
  <2>2. PICK o : o = Origin(g, owner[x]) /\ o \in g.origin /\ owner[o] = owner[x]
      BY <2>1, OriginOwn
  <2>3. o = x
      BY <1>2, <2>2 DEF Sound, Standing
  <2>. QED BY <2>1, <2>2, <2>3
<1>3. CASE x \notin g.origin
  <2>1. g.of[x] \in Module
      BY <1>3 DEF Sound, Standing
  <2>2. g.mt[Origin(g, g.of[x])] = g.of[x] /\ g.of[x] \notin Singleton
      BY <2>1, ModuleTable
  <2>. QED BY <1>1, <2>2 DEF Sound, Standing
<1>. QED BY <1>2, <1>3

LEMMA SoundChains ==
    ASSUME NEW rank, NEW owner, Sound(h, rank, owner)
    PROVE  ChainsSound
<1>1. Live = Heads(h)
    BY DEF Live, Heads
<1>2. \A x \in DOMAIN h.super : h.super[x] \in DOMAIN h.super \cup {NULL}
    BY ThreadRanked DEF Sound, Ranked
<1>3. \A c \in Live \cap Class : Root \in ToSet(Chain(h, c))
    BY <1>1, RootReached DEF On
<1>4. \A x \in Iclasses(h) : h.mt[x] = h.mt[Origin(h, h.of[x])]
    BY SharedTable
<1>5. ASSUME NEW c \in Live
      PROVE  LET up == Chain(h, c)
                 class == FirstOf(Tail(up), Class)
                 own == IF class = 0 THEN up ELSE SubSeq(up, 1, class)
                 hides == {i \in DOMAIN own : own[i] \in h.origin}
             IN  /\ Cardinality(hides) = IF c \in h.prepended THEN 1 ELSE 0
                 /\ c \in h.prepended => h.mt[c] = NULL
  <2>. DEFINE up == Chain(h, c)
              class == FirstOf(Tail(up), Class)
              own == IF class = 0 THEN up ELSE SubSeq(up, 1, class)
  <2>1. OwnPart(h, c, own)
      BY DEF OwnPart
  <2>. HIDE DEF own
  <2>2. Cardinality({i \in DOMAIN own : own[i] \in h.origin}) = IF c \in h.prepended THEN 1 ELSE 0
      BY <1>1, <2>1, OwnOrigins
  <2>3. c \in h.prepended => h.mt[c] = NULL
      BY DEF Sound, Standing
  <2>. QED BY <2>2, <2>3 DEF own
<1>. QED BY <1>2, <1>3, <1>4, <1>5 DEF ChainsSound


-----------------------------------------------------------------------------
(* What is included in a module reaches what the module is included in.    *)

Closed(g) == \A k \in Heads(g) : \A n \in Names(g, k) \cap Module : Names(g, n) \subseteq Names(g, k)

\* The names on a chain are of heads, and a class among them is on the chain itself.
LEMMA NamesHead ==
    ASSUME NEW g, NEW rank, NEW owner, Sound(g, rank, owner), NEW k \in Heads(g), NEW x \in On(g, k)
    PROVE  /\ x \in DOMAIN g.super /\ Real(g, x) \in Heads(g)
           /\ Real(g, x) \in Module \/ Real(g, x) \in On(g, k)
           /\ x \notin Iclasses(g) \ g.origin => Real(g, x) \in On(g, k)
<1>1. x \in DOMAIN g.super /\ owner[x] \in On(g, k) /\ owner[x] \in Heads(g)
    BY OnOwner DEF Sound, Threaded
<1>2. CASE x \in g.origin
  <2>1. Real(g, x) = owner[x]
      BY <1>2 DEF Sound, Shaped, Standing, Real
  <2>. QED BY <1>1, <2>1
<1>3. CASE x \in Iclasses(g) \ g.origin
  <2>1. Real(g, x) \in Module
      BY <1>3 DEF Sound, Standing, Real
  <2>. QED BY <1>1, <1>3, <2>1, ModuleTable
<1>4. CASE x \notin Iclasses(g)
    BY <1>1, <1>4 DEF Real, Heads
<1>. QED BY <1>2, <1>3, <1>4

\* All that an ancestor has among its ancestors is among the ancestors.
LEMMA NamesIn ==
    ASSUME NEW g, NEW rank, NEW owner, Sound(g, rank, owner), Closed(g), NEW k \in Heads(g), NEW p \in Names(g, k)
    PROVE  p \in Heads(g) /\ Names(g, p) \subseteq Names(g, k)
<1>1. PICK x \in On(g, k) : p = Real(g, x)
    BY DEF Names
<1>2. p \in Heads(g) /\ (p \in Module \/ p \in On(g, k))
    BY <1>1, NamesHead
<1>3. CASE p \in Module
    BY <1>2, <1>3 DEF Closed
<1>4. CASE p \in On(g, k)
  <2>1. On(g, p) \subseteq On(g, k)
      BY <1>4, OnSuffix, ThreadRanked DEF Sound, Heads
  <2>. QED BY <1>2, <2>1 DEF Names
<1>. QED BY <1>2, <1>3, <1>4

\* What m brings goes to c, and to those that have c among their ancestors; it reaches all of them.
Spread(g, owner, c, m, f, w) ==
    /\ Grown(g, owner, f, w)
    /\ \A x \in DOMAIN f.super \ DOMAIN g.super : Real(f, x) \in Names(g, m) /\ c \in Names(g, w[x])
    /\ \A k \in Heads(g) : c \in Names(g, k) => Names(g, m) \subseteq Names(f, k)

\* A new name on a chain is one that m brings.
LEMMA SpreadNames ==
    ASSUME NEW g, NEW rank, NEW owner, Sound(g, rank, owner), NEW m, NEW c,
           NEW f, NEW r, NEW w, Sound(f, r, w), Spread(g, owner, c, m, f, w), NEW p \in Heads(g), NEW q \in Names(f, p)
    PROVE  q \in Names(g, p) \/ (q \in Names(g, m) /\ c \in Names(g, p))
<1>1. /\ Heads(f) = Heads(g) /\ \A x \in DOMAIN g.super : Real(f, x) = Real(g, x)
      /\ \A k \in Heads(g) : On(g, k) = On(f, k) \cap DOMAIN g.super
      /\ \A x \in DOMAIN f.super \ DOMAIN g.super : Real(f, x) \in Names(g, m) /\ c \in Names(g, w[x])
    BY DEF Spread, Grown
<1>2. PICK x \in On(f, p) : q = Real(f, x)
    BY DEF Names
<1>3. x \in DOMAIN f.super /\ w[x] \in On(f, p) /\ w[x] \in Heads(g) /\ w[x] \in DOMAIN g.super
  <2>1. p \in Heads(f)
      BY <1>1
  <2>2. x \in DOMAIN f.super /\ w[x] \in On(f, p)
      BY <1>2, <2>1, OnOwner DEF Sound
  <2>3. w[x] \in Heads(g)
      BY <1>1, <2>2 DEF Sound, Threaded
  <2>. QED BY <2>2, <2>3 DEF Heads
<1>4. CASE x \in DOMAIN g.super
    BY <1>1, <1>2, <1>4 DEF Names
<1>5. CASE x \notin DOMAIN g.super
  <2>1. w[x] \in On(g, p) /\ c \in Names(g, w[x]) /\ q \in Names(g, m)
      BY <1>1, <1>2, <1>3, <1>5
  <2>2. On(g, w[x]) \subseteq On(g, p)
      BY <2>1, OnSuffix, ThreadRanked DEF Sound, Heads
  <2>. QED BY <2>1, <2>2 DEF Names
<1>. QED BY <1>4, <1>5

LEMMA SpreadClosed ==
    ASSUME NEW g, NEW rank, NEW owner, Sound(g, rank, owner), Closed(g), NEW m \in Module, NEW c,
           c \notin Names(g, m), NEW f, NEW r, NEW w, Sound(f, r, w), Spread(g, owner, c, m, f, w)
    PROVE  Closed(f)
<1>1. Heads(f) = Heads(g) /\ m \in Heads(g) /\ Module \subseteq Heads(g)
    BY ModuleTable DEF Spread, Grown
<1>2. \A k \in Heads(g) : c \in Names(g, k) => Names(g, m) \subseteq Names(f, k)
    BY DEF Spread
<1>3. \A k \in Heads(g) : Names(g, k) \subseteq Names(f, k)
    BY GrownNames DEF Spread
<1>4. \A p \in Heads(g) : \A q \in Names(f, p) : q \in Names(g, p) \/ (q \in Names(g, m) /\ c \in Names(g, p))
    BY SpreadNames
<1>5. SUFFICES ASSUME NEW k \in Heads(g), NEW n \in Names(f, k) \cap Module, NEW q \in Names(f, n)
               PROVE  q \in Names(f, k)
    BY <1>1 DEF Closed
<1>6. q \in Names(g, n) \/ (q \in Names(g, m) /\ c \in Names(g, n))
    BY <1>1, <1>4
<1>7. CASE n \in Names(g, k)
  <2>1. Names(g, n) \subseteq Names(g, k)
      BY <1>7 DEF Closed
  <2>. QED BY <1>2, <1>3, <1>6, <2>1
<1>8. CASE n \in Names(g, m) /\ c \in Names(g, k)
  <2>1. Names(g, n) \subseteq Names(g, m)
      BY <1>1, <1>8 DEF Closed
  <2>. QED BY <1>2, <1>6, <1>8, <2>1
<1>. QED BY <1>4, <1>7, <1>8

\* The same ancestors: the chains may differ in what they are made of.
LEMMA SameClosed ==
    ASSUME NEW g, NEW f, Heads(f) = Heads(g), \A k \in Heads(g) : Names(f, k) = Names(g, k), Closed(g),
           Module \subseteq Heads(g)
    PROVE  Closed(f)
    BY DEF Closed

\* What include_module_at() leaves behind for a head c
Came(g, owner, c, m, out, r, w) ==
    /\ Sound(out.g, r, w) /\ Grown(g, owner, out.g, w) /\ g.inherited \subseteq out.g.inherited
    /\ \A x \in DOMAIN out.g.super \ DOMAIN g.super : Real(out.g, x) \in Names(g, m) /\ w[x] = c
    /\ Flagged(g) => Flagged(out.g)
    /\ ~out.cyclic => Names(g, m) \subseteq Names(out.g, c) /\ c \notin Names(g, m)
    /\ out.cyclic \/ m \notin g.eq => out.g.eq = g.eq
    /\ ~out.cyclic /\ m \in g.eq =>
           /\ g.eq \subseteq out.g.eq /\ c \in out.g.eq
           /\ \A k \in out.g.eq : k \in g.eq \/ k = c
                                  \/ (k \in Heads(g) /\ \E x \in On(out.g, k) : Real(out.g, x) \in g.eq \cup {c})
           /\ c \in g.eq => out.g.eq = g.eq
           /\ c \notin g.eq /\ c \in out.g.inherited \cup Module =>
                  \A k \in Heads(g) : \A x \in On(out.g, k) : x # k /\ Real(out.g, x) \in g.eq \cup {c} => k \in out.g.eq

LEMMA CameAt ==
    ASSUME NEW g, NEW rank, NEW owner, Sound(g, rank, owner), NEW c \in Heads(g), NEW pos \in DOMAIN g.super,
           owner[pos] = c, NEW m \in Module,
           NEW search_super \in BOOLEAN, NEW out, out = include_module_at(g, c, pos, m, search_super)
    PROVE  \E r, w : Came(g, owner, c, m, out, r, w)
<1>0. owner[c] = c /\ c \in DOMAIN g.super /\ c \in Named
    BY DEF Sound, Shaped, Threaded, Heads
<1>1. Starting(g, rank, owner, c, pos, m)
    BY <1>0 DEF Starting
<1>2. PICK done, r, w :
               /\ Including(g, owner, owner[c], On(g, m), done, r, w)
               /\ ~done.cyclic => \A z \in On(g, m) : Seen(g, z, done.g, owner[c], g.mt[Origin(g, c)])
               /\ out.cyclic = done.cyclic
               /\ out.g = IF ~done.cyclic /\ m \in g.eq THEN eq_defined_mark(done.g, c) ELSE done.g
    BY <1>1, IncludeAt
<1>3. PICK f : f = done.g
    OBVIOUS
<1>4. PICK e : e = out.g
    OBVIOUS
<1>5. e = IF ~done.cyclic /\ m \in g.eq THEN eq_defined_mark(f, c) ELSE f
    BY <1>2, <1>3, <1>4
<1>6. /\ Sound(f, r, w) /\ Grown(g, owner, f, w) /\ f.eq = g.eq /\ g.inherited \subseteq f.inherited
      /\ \A x \in DOMAIN f.super \ DOMAIN g.super : w[x] = c /\ Real(f, x) \in {Real(g, z) : z \in On(g, m)}
    BY <1>0, <1>2, <1>3 DEF Including
<1>7. /\ e.super = f.super /\ e.mt = f.mt /\ e.of = f.of /\ e.origin = f.origin
      /\ e.prepended = f.prepended /\ e.inherited = f.inherited
      /\ Sound(e, r, w) /\ Iclasses(e) = Iclasses(f) /\ Heads(e) = Heads(f)
      /\ \A x : Real(e, x) = Real(f, x)
      /\ \A x \in DOMAIN f.super : On(e, x) = On(f, x)
  <2>1. CASE ~done.cyclic /\ m \in g.eq
    <3>1. e = eq_defined_mark(f, c)
        BY <1>5, <2>1
    <3>. QED BY <1>6, <3>1, MarkSound
  <2>2. CASE ~(~done.cyclic /\ m \in g.eq)
      BY <1>5, <1>6, <2>2
  <2>. QED BY <2>1, <2>2
<1>8. Grown(g, owner, e, w)
    BY <1>6, <1>7 DEF Grown, Heads
<1>9. \A x \in DOMAIN e.super \ DOMAIN g.super : Real(e, x) \in Names(g, m) /\ w[x] = c
    BY <1>6, <1>7 DEF Names
<1>10. Flagged(g) => Flagged(e)
  <2>1. On(g, m) \in SUBSET DOMAIN g.super
      BY ModuleChain
  <2>2. Flagged(g) => Flagged(f)
      BY <1>2, <1>3, <2>1, IncludingFlagged
  <2>. QED BY <1>7, <2>2 DEF Flagged
<1>11. ASSUME ~out.cyclic PROVE Names(g, m) \subseteq Names(e, c) /\ c \notin Names(g, m)
  <2>1. \A z \in On(g, m) : Seen(g, z, f, c, g.mt[Origin(g, c)])
      BY <1>0, <1>2, <1>3, <1>11
  <2>2. AllPlaced(g, m, f, c)
      BY <2>1 DEF AllPlaced, Seen
  <2>3. Names(g, m) \subseteq Names(f, c)
      BY <2>2, NamesPlaced
  <2>4. c \in DOMAIN f.super
      BY <1>0, <1>6 DEF Grown
  <2>5. c \notin Names(g, m)
    <3>1. SUFFICES ASSUME NEW z \in On(g, m), Real(g, z) = c PROVE FALSE
        BY DEF Names
    <3>2. c \in Module
        BY <3>1, ModuleChain
    <3>3. g.mt[Origin(g, c)] = c /\ c # NULL
        BY <3>2, <1>0, ModuleTable, ClassAssumption
    <3>4. z \in g.prepended
        BY <2>1, <3>1, <3>3 DEF Seen
    <3>5. z \in DOMAIN g.super /\ z \notin Iclasses(g) /\ z \in Heads(g)
        BY <3>4 DEF Sound, Shaped, Heads
    <3>6. z = c /\ owner[z] = z /\ owner[z] = m
        BY <3>1, <3>5, ModuleChain DEF Real, Sound, Threaded
    <3>7. PICK o : o = Origin(g, m) /\ o \in g.origin /\ owner[o] = m
        BY <3>4, <3>6, OriginOwn
    <3>8. o \in Iclasses(g) /\ o \in DOMAIN g.super /\ o \notin g.prepended /\ g.of[o] = m
        BY <3>7 DEF Sound, Shaped, Standing, Heads
    <3>9. o \in On(g, m) /\ Real(g, o) = c
        BY <3>6, <3>7, <3>8, ModuleChain DEF Real
    <3>. QED BY <2>1, <3>3, <3>8, <3>9 DEF Seen
  <2>. QED BY <1>7, <2>3, <2>4, <2>5 DEF Names
<1>12. out.cyclic \/ m \notin g.eq => e.eq = g.eq
    BY <1>2, <1>5, <1>6
<1>13. ASSUME ~out.cyclic, m \in g.eq
       PROVE  /\ g.eq \subseteq e.eq /\ c \in e.eq
              /\ \A k \in e.eq : k \in g.eq \/ k = c
                                 \/ (k \in Heads(g) /\ \E x \in On(e, k) : Real(e, x) \in g.eq \cup {c})
              /\ c \in g.eq => e.eq = g.eq
              /\ c \notin g.eq /\ c \in e.inherited \cup Module =>
                  \A k \in Heads(g) : \A x \in On(e, k) : x # k /\ Real(e, x) \in g.eq \cup {c} => k \in e.eq
  <2>1. e = eq_defined_mark(f, c)
      BY <1>2, <1>5, <1>13
  <2>2. /\ f.eq \subseteq e.eq /\ c \in e.eq
        /\ \A k \in e.eq : k \in f.eq \/ k = c
                              \/ (k \in Heads(f) /\ \E x \in On(f, k) : Real(f, x) \in f.eq \cup {c})
        /\ c \notin f.eq /\ c \in f.inherited \cup Module =>
                  \A k \in Heads(f) : \A x \in On(f, k) : x # k /\ Real(f, x) \in f.eq \cup {c} => k \in e.eq
      BY <1>6, <2>1, MarkEq
  <2>3. c \in g.eq => e.eq = g.eq
      BY <1>6, <2>1 DEF eq_defined_mark
  <2>4. Heads(f) = Heads(g) /\ \A k \in Heads(g) : k \in DOMAIN f.super
      BY <1>6 DEF Grown, Heads
  <2>5. \A k \in Heads(g) : On(e, k) = On(f, k)
      BY <1>7, <2>4
  <2>. QED BY <1>6, <1>7, <2>2, <2>3, <2>4, <2>5
<1>14. Came(g, owner, c, m, out, r, w)
    BY <1>4, <1>6, <1>7, <1>8, <1>9, <1>10, <1>11, <1>12, <1>13 DEF Came
<1>. QED BY <1>14

\* The mark of c reaches all that have c among their ancestors.
LEMMA MarkClosed ==
    ASSUME NEW g, NEW rank, NEW owner, Sound(g, rank, owner), Closed(g), EqClosed(g),
           NEW c \in Heads(g), c \in g.inherited \cup Module, NEW f, f = eq_defined_mark(g, c)
    PROVE  EqClosed(f) /\ g.eq \subseteq f.eq /\ c \in f.eq
<1>1. /\ g.eq \subseteq f.eq /\ c \in f.eq
      /\ \A k \in f.eq : k \in g.eq \/ k = c
                            \/ (k \in Heads(g) /\ \E x \in On(g, k) : Real(g, x) \in g.eq \cup {c})
      /\ c \notin g.eq =>
             \A k \in Heads(g) : \A x \in On(g, k) : x # k /\ Real(g, x) \in g.eq \cup {c} => k \in f.eq
    BY MarkEq
<1>2. Heads(f) = Heads(g) /\ (\A x : Real(f, x) = Real(g, x)) /\ \A x \in DOMAIN g.super : On(f, x) = On(g, x)
    BY MarkSound
<1>3. CASE c \in g.eq
    BY <1>1, <1>3 DEF eq_defined_mark
<1>4. CASE c \notin g.eq
  <2>1. ASSUME NEW k \in Heads(g), NEW x \in On(g, k), Real(g, x) \in g.eq \cup {c} PROVE k \in f.eq
      BY <1>1, <1>4, <2>1 DEF Real, Heads
  <2>2. ASSUME NEW k \in Heads(g), NEW x \in On(g, k), Real(g, x) \in f.eq PROVE k \in f.eq
    <3>1. PICK p : p = Real(g, x)
        OBVIOUS
    <3>2. CASE p \in g.eq \cup {c}
        BY <2>1, <3>1, <3>2
    <3>3. CASE p \notin g.eq \cup {c}
      <4>1. PICK z \in On(g, p) : p \in Heads(g) /\ Real(g, z) \in g.eq \cup {c}
          BY <1>1, <2>2, <3>1, <3>3
      <4>2. Real(g, z) = c
          BY <3>3, <4>1 DEF EqClosed
      <4>3. c \in Names(g, p) /\ p \in Names(g, k)
          BY <3>1, <4>2 DEF Names
      <4>4. c \in Names(g, k)
          BY <4>3, NamesIn
      <4>5. PICK y \in On(g, k) : Real(g, y) = c
          BY <4>4 DEF Names
      <4>. QED BY <2>1, <4>5
    <3>. QED BY <3>2, <3>3
  <2>3. \A k \in Heads(f) : On(f, k) = On(g, k)
      BY <1>2 DEF Heads
  <2>. QED BY <1>1, <1>2, <2>2, <2>3 DEF EqClosed
<1>. QED BY <1>3, <1>4

\* Marks stay closed when m comes to c.
LEMMA CameEq ==
    ASSUME NEW g, NEW rank, NEW owner, Sound(g, rank, owner), Closed(g), EqClosed(g),
           NEW c \in Heads(g), c \in g.inherited \cup Module, NEW m \in Module,
           NEW out, ~out.cyclic, NEW r, NEW w, Came(g, owner, c, m, out, r, w)
    PROVE  EqClosed(out.g) /\ g.eq \subseteq out.g.eq /\ (m \in out.g.eq => c \in out.g.eq)
<1>1. PICK e : e = out.g
    OBVIOUS
<1>2. /\ Sound(e, r, w) /\ Grown(g, owner, e, w) /\ g.inherited \subseteq e.inherited
      /\ \A x \in DOMAIN e.super \ DOMAIN g.super : Real(e, x) \in Names(g, m) /\ w[x] = c
      /\ Names(g, m) \subseteq Names(e, c) /\ c \notin Names(g, m)
      /\ m \notin g.eq => e.eq = g.eq
      /\ m \in g.eq =>
           /\ g.eq \subseteq e.eq /\ c \in e.eq
           /\ \A k \in e.eq : k \in g.eq \/ k = c
                                  \/ (k \in Heads(g) /\ \E x \in On(e, k) : Real(e, x) \in g.eq \cup {c})
           /\ c \in g.eq => e.eq = g.eq
           /\ c \notin g.eq =>
                  \A k \in Heads(g) : \A x \in On(e, k) : x # k /\ Real(e, x) \in g.eq \cup {c} => k \in e.eq
    BY <1>1 DEF Came
<1>3. /\ Heads(e) = Heads(g) /\ \A x \in DOMAIN g.super : Real(e, x) = Real(g, x)
      /\ \A k \in Heads(g) : On(g, k) = On(e, k) \cap DOMAIN g.super
    BY <1>2 DEF Grown
<1>4. m \in Heads(g) /\ Heads(g) \subseteq DOMAIN g.super
    BY ModuleTable DEF Heads
<1>5. ASSUME NEW k \in Heads(g), NEW x \in On(e, k), x \notin DOMAIN g.super
      PROVE  Real(e, x) \in Names(g, m) /\ c \in On(g, k) /\ c \in Names(g, k)
  <2>1. x \in DOMAIN e.super /\ w[x] \in On(e, k)
      BY <1>2, <1>3, OnOwner DEF Sound
  <2>2. Real(e, x) \in Names(g, m) /\ c \in On(e, k)
      BY <1>2, <1>5, <2>1
  <2>3. c \in On(g, k)
      BY <1>3, <1>4, <2>2
  <2>4. Real(g, c) = c
      BY DEF Heads, Real
  <2>. QED BY <2>2, <2>3, <2>4 DEF Names
<1>6. \A k \in Heads(g) : \A x \in On(g, k) : Real(g, x) \in g.eq => k \in g.eq
    BY DEF EqClosed
<1>7. CASE m \notin g.eq
  <2>1. ASSUME NEW k \in Heads(g), NEW x \in On(e, k), Real(e, x) \in g.eq PROVE k \in g.eq
    <3>1. CASE x \in DOMAIN g.super
        BY <1>3, <1>6, <2>1, <3>1
    <3>2. CASE x \notin DOMAIN g.super
        BY <1>4, <1>5, <1>6, <1>7, <2>1, <3>2 DEF Names
    <3>. QED BY <3>1, <3>2
  <2>2. EqClosed(e)
      BY <1>2, <1>3, <1>7, <2>1 DEF EqClosed
  <2>. QED BY <1>1, <1>2, <1>7, <2>2
<1>8. CASE m \in g.eq /\ c \in g.eq
  <2>1. ASSUME NEW k \in Heads(g), NEW x \in On(e, k), Real(e, x) \in g.eq PROVE k \in g.eq
    <3>1. CASE x \in DOMAIN g.super
        BY <1>3, <1>6, <2>1, <3>1
    <3>2. CASE x \notin DOMAIN g.super
        BY <1>5, <1>6, <1>8, <2>1, <3>2 DEF Names
    <3>. QED BY <3>1, <3>2
  <2>2. EqClosed(e)
      BY <1>2, <1>3, <1>8, <2>1 DEF EqClosed
  <2>. QED BY <1>1, <1>2, <1>8, <2>2
<1>9. CASE m \in g.eq /\ c \notin g.eq
  <2>1. ASSUME NEW k \in Heads(g), NEW x \in On(e, k), Real(e, x) \in g.eq \cup {c} PROVE k \in e.eq
    <3>1. Real(e, k) = k
        BY <1>3 DEF Heads, Real
    <3>. QED BY <1>2, <1>9, <2>1, <3>1
  <2>2. ASSUME NEW k \in Heads(g), c \in Names(g, k) PROVE k \in e.eq
    <3>1. PICK y \in On(g, k) : Real(g, y) = c
        BY <2>2 DEF Names
    <3>2. y \in On(e, k) /\ Real(e, y) = c
        BY <1>3, <3>1
    <3>. QED BY <2>1, <3>2
  <2>3. ASSUME NEW k \in Heads(g), NEW x \in On(e, k), Real(e, x) \in e.eq PROVE k \in e.eq
    <3>1. PICK p : p = Real(e, x)
        OBVIOUS
    <3>2. CASE p \in g.eq \cup {c}
        BY <2>1, <3>1, <3>2
    <3>3. CASE p \notin g.eq \cup {c}
      <4>1. PICK z \in On(e, p) : p \in Heads(g) /\ Real(e, z) \in g.eq \cup {c}
          BY <1>2, <1>9, <2>3, <3>1, <3>3
      <4>2. c \in Names(g, p)
        <5>1. CASE z \in DOMAIN g.super
          <6>1. z \in On(g, p) /\ Real(g, z) = Real(e, z)
              BY <1>3, <4>1, <5>1
          <6>. QED BY <1>6, <3>3, <4>1, <6>1 DEF Names
        <5>2. CASE z \notin DOMAIN g.super
            BY <1>5, <4>1, <5>2
        <5>. QED BY <5>1, <5>2
      <4>3. CASE x \in DOMAIN g.super
        <5>1. p \in Names(g, k)
            BY <1>3, <3>1, <4>3 DEF Names
        <5>2. c \in Names(g, k)
            BY <4>2, <5>1, NamesIn
        <5>. QED BY <2>2, <5>2
      <4>4. CASE x \notin DOMAIN g.super
        <5>1. p \in Names(g, m)
            BY <1>5, <3>1, <4>4
        <5>2. c \in Names(g, m)
            BY <1>4, <4>2, <5>1, NamesIn
        <5>. QED BY <1>2, <5>2
      <4>. QED BY <4>3, <4>4
    <3>. QED BY <3>2, <3>3
  <2>4. EqClosed(e)
      BY <1>3, <2>3 DEF EqClosed
  <2>. QED BY <1>1, <1>2, <1>9, <2>4
<1>. QED BY <1>7, <1>8, <1>9

-----------------------------------------------------------------------------
(* mrb_include_module() and mrb_prepend_module().                          *)

\* Whether the programs are well behaved or not, a heap that has its ICLASSes in order keeps them so.
Kept(g, f) ==
    /\ \E r, w : Sound(f, r, w)
    /\ Heads(f) = Heads(g) /\ g.inherited \subseteq f.inherited
    /\ Flagged(g) => Flagged(f)
    /\ \A d \in Named : (\A x \in DOMAIN f.super : f.mt[x] # d) => (\A x \in DOMAIN g.super : g.mt[x] # d)

\* The marks, too
Well(g) == Closed(g) /\ EqClosed(g) /\ \A c \in Heads(g) : c \in g.inherited \cup Module

LEMMA GrownKept ==
    ASSUME NEW g, NEW owner, NEW f, NEW r, NEW w, Sound(f, r, w), Grown(g, owner, f, w),
           g.inherited \subseteq f.inherited, Flagged(g) => Flagged(f)
    PROVE  Kept(g, f)
<1>1. /\ Heads(f) = Heads(g) /\ DOMAIN g.super \subseteq DOMAIN f.super
      /\ \A x \in DOMAIN g.super : f.mt[x] = g.mt[x]
    BY DEF Grown
<1>2. \A d \in Named : (\A x \in DOMAIN f.super : f.mt[x] # d) => (\A x \in DOMAIN g.super : g.mt[x] # d)
    BY <1>1
<1>. QED BY <1>1, <1>2 DEF Kept

\* X are the ICLASSes of c that are not its origin.
IclassesOf(g, c, X) == X = {x \in Iclasses(g) \ g.origin : g.of[x] = c}

\* m comes to c, and to every ICLASS of c.
LEMMA CameFixed ==
    ASSUME NEW g, NEW rank, NEW owner, Sound(g, rank, owner), NEW c \in Heads(g), NEW m \in Module,
           NEW out, ~out.cyclic, NEW v, NEW u, Came(g, owner, c, m, out, v, u),
           NEW X, IclassesOf(out.g, c, X),
           NEW f, NEW r, NEW w, Brought(out.g, u, X, m, f, r, w)
    PROVE  /\ Kept(g, f)
           /\ Well(g) => Well(f) /\ g.eq \cap Named \subseteq f.eq
<1>1. PICK e : e = out.g
    OBVIOUS
<1>2. /\ Sound(e, v, u) /\ Grown(g, owner, e, u) /\ g.inherited \subseteq e.inherited
      /\ \A x \in DOMAIN e.super \ DOMAIN g.super : Real(e, x) \in Names(g, m) /\ u[x] = c
      /\ Flagged(g) => Flagged(e)
      /\ Names(g, m) \subseteq Names(e, c) /\ c \notin Names(g, m)
    BY <1>1 DEF Came
<1>3. Brought(e, u, X, m, f, r, w)
    BY <1>1
<1>4. /\ Sound(f, r, w) /\ Grown(e, u, f, w) /\ e.inherited \subseteq f.inherited
      /\ \A x \in DOMAIN f.super \ DOMAIN e.super :
           Real(f, x) \in Names(e, m) /\ \E y \in X : w[x] = u[y]
      /\ Flagged(e) => Flagged(f)
      /\ EqReady(e, X, m) => EqClosed(f) /\ f.eq \cap Named = e.eq \cap Named
      /\ \A y \in X : y \in Iclasses(e) /\ e.mt[y] \notin Names(e, m) => Names(e, m) \subseteq Names(f, u[y])
    BY <1>3 DEF Brought
<1>5. Grown(g, owner, f, w)
    BY <1>2, <1>4, GrownOn
<1>6. Kept(g, f)
    BY <1>2, <1>4, <1>5, GrownKept
<1>7. Names(e, m) = Names(g, m)
  <2>1. \A x \in DOMAIN e.super \ DOMAIN g.super : Real(e, x) \in Names(g, m)
      BY <1>2
  <2>2. m \in Heads(g) /\ On(e, m) \subseteq DOMAIN e.super
      BY <1>2, ModuleTable, ModuleChain
  <2>3. On(g, m) = On(e, m) \cap DOMAIN g.super /\ \A x \in DOMAIN g.super : Real(e, x) = Real(g, x)
      BY <1>2, <2>2 DEF Grown
  <2>. QED BY <2>1, <2>2, <2>3 DEF Names
<1>8. X = {x \in Iclasses(e) \ e.origin : e.of[x] = c}
    BY <1>1 DEF IclassesOf
<1>9. ASSUME NEW y \in X
      PROVE  y \in DOMAIN g.super /\ y \in Iclasses(e) /\ Real(e, y) = c /\ Real(g, y) = c /\ u[y] = owner[y] /\ e.mt[y] = c
  <2>1. y \in Iclasses(e) /\ y \in DOMAIN e.super /\ Real(e, y) = c /\ c \in Module /\ y \notin e.prepended
      BY <1>2, <1>8 DEF Sound, Shaped, Standing, Heads, Real
  <2>2. y \in DOMAIN g.super
      BY <1>2, <2>1
  <2>3. Real(g, y) = c /\ u[y] = owner[y]
      BY <1>2, <2>1, <2>2 DEF Grown
  <2>4. c \notin Singleton
      BY <2>1, ModuleTable
  <2>. QED BY <1>2, <2>1, <2>2, <2>3, <2>4 DEF Sound, Standing
<1>10. \A x \in DOMAIN g.super : owner[x] \in Heads(g) /\ x \in On(g, owner[x])
    BY OwnThread DEF Sound, Threaded
<1>11. c \in On(g, c) /\ Real(g, c) = c /\ c \in Names(g, c)
  <2>1. c \in On(g, c)
      BY OnFacts, ThreadRanked DEF Sound, Heads
  <2>2. Real(g, c) = c
      BY DEF Heads, Real
  <2>. QED BY <2>1, <2>2 DEF Names
<1>12. ASSUME NEW x \in DOMAIN f.super \ DOMAIN g.super PROVE Real(f, x) \in Names(g, m) /\ c \in Names(g, w[x])
  <2>1. CASE x \in DOMAIN e.super
    <3>1. Real(f, x) = Real(e, x) /\ w[x] = u[x]
        BY <1>4, <2>1 DEF Grown
    <3>. QED BY <1>2, <1>11, <2>1, <3>1
  <2>2. CASE x \notin DOMAIN e.super
    <3>1. PICK y \in X : w[x] = u[y]
        BY <1>4, <2>2
    <3>2. c \in Names(g, owner[y])
        BY <1>9, <1>10 DEF Names
    <3>. QED BY <1>4, <1>7, <1>9, <2>2, <3>1, <3>2
  <2>. QED BY <2>1, <2>2
<1>13. ASSUME NEW k \in Heads(g), c \in Names(g, k) PROVE Names(g, m) \subseteq Names(f, k)
  <2>1. PICK y \in On(g, k) : Real(g, y) = c
      BY <1>13 DEF Names
  <2>2. y \in DOMAIN g.super /\ owner[y] \in On(g, k) /\ owner[y] \in Heads(g)
      BY <2>1, OnOwner DEF Sound, Threaded
  <2>3. PICK d : d \in On(g, k) /\ d \in Heads(g) /\ Names(g, m) \subseteq Names(f, d)
    <3>1. CASE y \in Iclasses(g) \ g.origin
      <4>1. y \in Iclasses(e) /\ y \notin e.origin /\ Real(e, y) = c
          BY <1>2, <2>1, <2>2, <3>1 DEF Grown, Heads
      <4>2. y \in X
          BY <1>8, <4>1 DEF Real
      <4>3. Names(g, m) \subseteq Names(f, owner[y])
          BY <1>2, <1>4, <1>7, <1>9, <4>2
      <4>. QED BY <2>2, <4>3
    <3>2. CASE y \notin Iclasses(g) \ g.origin
      <4>1. c \in On(g, k)
          BY <2>1, <3>2, NamesHead
      <4>2. c \in Heads(e)
          BY <1>2 DEF Grown
      <4>3. Names(e, c) \subseteq Names(f, c)
          BY <1>4, <4>2, GrownNames
      <4>. QED BY <1>2, <4>1, <4>3
    <3>. QED BY <3>1, <3>2
  <2>4. k \in Heads(f) /\ d \in On(f, k)
      BY <1>5, <2>3 DEF Grown
  <2>5. On(f, d) \subseteq On(f, k)
      BY <1>4, <2>4, OnSuffix, ThreadRanked DEF Sound, Heads
  <2>. QED BY <2>3, <2>5 DEF Names
<1>14. Spread(g, owner, c, m, f, w)
    BY <1>5, <1>12, <1>13 DEF Spread
<1>15. ASSUME Well(g) PROVE Well(f) /\ g.eq \cap Named \subseteq f.eq
  <2>1. Closed(f)
      BY <1>2, <1>4, <1>14, <1>15, SpreadClosed DEF Well
  <2>2. EqClosed(e) /\ g.eq \subseteq e.eq /\ (m \in e.eq => c \in e.eq)
      BY <1>1, <1>15, CameEq DEF Well
  <2>3. EqReady(e, X, m)
      BY <1>9, <2>2 DEF EqReady, EqClosed
  <2>4. EqClosed(f) /\ f.eq \cap Named = e.eq \cap Named
      BY <1>4, <2>3
  <2>5. \A k \in Heads(f) : k \in f.inherited \cup Module
      BY <1>6, <1>15 DEF Kept, Well
  <2>. QED BY <2>1, <2>2, <2>4, <2>5 DEF Well
<1>. QED BY <1>6, <1>15

LEMMA KeptOn ==
    ASSUME NEW g, NEW e, NEW f, Kept(g, e), Kept(e, f)
    PROVE  Kept(g, f)
    BY DEF Kept

\* Making an origin changes nothing that a lookup or a mark depends on.
LEMMA HiddenWell ==
    ASSUME NEW g, NEW rank, NEW owner, Sound(g, rank, owner), NEW c \in Heads(g),
           NEW f, NEW r, NEW w, Sound(f, r, w), Hidden(g, owner, c, f, w)
    PROVE  /\ Kept(g, f) /\ f.eq = g.eq
           /\ Well(g) => Well(f)
<1>1. /\ Heads(f) = Heads(g) /\ f.eq = g.eq /\ g.inherited \subseteq f.inherited
      /\ \A x \in DOMAIN g.super : w[x] = owner[x] /\ Real(f, x) = Real(g, x)
      /\ \A x \in DOMAIN f.super \ DOMAIN g.super : Real(f, x) = c /\ w[x] = c
      /\ \A k \in Heads(g) : On(g, k) = On(f, k) \cap DOMAIN g.super
    BY DEF Hidden
<1>2. Kept(g, f)
    BY DEF Kept, Hidden
<1>3. ASSUME NEW k \in Heads(g) PROVE Names(f, k) = Names(g, k)
  <2>1. Names(g, k) \subseteq Names(f, k)
      BY <1>1 DEF Names
  <2>2. ASSUME NEW x \in On(f, k) PROVE Real(f, x) \in Names(g, k)
    <3>1. k \in Heads(f)
        BY <1>1
    <3>2. x \in DOMAIN f.super /\ w[x] \in On(f, k)
        BY <3>1, OnOwner DEF Sound
    <3>3. CASE x \in DOMAIN g.super
        BY <1>1, <3>3 DEF Names
    <3>4. CASE x \notin DOMAIN g.super
      <4>1. c \in On(g, k) /\ Real(g, c) = c
          BY <1>1, <3>2, <3>4 DEF Heads, Real
      <4>. QED BY <1>1, <3>2, <3>4, <4>1 DEF Names
    <3>. QED BY <3>3, <3>4
  <2>. QED BY <2>1, <2>2 DEF Names
<1>4. ASSUME Well(g) PROVE Well(f)
  <2>1. Module \subseteq Heads(g)
      BY ModuleTable
  <2>2. Closed(f)
      BY <1>1, <1>3, <1>4, <2>1, SameClosed DEF Well
  <2>3. ASSUME NEW k \in Heads(f), NEW x \in On(f, k), Real(f, x) \in f.eq PROVE k \in f.eq
    <3>1. Real(f, x) \in Names(g, k)
        BY <1>1, <1>3 DEF Names
    <3>2. PICK y \in On(g, k) : Real(g, y) = Real(f, x)
        BY <3>1 DEF Names
    <3>. QED BY <1>1, <1>4, <2>3, <3>2 DEF Well, EqClosed
  <2>. QED BY <1>1, <1>4, <2>2, <2>3 DEF Well, EqClosed
<1>. QED BY <1>1, <1>2, <1>4

\* The ICLASSes of c that are not its origin, before and after m comes
LEMMA CameIclasses ==
    ASSUME NEW g, NEW rank, NEW owner, Sound(g, rank, owner), NEW c \in Heads(g), NEW m \in Module,
           NEW out, ~out.cyclic, NEW v, NEW u, Came(g, owner, c, m, out, v, u),
           NEW y \in Iclasses(out.g) \ out.g.origin, out.g.of[y] = c
    PROVE  y \in Iclasses(g) \ g.origin /\ g.of[y] = c /\ c \in Module
<1>1. PICK e : e = out.g
    OBVIOUS
<1>2. /\ Sound(e, v, u) /\ Grown(g, owner, e, u)
      /\ \A x \in DOMAIN e.super \ DOMAIN g.super : Real(e, x) \in Names(g, m)
      /\ c \notin Names(g, m)
    BY <1>1 DEF Came
<1>3. y \in Iclasses(e) /\ y \notin e.origin /\ e.of[y] = c
    BY <1>1
<1>4. y \in DOMAIN e.super /\ Real(e, y) = c /\ c \in Module
    BY <1>2, <1>3 DEF Sound, Shaped, Standing, Real
<1>5. y \in DOMAIN g.super
    BY <1>2, <1>4
<1>6. y \in Iclasses(g) /\ y \notin g.origin /\ Real(g, y) = c
    BY <1>2, <1>3, <1>4, <1>5 DEF Grown, Heads
<1>. QED BY <1>4, <1>6 DEF Real

LEMMA CameKept ==
    ASSUME NEW g, NEW owner, NEW c, NEW m, NEW out, NEW v, NEW u, Came(g, owner, c, m, out, v, u)
    PROVE  Kept(g, out.g)
<1>1. PICK e : e = out.g
    OBVIOUS
<1>2. Sound(e, v, u) /\ Grown(g, owner, e, u) /\ g.inherited \subseteq e.inherited /\ (Flagged(g) => Flagged(e))
    BY <1>1 DEF Came
<1>. QED BY <1>1, <1>2, GrownKept

LEMMA LiveHeads == Live = Heads(h)
    BY DEF Live, Heads

\* mrb_include_module() on the heap
LEMMA IncludeHeap ==
    ASSUME NEW rank, NEW owner, Sound(h, rank, owner), NEW c \in Heads(h), NEW m \in Module, mrb_include_module(c, m)
    PROVE  /\ Kept(h, h')
           /\ Programs = {} /\ Flagged(h) /\ Well(h) => Well(h') /\ h.eq \cap Named \subseteq h'.eq
<1>1. PICK out : out = include_module_at(h, c, Origin(h, c), m, TRUE)
    OBVIOUS
<1>2. Origin(h, c) \in DOMAIN h.super /\ owner[Origin(h, c)] = c
    BY OriginTable
<1>3. PICK v, u : Came(h, owner, c, m, out, v, u)
    BY <1>1, <1>2, CameAt
<1>4. PICK e : e = out.g
    OBVIOUS
<1>5. /\ c \in h.prepended /\ Included(c) => "late" \in Programs
      /\ out.cyclic => "cyclic" \in Programs /\ h' = e
      /\ ~out.cyclic => h' = IF c \in Module \cap e.inherited THEN fix_include_module(e, c, m) ELSE e
    BY <1>1, <1>4 DEF mrb_include_module
<1>6. Sound(e, v, u) /\ h.inherited \subseteq e.inherited
    BY <1>3, <1>4 DEF Came
<1>7. CASE out.cyclic
    BY <1>3, <1>4, <1>5, <1>7, CameKept
<1>8. CASE ~out.cyclic
  <2>1. PICK X : X = {x \in Iclasses(e) \ e.origin : e.of[x] = c}
      OBVIOUS
  <2>2. X \in SUBSET DOMAIN e.super
      BY <1>6, <2>1 DEF Sound, Shaped
  <2>3. IclassesOf(out.g, c, X)
      BY <1>4, <2>1 DEF IclassesOf
  <2>4. CASE c \in Module \cap e.inherited
    <3>1. h' = IncludeEach(e, X, m, TRUE)
        BY <1>5, <1>8, <2>1, <2>4 DEF fix_include_module
    <3>2. PICK r, w : Brought(e, u, X, m, h', r, w)
        BY <1>6, <2>2, <3>1, EachBrought
    <3>3. Brought(out.g, u, X, m, h', r, w)
        BY <1>4, <3>2
    <3>. QED BY <1>3, <1>8, <2>3, <3>3, CameFixed
  <2>5. CASE c \notin Module \cap e.inherited
    <3>1. h' = e
        BY <1>5, <1>8, <2>5
    <3>2. Kept(h, h')
        BY <1>3, <1>4, <3>1, CameKept
    <3>3. ASSUME Programs = {}, Flagged(h), Well(h) PROVE Well(h') /\ h.eq \cap Named \subseteq h'.eq
      <4>1. X = {}
        <5>1. SUFFICES ASSUME NEW y \in X PROVE FALSE
            OBVIOUS
        <5>2. y \in Iclasses(h) \ h.origin /\ h.of[y] = c /\ c \in Module
            BY <1>3, <1>8, <2>3, CameIclasses DEF IclassesOf
        <5>3. c \notin h.prepended
            BY <1>5, <3>3, <5>2 DEF Included
        <5>4. c \in h.inherited
            BY <3>3, <5>2, <5>3 DEF Flagged
        <5>. QED BY <1>6, <2>5, <5>2, <5>4
      <4>2. Brought(e, u, X, m, e, v, u)
          BY <1>6, <4>1, BroughtNone
      <4>3. Brought(out.g, u, X, m, e, v, u)
          BY <1>4, <4>2
      <4>4. Well(e) /\ h.eq \cap Named \subseteq e.eq
          BY <1>3, <1>8, <2>3, <3>3, <4>3, CameFixed
      <4>. QED BY <3>1, <4>4
    <3>. QED BY <3>2, <3>3
  <2>. QED BY <2>4, <2>5
<1>. QED BY <1>7, <1>8

\* Where fix_prepend_module() finds an ICLASS of c before the superclass of k
LEMMA OwnBefore ==
    ASSUME NEW g, NEW rank, Ranked(g, rank), NEW k \in DOMAIN g.super, NEW X, NEW up, up = Tail(Chain(g, k)),
           NEW own, own = IF FirstOf(up, X) = 0 THEN up ELSE SubSeq(up, 1, FirstOf(up, X) - 1)
    PROVE  ToSet(own) \subseteq On(g, k)
<1>1. Full(g, k, Chain(g, k))
    BY ChainFull
<1>2. PICK ch \in Seq(DOMAIN g.super) : ch = Chain(g, k) /\ ch # << >>
    BY <1>1 DEF Full, Walks
<1>3. Tail(ch) \in Seq(DOMAIN g.super)
    BY <1>2, HeadTailProperties
<1>4. PICK t \in Seq(DOMAIN g.super) : t = up
    BY <1>2, <1>3
<1>5. ToSet(t) \subseteq On(g, k)
    BY <1>4, OnTail
<1>6. PICK n : n = FirstOf(t, X)
    OBVIOUS
<1>7. n = 0 \/ n \in 1 .. Len(t)
    BY <1>4, <1>6, FirstOfFacts
<1>8. own = IF n = 0 THEN t ELSE SubSeq(t, 1, n - 1)
    BY <1>4, <1>6
<1>9. CASE n = 0
    BY <1>5, <1>8, <1>9
<1>10. CASE n # 0
  <2>1. PICK j : j = n - 1
      OBVIOUS
  <2>2. Len(t) \in Nat /\ DOMAIN t = 1 .. Len(t)
      BY <1>4
  <2>3. j \in 0 .. Len(t) /\ 1 .. j \subseteq DOMAIN t
      BY <1>7, <1>10, <2>1, <2>2
  <2>4. SubSeq(t, 1, j) = Restrict(t, 1 .. j)
      BY <1>4, <2>3, SubSeqRestrict
  <2>5. own = [i \in 1 .. j |-> t[i]]
      BY <1>8, <1>10, <2>1, <2>4 DEF Restrict
  <2>. QED BY <1>5, <2>3, <2>5 DEF ToSet
<1>. QED BY <1>9, <1>10

\* Those that fix_prepend_module() goes to have an ICLASS of c on their chains.
FixedAt(e, c, m, f, K) ==
    /\ K \in SUBSET (Heads(e) \ {c}) /\ f = IncludeEach(e, K, m, FALSE)
    /\ \A k \in K : \E x \in On(e, k) : x \in Iclasses(e) /\ e.of[x] = c

LEMMA FixPrepend ==
    ASSUME NEW rank, NEW owner, NEW e, Sound(e, rank, owner), Heads(e) = Heads(h), NEW c, NEW m,
           NEW f, f = fix_prepend_module(e, c, m)
    PROVE  \E K : FixedAt(e, c, m, f, K)
<1>. DEFINE Own(k) == LET up == Tail(Chain(e, k))
                          class == FirstOf(up, Class \ Singleton)
                      IN  IF class = 0 THEN up ELSE SubSeq(up, 1, class - 1)
            Has(k) == \E x \in ToSet(Own(k)) : x \in Iclasses(e) /\ e.of[x] = c
            K == {k \in Live \ (Singleton \cup {c}) : Has(k)}
<1>1. f = IncludeEach(e, K, m, FALSE)
    BY DEF fix_prepend_module
<1>2. ASSUME NEW k \in Heads(e) PROVE ToSet(Own(k)) \subseteq On(e, k)
    BY OwnBefore, ThreadRanked DEF Sound, Heads
<1>. HIDE DEF Own
<1>3. K \in SUBSET (Heads(e) \ {c}) /\ \A k \in K : \E x \in On(e, k) : x \in Iclasses(e) /\ e.of[x] = c
    BY <1>2, LiveHeads
<1>. HIDE DEF K
<1>4. FixedAt(e, c, m, f, K)
    BY <1>1, <1>3 DEF FixedAt
<1>. QED BY <1>4

\* mrb_prepend_module() on the heap
LEMMA PrependHeap ==
    ASSUME NEW rank, NEW owner, Sound(h, rank, owner), NEW c \in Heads(h), NEW m \in Module, mrb_prepend_module(c, m)
    PROVE  /\ Kept(h, h')
           /\ Programs = {} /\ Well(h) => Well(h') /\ h.eq \cap Named \subseteq h'.eq
<1>1. PICK g : g = MakeOrigin(h, c)
    OBVIOUS
<1>2. PICK r0, w0 : Sound(g, r0, w0) /\ Hidden(h, owner, c, g, w0)
    BY <1>1, HiddenSound
<1>3. /\ Kept(h, g) /\ g.eq = h.eq
      /\ Well(h) => Well(g)
    BY <1>2, HiddenWell
<1>4. c \in Heads(g) /\ c \in DOMAIN g.super /\ w0[c] = c /\ Heads(g) = Heads(h)
    BY <1>2 DEF Hidden, Sound, Threaded, Heads
<1>5. PICK out : out = include_module_at(g, c, c, m, FALSE)
    OBVIOUS
<1>6. PICK v, u : Came(g, w0, c, m, out, v, u)
    BY <1>2, <1>4, <1>5, CameAt
<1>7. PICK e : e = out.g
    OBVIOUS
<1>8. /\ Included(c) => "late" \in Programs
      /\ out.cyclic => "cyclic" \in Programs /\ h' = e
      /\ ~out.cyclic => h' = IF c \in Module THEN fix_prepend_module(e, c, m) ELSE e
    BY <1>1, <1>5, <1>7 DEF mrb_prepend_module
<1>9. Sound(e, v, u) /\ Kept(g, e) /\ Heads(e) = Heads(h)
  <2>1. Sound(e, v, u) /\ Kept(g, e)
      BY <1>6, <1>7, CameKept DEF Came
  <2>. QED BY <1>4, <2>1 DEF Kept
<1>10. Kept(h, e)
    BY <1>3, <1>9, KeptOn
<1>11. CASE out.cyclic
    BY <1>8, <1>10, <1>11
<1>12. CASE ~out.cyclic
  <2>1. PICK X : X = {x \in Iclasses(e) \ e.origin : e.of[x] = c}
      OBVIOUS
  <2>2. IclassesOf(out.g, c, X)
      BY <1>7, <2>1 DEF IclassesOf
  <2>3. Programs = {} => X = {}
    <3>1. SUFFICES ASSUME Programs = {}, NEW y \in X PROVE FALSE
        OBVIOUS
    <3>2. y \in Iclasses(g) \ g.origin /\ g.of[y] = c
        BY <1>2, <1>4, <1>6, <1>12, <2>2, CameIclasses DEF IclassesOf
    <3>3. y \in Iclasses(h) \ h.origin /\ h.of[y] = c
        BY <1>2, <3>2 DEF Hidden
    <3>. QED BY <1>8, <3>1, <3>3 DEF Included
  <2>4. CASE c \in Module
    <3>0. PICK K : FixedAt(e, c, m, h', K)
        BY <1>8, <1>9, <1>12, <2>4, FixPrepend
    <3>1. /\ K \in SUBSET (Heads(e) \ {c}) /\ h' = IncludeEach(e, K, m, FALSE)
          /\ \A k \in K : \E x \in On(e, k) : x \in Iclasses(e) /\ e.of[x] = c
        BY <3>0 DEF FixedAt
    <3>2. K \in SUBSET DOMAIN e.super
        BY <3>1 DEF Heads
    <3>3. h' = IncludeEach(e, K, m, FALSE)
        BY <3>1
    <3>4. PICK r, w : Brought(e, u, K, m, h', r, w)
        BY <1>9, <3>2, <3>3, EachBrought
    <3>5. Kept(e, h')
        BY <3>4, GrownKept DEF Brought
    <3>6. Kept(h, h')
        BY <1>10, <3>5, KeptOn
    <3>7. ASSUME Programs = {}, Well(h) PROVE Well(h') /\ h.eq \cap Named \subseteq h'.eq
      <4>1. K = X
        <5>1. SUFFICES ASSUME NEW k \in K PROVE FALSE
            BY <2>3, <3>7
        <5>2. PICK x \in On(e, k) : x \in Iclasses(e) /\ e.of[x] = c
            BY <3>1
        <5>3. x \in e.origin
            BY <2>1, <2>3, <3>7, <5>2
        <5>4. u[x] = c
            BY <1>9, <5>2, <5>3 DEF Sound, Standing
        <5>5. k \in Heads(e) /\ k # c
            BY <3>1
        <5>6. c \in Class
            BY <1>9, <5>2, <5>4, <5>5, OnOwner DEF Sound
        <5>. QED BY <2>4, <5>6, ClassAssumption
      <4>2. Brought(out.g, u, X, m, h', r, w)
          BY <1>7, <3>4, <4>1
      <4>3. Well(h') /\ g.eq \cap Named \subseteq h'.eq
          BY <1>2, <1>3, <1>4, <1>6, <1>12, <2>2, <3>7, <4>2, CameFixed
      <4>. QED BY <1>3, <4>3
    <3>. QED BY <3>6, <3>7
  <2>5. CASE c \notin Module
    <3>1. h' = e
        BY <1>8, <1>12, <2>5
    <3>2. ASSUME Programs = {}, Well(h) PROVE Well(h') /\ h.eq \cap Named \subseteq h'.eq
      <4>1. Brought(e, u, X, m, e, v, u)
          BY <1>9, <2>3, <3>2, BroughtNone
      <4>2. Brought(out.g, u, X, m, e, v, u)
          BY <1>7, <4>1
      <4>3. Well(e) /\ g.eq \cap Named \subseteq e.eq
          BY <1>2, <1>3, <1>4, <1>6, <1>12, <2>2, <3>2, <4>2, CameFixed
      <4>. QED BY <1>3, <3>1, <4>3
    <3>. QED BY <1>10, <3>1, <3>2
  <2>. QED BY <2>4, <2>5
<1>. QED BY <1>11, <1>12


-----------------------------------------------------------------------------
(* The heap in every state.                                                *)

\* The root has a subclass that is no singleton class.
LEMMA RootInherited == \E k \in Class \ Singleton : SuperOf[k] = Root
<1>1. PICK depth \in [Class -> 0 .. Cardinality(Class)] :
           \A k \in Class : SuperOf[k] # NULL => depth[SuperOf[k]] < depth[k]
    BY ClassAssumption
<1>. DEFINE K == {k \in Class \ Singleton : SuperOf[k] # NULL}
            D == {depth[k] : k \in K}
<1>2. D \in SUBSET Nat /\ D # {}
  <2>1. Guarded \in K
      BY ClassAssumption
  <2>2. \A k \in K : depth[k] \in Nat
      BY <1>1
  <2>. QED BY <2>1, <2>2
<1>3. PICK n \in D : \A j \in D : n <= j
    BY <1>2, LeastMember
<1>4. PICK k \in K : n = depth[k]
    BY <1>3
<1>5. SuperOf[k] \in Class \ Singleton
    BY <1>4, ClassAssumption
<1>6. SuperOf[SuperOf[k]] = NULL
  <2>1. SUFFICES ASSUME SuperOf[SuperOf[k]] # NULL PROVE FALSE
      OBVIOUS
  <2>2. depth[SuperOf[k]] < n /\ n <= depth[SuperOf[k]] /\ depth[SuperOf[k]] \in Nat /\ n \in Nat
      BY <1>1, <1>2, <1>3, <1>4, <1>5, <2>1
  <2>. QED BY <2>2
<1>. QED BY <1>4, <1>5, <1>6, RootFacts

LEMMA InitHeap ==
    ASSUME Init
    PROVE  (\E rank, owner : Sound(h, rank, owner)) /\ Flagged(h) /\ Well(h)
<1>. DEFINE Made == Named \ Singleton
            inherits == {c \in Class \ Singleton : SuperOf[c] # NULL}
<1>1. /\ h = [super |-> [c \in Made |-> IF c \in Class THEN SuperOf[c] ELSE NULL],
                mt |-> [c \in Made |-> c], of |-> << >>, origin |-> {}, prepended |-> {},
                inherited |-> inherits \cup {SuperOf[c] : c \in inherits}, eq |-> {}]
    BY DEF Init
<1>2. /\ DOMAIN h.super = Made /\ DOMAIN h.mt = Made /\ h.origin = {} /\ h.prepended = {} /\ h.eq = {}
      /\ h.inherited = inherits \cup {SuperOf[c] : c \in inherits}
      /\ \A c \in Made : h.super[c] = Above(c) /\ h.mt[c] = c
      /\ h.of = << >>
    BY <1>1 DEF Above
<1>3. Iclasses(h) = {} /\ Heads(h) = Made
    BY <1>2 DEF Iclasses, Heads
<1>4. \A x : Real(h, x) = x
    BY <1>3 DEF Real
<1>5. PICK depth \in [Class -> 0 .. Cardinality(Class)] :
           \A k \in Class : SuperOf[k] # NULL => depth[SuperOf[k]] < depth[k]
    BY ClassAssumption
<1>. DEFINE rank == [c \in Made |-> IF c \in Class THEN depth[c] ELSE 0]
            owner == [c \in Made |-> c]
<1>6. Shaped(h)
  <2>1. IsFiniteSet(Made)
      BY ClassAssumption, FS_Subset
  <2>2. h = [super |-> h.super, mt |-> h.mt, of |-> h.of, origin |-> h.origin,
             prepended |-> h.prepended, inherited |-> h.inherited, eq |-> h.eq]
      BY ONLY <1>1
  <2>. HIDE DEF inherits
  <2>. QED BY <1>2, <1>3, <2>1, <2>2 DEF Shaped
<1>7. Threaded(h, rank, owner)
  <2>1. ASSUME NEW x \in Made
        PROVE  /\ rank[x] \in Nat /\ owner[x] = x /\ h.super[x] = Above(owner[x])
               /\ h.super[x] # NULL => h.super[x] \in Made /\ rank[h.super[x]] < rank[x]
    <3>1. CASE x \in Class
      <4>1. h.super[x] = SuperOf[x] /\ (SuperOf[x] # NULL => SuperOf[x] \in Class \ Singleton)
          BY <1>2, <3>1, ClassAssumption DEF Above
      <4>2. SuperOf[x] # NULL => SuperOf[x] \in Made
          BY <4>1 DEF Named
      <4>3. rank[x] = depth[x] /\ depth[x] \in Nat
          BY <1>5, <3>1
      <4>. QED BY <1>2, <1>5, <3>1, <4>1, <4>2, <4>3
    <3>2. CASE x \notin Class
        BY <1>2, <3>2 DEF Above
    <3>. QED BY <3>1, <3>2
  <2>. HIDE DEF rank, owner, Made
  <2>2. \A x \in Made : ~(rank[x] < rank[x])
      BY <2>1
  <2>. QED BY <1>2, <1>3, <2>1, <2>2 DEF Threaded
<1>8. Standing(h, owner)
    BY <1>2, <1>3, <1>4 DEF Standing
<1>9. Sound(h, rank, owner)
    BY <1>6, <1>7, <1>8 DEF Sound
<1>10. Flagged(h)
    BY <1>3 DEF Flagged
<1>11. Closed(h)
  <2>. HIDE DEF rank
  <2>1. SUFFICES ASSUME NEW k \in Heads(h), NEW n \in Names(h, k) \cap Module PROVE n = k
      BY DEF Closed
  <2>2. n \in On(h, k)
      BY <1>4 DEF Names
  <2>3. n \in DOMAIN h.super /\ (owner[n] = k \/ owner[n] \in Class \ Singleton)
      BY <1>9, <2>2, OnOwner DEF Sound
  <2>. QED BY <1>2, <2>3, ClassAssumption
<1>12. EqClosed(h)
    BY <1>2 DEF EqClosed
<1>13. ASSUME NEW c \in Heads(h) PROVE c \in h.inherited \cup Module
  <2>1. CASE c \in Module
      BY <2>1
  <2>2. CASE c \notin Module
    <3>1. c \in Class \ Singleton
        BY <1>3, <2>2 DEF Named
    <3>2. CASE SuperOf[c] # NULL
        BY <1>2, <3>1, <3>2
    <3>3. CASE SuperOf[c] = NULL
      <4>1. c = Root /\ Root # NULL
          BY <3>1, <3>3, RootFacts, ClassAssumption DEF Named
      <4>2. PICK k \in Class \ Singleton : SuperOf[k] = Root
          BY RootInherited
      <4>. QED BY <1>2, <4>1, <4>2
    <3>. QED BY <3>2, <3>3
  <2>. QED BY <2>1, <2>2
<1>14. Well(h)
    BY <1>11, <1>12, <1>13 DEF Well
<1>. QED BY <1>9, <1>10, <1>14

\* A new singleton class has the ancestors, and the mark, of its superclass.
LEMMA SingletonHeap ==
    ASSUME NEW rank, NEW owner, Sound(h, rank, owner), NEW c \in Singleton, prepare_singleton_class(c)
    PROVE  /\ Joined(h, c, h') /\ \E r, w : Sound(h', r, w)
           /\ Flagged(h) => Flagged(h')
           /\ Well(h) => Well(h')
           /\ h.eq \subseteq h'.eq
<1>1. PICK I, E : I = h.inherited \cup {c} /\ E = IF SuperOf[c] \in h.eq THEN h.eq \cup {c} ELSE h.eq
    OBVIOUS
<1>2. c \in Singleton \ Heads(h)
    BY LiveHeads DEF prepare_singleton_class
<1>3. Prepared(h, c, I, E, h')
    BY <1>1 DEF prepare_singleton_class, Prepared
<1>4. PICK f : f = h'
    OBVIOUS
<1>5. f.inherited = I /\ f.eq = E /\ Joined(h, c, f) /\ \E r, w : Sound(f, r, w)
    BY <1>2, <1>3, <1>4, JoinedSound
<1>6. PICK r, w : Sound(f, r, w)
    BY <1>5
<1>7. /\ Heads(f) = Heads(h) \cup {c} /\ Iclasses(f) = Iclasses(h) /\ c \notin DOMAIN h.super
      /\ \A x : Real(f, x) = Real(h, x)
      /\ f.origin = h.origin /\ f.prepended = h.prepended /\ f.of = h.of
      /\ \A x \in DOMAIN h.super : On(f, x) = On(h, x)
      /\ SuperOf[c] \in Heads(h) /\ On(f, c) = {c} \cup On(h, SuperOf[c])
    BY <1>5 DEF Joined
<1>8. Flagged(h) => Flagged(f)
    BY <1>1, <1>5, <1>7 DEF Flagged
<1>9. Heads(h) \subseteq DOMAIN h.super /\ Module \subseteq Heads(h) /\ c \notin Module /\ Real(h, c) = c
  <2>1. c \notin Iclasses(h)
      BY <1>7 DEF Sound, Shaped
  <2>2. Heads(h) \subseteq DOMAIN h.super /\ c \notin Module
      BY ClassAssumption DEF Heads
  <2>. QED BY <2>1, <2>2, ModuleTable DEF Real
<1>10. \A k \in Heads(h) : On(f, k) = On(h, k) /\ Names(f, k) = Names(h, k)
    BY <1>7, <1>9 DEF Names
<1>11. Names(f, c) = {c} \cup Names(h, SuperOf[c])
    BY <1>7, <1>9 DEF Names
<1>12. ASSUME Well(h) PROVE Well(f)
  <2>1. Closed(f)
    <3>1. SUFFICES ASSUME NEW k \in Heads(f), NEW n \in Names(f, k) \cap Module PROVE Names(f, n) \subseteq Names(f, k)
        BY DEF Closed
    <3>2. Names(f, n) = Names(h, n)
        BY <1>9, <1>10
    <3>3. CASE k \in Heads(h)
        BY <1>10, <1>12, <3>2, <3>3 DEF Well, Closed
    <3>4. CASE k = c
      <4>1. n \in Names(h, SuperOf[c])
          BY <1>9, <1>11, <3>4
      <4>2. Names(h, n) \subseteq Names(h, SuperOf[c])
          BY <1>7, <1>12, <4>1 DEF Well, Closed
      <4>. QED BY <1>11, <3>2, <3>4, <4>2
    <3>. QED BY <1>7, <3>3, <3>4
  <2>2. ASSUME NEW k \in Heads(f), NEW x \in On(f, k), Real(f, x) \in f.eq PROVE k \in f.eq
    <3>1. CASE k \in Heads(h)
      <4>1. x \in On(h, k) /\ Real(h, x) = Real(f, x)
          BY <1>7, <1>10, <3>1
      <4>2. Real(h, x) # c
          BY <1>2, <3>1, <4>1, NamesHead
      <4>3. k \in h.eq
          BY <1>1, <1>5, <1>12, <2>2, <3>1, <4>1, <4>2 DEF Well, EqClosed
      <4>. QED BY <1>1, <1>5, <4>3
    <3>2. CASE k = c /\ x = c
        BY <1>7, <1>9, <2>2, <3>2
    <3>3. CASE k = c /\ x \in On(h, SuperOf[c])
      <4>1. Real(h, x) = Real(f, x)
          BY <1>7
      <4>2. Real(h, x) # c
          BY <1>2, <1>7, <3>3, NamesHead
      <4>3. SuperOf[c] \in h.eq
          BY <1>1, <1>5, <1>7, <1>12, <2>2, <3>3, <4>1, <4>2 DEF Well, EqClosed
      <4>. QED BY <1>1, <1>5, <3>3, <4>3
    <3>. QED BY <1>7, <3>1, <3>2, <3>3
  <2>3. \A k \in Heads(f) : k \in f.inherited \cup Module
      BY <1>1, <1>5, <1>7, <1>12 DEF Well
  <2>. QED BY <2>1, <2>2, <2>3 DEF Well, EqClosed
<1>13. h.eq \subseteq f.eq
    BY <1>1, <1>5
<1>. QED BY <1>4, <1>5, <1>8, <1>12, <1>13

\* What obj_free() frees nothing else depends on.
LEMMA FreeHeap ==
    ASSUME NEW rank, NEW owner, Sound(h, rank, owner), NEW c \in Singleton, obj_free(c),
           NEW own, own = ToSet(Chain(h, c)) \ UNION {ToSet(Chain(h, k)) : k \in Live \ {c}}
    PROVE  /\ Freed(h, owner, c, own, h') /\ Sound(h', rank, owner)
           /\ Flagged(h) => Flagged(h')
           /\ Well(h) => Well(h')
<1>1. c \in Singleton \cap Heads(h)
    BY LiveHeads DEF obj_free
<1>2. h' = [super |-> [x \in DOMAIN h.super \ own |-> h.super[x]], mt |-> [x \in DOMAIN h.mt \ own |-> h.mt[x]],
            of |-> [x \in DOMAIN h.of \ own |-> h.of[x]],
            origin |-> h.origin \ own, prepended |-> h.prepended \ own,
            inherited |-> h.inherited \ own, eq |-> h.eq \ own]
    BY DEF obj_free
<1>3. own = ToSet(Chain(h, c)) \ UNION {ToSet(Chain(h, k)) : k \in Heads(h) \ {c}}
    BY LiveHeads
<1>4. PICK f : f = h'
    OBVIOUS
<1>5. Sound(f, rank, owner) /\ Freed(h, owner, c, own, f)
    BY <1>1, <1>2, <1>3, <1>4, FreedSound
<1>6. /\ own = {x \in DOMAIN h.super : owner[x] = c}
      /\ Heads(f) = Heads(h) \ {c} /\ DOMAIN f.super = DOMAIN h.super \ own
      /\ f.origin = h.origin \ own /\ f.prepended = h.prepended \ own
      /\ f.inherited = h.inherited \ own /\ f.eq = h.eq \ own
      /\ \A x \in DOMAIN f.super : f.mt[x] = h.mt[x] /\ Real(f, x) = Real(h, x) /\ (x \in Iclasses(f) <=> x \in Iclasses(h))
      /\ \A k \in Heads(f) : Chain(f, k) = Chain(h, k) /\ On(f, k) = On(h, k) /\ On(h, k) \cap own = {}
    BY <1>5 DEF Freed
<1>7. \A k \in Heads(h) : k \in own => k = c
    BY <1>6 DEF Sound, Threaded
<1>8. Module \subseteq Heads(f) /\ Module \subseteq Heads(h) /\ c \notin Module
    BY <1>5, ModuleTable, ClassAssumption
<1>9. \A k \in Heads(f) : Names(f, k) = Names(h, k)
  <2>1. SUFFICES ASSUME NEW k \in Heads(f) PROVE Names(f, k) = Names(h, k)
      OBVIOUS
  <2>2. On(f, k) \subseteq DOMAIN f.super
      BY <1>5, OnFacts, ThreadRanked DEF Sound, Heads
  <2>. QED BY <1>6, <2>2 DEF Names
<1>10. ASSUME Flagged(h) PROVE Flagged(f)
  <2>1. SUFFICES ASSUME NEW x \in Iclasses(f) \ f.origin, f.of[x] \notin f.prepended PROVE f.of[x] \in f.inherited
      BY DEF Flagged
  <2>2. x \in DOMAIN f.super /\ f.of[x] \in Module
      BY <1>5, <2>1 DEF Sound, Shaped, Standing
  <2>3. x \in Iclasses(h) \ h.origin /\ h.of[x] = f.of[x]
      BY <1>6, <2>1, <2>2 DEF Real
  <2>4. f.of[x] \notin own
      BY <1>7, <1>8, <2>2
  <2>. QED BY <1>6, <1>10, <2>1, <2>3, <2>4 DEF Flagged
<1>11. ASSUME Well(h) PROVE Well(f)
  <2>1. Closed(f)
      BY <1>6, <1>8, <1>9, <1>11 DEF Well, Closed
  <2>2. ASSUME NEW k \in Heads(f), NEW x \in On(f, k), Real(f, x) \in f.eq PROVE k \in f.eq
    <3>1. PICK y \in On(h, k) : Real(h, y) = Real(f, x)
        BY <1>9 DEF Names
    <3>2. k \in h.eq
        BY <1>6, <1>11, <2>2, <3>1 DEF Well, EqClosed
    <3>. QED BY <1>6, <1>7, <3>2
  <2>3. \A k \in Heads(f) : k \in f.inherited \cup Module
      BY <1>6, <1>7, <1>11 DEF Well
  <2>. QED BY <2>1, <2>2, <2>3 DEF Well, EqClosed
<1>. QED BY <1>4, <1>5, <1>10, <1>11

\* A method is put into a table of c: the heap may get the table, and the mark.
LEMMA TableHeap ==
    ASSUME NEW rank, NEW owner, Sound(h, rank, owner), NEW c \in Heads(h), NEW g, g = mt_writable(h, c),
           h' = g \/ h' = eq_defined_mark(g, c)
    PROVE  /\ \E r, w : Sound(h', r, w)
           /\ Heads(h') = Heads(h) /\ Heads(g) = Heads(h) /\ h'.super = h.super /\ h'.mt = g.mt
           /\ \A x \in DOMAIN h.super : Chain(h', x) = Chain(h, x) /\ Chain(g, x) = Chain(h, x) /\ On(g, x) = On(h, x)
           /\ Sound(g, rank, owner) /\ Tabled(h, c, g)
           /\ Flagged(h) => Flagged(h')
           /\ Well(h) => Well(h')
           /\ h.eq \subseteq h'.eq /\ (h' = eq_defined_mark(g, c) => c \in h'.eq)
<1>1. Sound(g, rank, owner) /\ Tabled(h, c, g)
    BY TabledSound
<1>2. /\ g.super = h.super /\ g.of = h.of /\ g.origin = h.origin /\ g.prepended = h.prepended
      /\ g.inherited = h.inherited /\ g.eq = h.eq
      /\ Iclasses(g) = Iclasses(h) /\ Heads(g) = Heads(h) /\ \A x : Real(g, x) = Real(h, x)
      /\ \A x \in DOMAIN h.super : Chain(g, x) = Chain(h, x) /\ On(g, x) = On(h, x)
    BY <1>1 DEF Tabled
<1>3. Flagged(h) => Flagged(g)
    BY <1>2 DEF Flagged
<1>4. \A k \in Heads(h) : k \in DOMAIN h.super
    BY DEF Heads
<1>5. \A k \in Heads(h) : Names(g, k) = Names(h, k)
    BY <1>2, <1>4 DEF Names
<1>6. Well(h) => Well(g)
  <2>1. Module \subseteq Heads(h)
      BY ModuleTable
  <2>2. Closed(h) => Closed(g)
      BY <1>2, <1>5, <2>1, SameClosed
  <2>3. EqClosed(h) => EqClosed(g)
      BY <1>2, <1>4 DEF EqClosed
  <2>. QED BY <1>2, <2>2, <2>3 DEF Well
<1>7. CASE h' = g
  <2>1. h' = eq_defined_mark(g, c) => c \in h'.eq
    <3>1. PICK f : f = eq_defined_mark(g, c)
        OBVIOUS
    <3>2. c \in f.eq
        BY <1>1, <3>1, MarkEq
    <3>. QED BY <3>1, <3>2
  <2>. QED BY <1>1, <1>2, <1>3, <1>6, <1>7, <2>1
<1>8. CASE h' = eq_defined_mark(g, c)
  <2>1. PICK f : f = h'
      OBVIOUS
  <2>2. f = eq_defined_mark(g, c)
      BY <1>8, <2>1
  <2>3. /\ f.super = g.super /\ f.mt = g.mt /\ f.of = g.of /\ f.origin = g.origin
        /\ f.prepended = g.prepended /\ f.inherited = g.inherited
        /\ Sound(f, rank, owner) /\ Iclasses(f) = Iclasses(g) /\ Heads(f) = Heads(g)
        /\ \A x : Real(f, x) = Real(g, x)
        /\ \A x \in DOMAIN g.super : Chain(f, x) = Chain(g, x) /\ On(f, x) = On(g, x)
      BY <1>1, <2>2, MarkSound
  <2>4. g.eq \subseteq f.eq /\ c \in f.eq
      BY <1>1, <2>2, MarkEq
  <2>5. Flagged(g) => Flagged(f)
      BY <2>3 DEF Flagged
  <2>6. ASSUME Well(g) PROVE Well(f)
    <3>1. c \in Heads(g) /\ c \in g.inherited \cup Module
        BY <1>2, <2>6 DEF Well
    <3>2. EqClosed(f)
        BY <1>1, <2>2, <2>6, <3>1, MarkClosed DEF Well
    <3>3. \A k \in Heads(g) : Names(f, k) = Names(g, k)
        BY <2>3 DEF Names, Heads
    <3>4. Module \subseteq Heads(g)
        BY <1>1, ModuleTable
    <3>5. Closed(f)
        BY <2>3, <2>6, <3>3, <3>4, SameClosed DEF Well
    <3>. QED BY <2>3, <2>6, <3>2, <3>5 DEF Well
  <2>. QED BY <1>1, <1>2, <1>3, <1>6, <1>8, <2>1, <2>3, <2>4, <2>5, <2>6
<1>. QED BY <1>7, <1>8

\* The heap is in order, whatever the programs do.
HeapInv == \E rank, owner : Sound(h, rank, owner)

\* The three ways a method gets into a table of c
LEMMA TableActions ==
    ASSUME NEW c, NEW s, Def(c, s) \/ mrb_undef_method_id(c, s) \/ mrb_mod_visibility(c, s)
    PROVE  h' = mt_writable(h, c) \/ h' = eq_defined_mark(mt_writable(h, c), c)
<1>1. CASE Def(c, s)
    BY <1>1 DEF Def, mrb_define_method_raw
<1>2. CASE mrb_undef_method_id(c, s)
    BY <1>2 DEF mrb_undef_method_id, mrb_define_method_raw
<1>3. CASE mrb_mod_visibility(c, s)
    BY <1>3 DEF mrb_mod_visibility
<1>. QED BY <1>1, <1>2, <1>3

LEMMA HeapNext == HeapInv /\ [Next]_classVars => HeapInv'
<1>1. SUFFICES ASSUME HeapInv, [Next]_classVars PROVE HeapInv'
    OBVIOUS
<1>2. PICK rank, owner : Sound(h, rank, owner)
    BY <1>1 DEF HeapInv
<1>3. SUFFICES \E r, w : Sound(h', r, w)
    BY DEF HeapInv
<1>4. CASE h' = h
    BY <1>2, <1>4
<1>5. CASE \E c \in Live \cap Reopened, m \in Module : mrb_include_module(c, m)
    BY <1>2, <1>5, IncludeHeap, LiveHeads DEF Kept
<1>6. CASE \E c \in Live \cap Reopened, m \in Module : mrb_prepend_module(c, m)
    BY <1>2, <1>6, PrependHeap, LiveHeads DEF Kept
<1>7. CASE \E c \in Live \cap Reopened, s \in Sym : Def(c, s) \/ mrb_undef_method_id(c, s) \/ mrb_mod_visibility(c, s)
  <2>1. PICK c \in Heads(h), s \in Sym : Def(c, s) \/ mrb_undef_method_id(c, s) \/ mrb_mod_visibility(c, s)
      BY <1>7, LiveHeads
  <2>2. h' = mt_writable(h, c) \/ h' = eq_defined_mark(mt_writable(h, c), c)
      BY <2>1, TableActions
  <2>. QED BY <1>2, <2>2, TableHeap
<1>8. CASE \E c \in Live \cap Reopened, s \in Sym : mrb_remove_method(c, s)
    BY <1>4, <1>8 DEF mrb_remove_method
<1>9. CASE \E c \in Live \cap Reopened \cap Class, s \in Sym : Call(c, s)
    BY <1>4, <1>9 DEF Call
<1>10. CASE \E c \in Singleton : prepare_singleton_class(c)
    BY <1>2, <1>10, SingletonHeap
<1>11. CASE \E c \in Singleton : obj_free(c)
    BY <1>2, <1>11, FreeHeap
<1>. QED BY <1>1, <1>4, <1>5, <1>6, <1>7, <1>8, <1>9, <1>10, <1>11 DEF Next, classVars

LEMMA HeapAlways == Spec => []HeapInv
<1>1. Init => HeapInv
    BY InitHeap DEF HeapInv
<1>. QED BY <1>1, HeapNext, PTL DEF Spec

\* In every state the chain of a class reaches the root, an ICLASS shares the
\* table of the origin of what it stands for, and a prepended class has its
\* one origin before its superclass: include_module_at(), fix_include_module(),
\* fix_prepend_module() and mrb_prepend_module() keep the chains sound, also
\* when a cyclic include is given up half way.
THEOREM ChainsAlwaysSound == Spec => []ChainsSound
<1>1. HeapInv => ChainsSound
    BY SoundChains DEF HeapInv
<1>. QED BY <1>1, HeapAlways, PTL

-----------------------------------------------------------------------------
(* Lookup, and the cache.                                                  *)

Entry == {None} \cup [body : Body \cup {"undef", "builtin"}, private : BOOLEAN]

\* No table is left over from a class that is gone.
Blank(g, t) == \A d \in Named : (\A x \in DOMAIN g.super : g.mt[x] # d) => t[d] = Empty

Tables(g, t) == t \in [Named -> [Sym -> Entry]] /\ Blank(g, t)

\* The search depends on the chain and the tables of what is on it.
Alike(g, t, f, t2, c, s) ==
    /\ Chain(f, c) = Chain(g, c)
    /\ \A y \in On(g, c) : y \in DOMAIN f.mt /\ mt_get(t2, f.mt[y], s) = mt_get(t, g.mt[y], s)

LEMMA FindAlike ==
    ASSUME NEW g, NEW rank, NEW owner, Sound(g, rank, owner), NEW c \in Heads(g),
           NEW t, NEW f, NEW t2, NEW s, Alike(g, t, f, t2, c, s)
    PROVE  Find(f, t2, c, s) = Find(g, t, c, s)
<1>1. PICK up : up = Chain(g, c) /\ up = Chain(f, c)
    BY DEF Alike
<1>2. up \in Seq(DOMAIN g.mt)
  <2>1. Full(g, c, Chain(g, c))
      BY ChainFull, ThreadRanked DEF Sound, Heads
  <2>2. DOMAIN g.mt = DOMAIN g.super
      BY DEF Sound, Shaped
  <2>. QED BY <1>1, <2>1, <2>2 DEF Full, Walks
<1>3. DOMAIN up = 1 .. Len(up) /\ \A i \in DOMAIN up : up[i] \in DOMAIN g.mt
    BY <1>2
<1>4. \A i \in DOMAIN up : up[i] \in DOMAIN f.mt /\ mt_get(t2, f.mt[up[i]], s) = mt_get(t, g.mt[up[i]], s)
    BY <1>1 DEF Alike, On, ToSet
<1>. DEFINE G == {y \in DOMAIN g.mt : mt_get(t, g.mt[y], s) # None}
            F == {y \in DOMAIN f.mt : mt_get(t2, f.mt[y], s) # None}
<1>5. {i \in DOMAIN up : up[i] \in G} = {i \in DOMAIN up : up[i] \in F}
    BY <1>3, <1>4
<1>6. PICK n : n = FirstOf(up, G)
    OBVIOUS
<1>. HIDE DEF G, F
<1>7. n = FirstOf(up, F)
    BY <1>5, <1>6 DEF FirstOf
<1>8. Holder(g, t, c, s) = (IF n = 0 THEN NULL ELSE up[n]) /\ Holder(f, t2, c, s) = (IF n = 0 THEN NULL ELSE up[n])
    BY <1>1, <1>6, <1>7 DEF Holder, G, F
<1>9. n = 0 \/ n \in DOMAIN up
    BY <1>2, <1>3, <1>6, FirstOfFacts
<1>10. CASE n = 0
    BY <1>8, <1>10 DEF Find
<1>11. CASE n # 0 /\ n \in DOMAIN up
  <2>1. PICK c0 : c0 = up[n]
      OBVIOUS
  <2>2. PICK e : e = mt_get(t, g.mt[c0], s) /\ e = mt_get(t2, f.mt[c0], s)
      BY <1>4, <1>11, <2>1
  <2>3. Holder(g, t, c, s) = c0 /\ Holder(f, t2, c, s) = c0
      BY <1>8, <1>11, <2>1
  <2>. QED BY <2>2, <2>3 DEF Find
<1>. QED BY <1>9, <1>10, <1>11

\* What is found is an entry of a table of an ancestor, and no undef.
FoundAt(g, t, c, s, e, y) ==
    /\ e = [c |-> c, mid |-> s, c0 |-> y, m |-> t[Real(g, y)][s]]
    /\ t[Real(g, y)][s] \in Entry \ {None, Undef} /\ Real(g, y) \in Named

LEMMA FindTyped ==
    ASSUME NEW g, NEW rank, NEW owner, Sound(g, rank, owner), NEW c \in Heads(g),
           NEW t \in [Named -> [Sym -> Entry]], NEW s \in Sym, NEW e, e = Find(g, t, c, s), e # NULL
    PROVE  \E y \in On(g, c) : FoundAt(g, t, c, s, e, y)
<1>1. PICK up : up = Chain(g, c)
    OBVIOUS
<1>2. up \in Seq(DOMAIN g.mt)
  <2>1. Full(g, c, Chain(g, c))
      BY ChainFull, ThreadRanked DEF Sound, Heads
  <2>2. DOMAIN g.mt = DOMAIN g.super
      BY DEF Sound, Shaped
  <2>. QED BY <1>1, <2>1, <2>2 DEF Full, Walks
<1>. DEFINE G == {y \in DOMAIN g.mt : mt_get(t, g.mt[y], s) # None}
<1>3. PICK n : n = FirstOf(up, G)
    OBVIOUS
<1>. HIDE DEF G
<1>4. Holder(g, t, c, s) = IF n = 0 THEN NULL ELSE up[n]
    BY <1>1, <1>3 DEF Holder, G
<1>5. n # 0
    BY <1>4 DEF Find
<1>6. n \in 1 .. Len(up) /\ up[n] \in G
    BY <1>2, <1>3, <1>5, FirstOfFacts
<1>7. PICK y : y = up[n]
    OBVIOUS
<1>8. y \in On(g, c) /\ y \in DOMAIN g.mt /\ mt_get(t, g.mt[y], s) # None
    BY <1>1, <1>2, <1>6, <1>7 DEF On, ToSet, G
<1>9. g.mt[y] # NULL
    BY <1>8 DEF mt_get
<1>10. y \in DOMAIN g.super /\ y \notin g.prepended
    BY <1>8, <1>9 DEF Sound, Shaped, Standing
<1>11. g.mt[y] = Real(g, y) /\ Real(g, y) \in Named
    BY <1>9, <1>10, RealNamed DEF Sound, Standing
<1>12. mt_get(t, g.mt[y], s) = t[Real(g, y)][s] /\ t[Real(g, y)][s] \in Entry
    BY <1>9, <1>11 DEF mt_get
<1>13. Holder(g, t, c, s) = y
    BY <1>4, <1>5, <1>7
<1>14. t[Real(g, y)][s] # Undef /\ e = [c |-> c, mid |-> s, c0 |-> y, m |-> t[Real(g, y)][s]]
    BY <1>12, <1>13 DEF Find
<1>. QED BY <1>8, <1>11, <1>12, <1>14 DEF FoundAt

LEMMA FindFields ==
    ASSUME NEW g, NEW t, NEW c, NEW s, NEW e, e = Find(g, t, c, s), e # NULL
    PROVE  e.c = c /\ e.mid = s
<1>1. PICK y, m : e = [c |-> c, mid |-> s, c0 |-> y, m |-> m]
    BY DEF Find
<1>. QED BY <1>1

\* The cache k answers what the search would, over the heap g and the tables t.
Right(k, g, t) ==
    /\ DOMAIN k = {1, 2}
    /\ \A w \in {1, 2} : k[w] # NULL =>
           k[w].c \in Heads(g) /\ k[w].mid \in Sym /\ k[w] = Find(g, t, k[w].c, k[w].mid)

\* A search through the cache answers what one without it would, and leaves the cache right.
LEMMA LookupFacts ==
    ASSUME NEW k, NEW g, NEW t, Right(k, g, t), NEW c \in Heads(g), NEW s \in Sym,
           NEW out, out = mrb_vm_find_method(k, g, t, c, s)
    PROVE  out.m = Find(g, t, c, s) /\ Right(out.cache, g, t)
<1>1. PICK found : found = Find(g, t, c, s)
    OBVIOUS
<1>2. PICK way \in {1, 2} : way = IF k[1] # NULL /\ k[2] = NULL THEN 2 ELSE 1
    OBVIOUS
<1>3. out = IF Hit(k[1], c, s) THEN [m |-> k[1], cache |-> k]
            ELSE IF Hit(k[2], c, s) THEN [m |-> k[2], cache |-> k]
            ELSE [m |-> found, cache |-> IF found = NULL THEN k ELSE [k EXCEPT ![way] = found]]
    BY <1>1, <1>2 DEF mrb_vm_find_method
<1>4. \A w \in {1, 2} : Hit(k[w], c, s) => k[w] = found
    BY <1>1 DEF Hit, Right
<1>5. CASE Hit(k[1], c, s)
    BY <1>1, <1>3, <1>4, <1>5
<1>6. CASE ~Hit(k[1], c, s) /\ Hit(k[2], c, s)
    BY <1>1, <1>3, <1>4, <1>6
<1>7. CASE ~Hit(k[1], c, s) /\ ~Hit(k[2], c, s)
  <2>1. PICK k2 : k2 = IF found = NULL THEN k ELSE [k EXCEPT ![way] = found]
      OBVIOUS
  <2>2. out = [m |-> found, cache |-> k2]
      BY <1>3, <1>7, <2>1
  <2>3. out.m = found /\ out.cache = k2
      BY <2>2
  <2>4. CASE found = NULL
      BY <1>1, <2>1, <2>3, <2>4
  <2>5. CASE found # NULL
    <3>1. DOMAIN k = {1, 2}
        BY DEF Right
    <3>2. DOMAIN k2 = {1, 2} /\ k2[way] = found /\ \A w \in {1, 2} : w # way => k2[w] = k[w]
        BY <1>2, <2>1, <2>5, <3>1
    <3>3. found.c = c /\ found.mid = s
        BY <1>1, <2>5, FindFields
    <3>4. ASSUME NEW w \in {1, 2}, k2[w] # NULL
          PROVE  k2[w].c \in Heads(g) /\ k2[w].mid \in Sym /\ k2[w] = Find(g, t, k2[w].c, k2[w].mid)
      <4>1. CASE w = way
          BY <1>1, <3>2, <3>3, <4>1
      <4>2. CASE w # way
          BY <3>2, <3>4, <4>2 DEF Right
      <4>. QED BY <4>1, <4>2
    <3>5. Right(k2, g, t)
        BY <3>2, <3>4 DEF Right
    <3>. QED BY <1>1, <2>3, <3>5
  <2>. QED BY <2>4, <2>5
<1>. QED BY <1>5, <1>6, <1>7

\* Entries that still answer what the search would may stay.
LEMMA RightOn ==
    ASSUME NEW k, NEW g, NEW t, Right(k, g, t), NEW k2, NEW f, NEW t2, DOMAIN k2 = {1, 2},
           \A w \in {1, 2} : k2[w] = NULL \/
               (k2[w] = k[w] /\ k[w].c \in Heads(f)
                /\ (k[w] # NULL => Find(f, t2, k[w].c, k[w].mid) = Find(g, t, k[w].c, k[w].mid)))
    PROVE  Right(k2, f, t2)
    BY DEF Right

\* The slots are on exactly while the search finds the builtin.
LEMMA UpdateFacts ==
    ASSUME NEW k, NEW g, NEW t, Right(k, g, t), Guarded \in Heads(g), mrb_builtin_op_update(k, g, t)
    PROVE  /\ Right(cache', g, t)
           /\ armed' <=> (Find(g, t, Guarded, Eq) # NULL /\ Find(g, t, Guarded, Eq).m = Builtin)
<1>1. PICK out : out = mrb_vm_find_method(k, g, t, Guarded, Eq)
    OBVIOUS
<1>2. out.m = Find(g, t, Guarded, Eq) /\ Right(out.cache, g, t)
    BY <1>1, LookupFacts, ClassAssumption
<1>3. armed' = bop_refresh(out.m) /\ cache' = out.cache
    BY <1>1 DEF mrb_builtin_op_update
<1>. QED BY <1>2, <1>3 DEF bop_refresh

\* A method goes into the table of c, or out of it.
Edited(t, c, s, e, t2) == t2 = [t EXCEPT ![c][s] = e]

LEMMA EditedRows ==
    ASSUME NEW t \in [Named -> [Sym -> Entry]], NEW c \in Named, NEW s \in Sym, NEW e \in Entry,
           NEW t2, Edited(t, c, s, e, t2)
    PROVE  /\ t2 \in [Named -> [Sym -> Entry]] /\ t2[c][s] = e
           /\ \A d \in Named : d # c => t2[d] = t[d]
           /\ \A q \in Sym \ {s} : t2[c][q] = t[c][q]
    BY DEF Edited

\* The rows that no class refers to stay blank, and what is found for the other names is found still.
LEMMA EditedFound ==
    ASSUME NEW g, NEW rank, NEW owner, Sound(g, rank, owner), NEW t, Tables(g, t), NEW c \in Heads(g),
           NEW f, f = mt_writable(g, c), NEW s \in Sym, NEW e \in Entry, NEW t2, Edited(t, c, s, e, t2)
    PROVE  /\ Tables(f, t2)
           /\ \A k \in Heads(g), q \in Sym \ {s} : Find(f, t2, k, q) = Find(g, t, k, q)
<1>1. Sound(f, rank, owner) /\ Tabled(g, c, f)
    BY TabledSound
<1>2. c \in Named /\ c # NULL
    BY ClassAssumption DEF Sound, Shaped
<1>3. /\ t2 \in [Named -> [Sym -> Entry]] /\ t2[c][s] = e
      /\ \A d \in Named : d # c => t2[d] = t[d]
      /\ \A q \in Sym \ {s} : t2[c][q] = t[c][q]
    BY <1>2, EditedRows DEF Tables
<1>4. /\ f.super = g.super /\ Heads(f) = Heads(g)
      /\ \A x \in DOMAIN g.super : Chain(f, x) = Chain(g, x)
      /\ f.mt[Origin(f, c)] = c
      /\ \A x \in DOMAIN g.super : f.mt[x] = g.mt[x]
                                   \/ (f.mt[x] = c /\ g.mt[x] = NULL /\ \A y \in DOMAIN g.super : g.mt[y] # c)
    BY <1>1 DEF Tabled
<1>5. Origin(f, c) \in DOMAIN f.super
    BY <1>1, <1>4, OriginTable
<1>6. Blank(f, t2)
  <2>1. SUFFICES ASSUME NEW d \in Named, \A x \in DOMAIN f.super : f.mt[x] # d PROVE t2[d] = Empty
      BY DEF Blank
  <2>2. d # c
      BY <1>4, <1>5, <2>1
  <2>3. \A x \in DOMAIN g.super : g.mt[x] # d
      BY <1>4, <2>1, ClassAssumption
  <2>4. t[d] = Empty
      BY <2>3 DEF Tables, Blank
  <2>. QED BY <1>3, <2>2, <2>4
<1>7. ASSUME NEW k \in Heads(g), NEW q \in Sym \ {s} PROVE Find(f, t2, k, q) = Find(g, t, k, q)
  <2>1. k \in DOMAIN g.super /\ On(g, k) \subseteq DOMAIN g.super
      BY OnFacts, ThreadRanked DEF Sound, Heads
  <2>2. DOMAIN f.mt = DOMAIN g.super
      BY <1>1, <1>4 DEF Sound, Shaped
  <2>3. ASSUME NEW y \in On(g, k) PROVE mt_get(t2, f.mt[y], q) = mt_get(t, g.mt[y], q)
    <3>0. y \in DOMAIN g.super
        BY <2>1, <2>3
    <3>1. CASE f.mt[y] = c /\ g.mt[y] = NULL /\ \A x \in DOMAIN g.super : g.mt[x] # c
      <4>1. t[c] = Empty
          BY <1>2, <3>1 DEF Tables, Blank
      <4>2. t2[c][q] = None
          BY <1>3, <4>1 DEF Empty
      <4>. QED BY <1>2, <3>1, <4>2 DEF mt_get
    <3>2. CASE f.mt[y] = g.mt[y] /\ g.mt[y] = NULL
        BY <3>2 DEF mt_get
    <3>3. CASE f.mt[y] = g.mt[y] /\ g.mt[y] # NULL
      <4>1. g.mt[y] \in Named
          BY <3>0, <3>3, RealNamed DEF Sound, Standing
      <4>2. t2[g.mt[y]][q] = t[g.mt[y]][q]
          BY <1>3, <4>1
      <4>. QED BY <3>3, <4>2 DEF mt_get
    <3>. QED BY <1>4, <3>0, <3>1, <3>2, <3>3
  <2>4. Alike(g, t, f, t2, k, q)
      BY <1>4, <2>1, <2>2, <2>3 DEF Alike
  <2>. QED BY <2>4, FindAlike
<1>. QED BY <1>3, <1>6, <1>7 DEF Tables

\* What is derived from the chains and tables is right.
Derived == Tables(h, tbl) /\ Right(cache, h, tbl) /\ ArmedCoherent

\* Two heaps with the same chains and tables
LEMMA SameFound ==
    ASSUME NEW g, NEW rank, NEW owner, Sound(g, rank, owner), NEW f, NEW t, f.mt = g.mt,
           \A x \in DOMAIN g.super : Chain(f, x) = Chain(g, x), NEW k \in Heads(g), NEW q
    PROVE  Find(f, t, k, q) = Find(g, t, k, q)
<1>1. k \in DOMAIN g.super /\ On(g, k) \subseteq DOMAIN g.super
    BY OnFacts, ThreadRanked DEF Sound, Heads
<1>2. DOMAIN g.mt = DOMAIN g.super
    BY DEF Sound, Shaped
<1>3. Alike(g, t, f, t, k, q)
    BY <1>1, <1>2 DEF Alike
<1>. QED BY <1>3, FindAlike

\* Whatever was in the cache, an entry for s is no longer.
LEMMA ClearedRight ==
    ASSUME NEW k, NEW g, NEW t, Right(k, g, t), NEW f, NEW t2, Heads(f) = Heads(g), NEW s,
           \A c \in Heads(g), q \in Sym \ {s} : Find(f, t2, c, q) = Find(g, t, c, q)
    PROVE  Right(mc_clear_by_id(k, s), f, t2)
<1>1. PICK k2 : k2 = mc_clear_by_id(k, s)
    OBVIOUS
<1>2. DOMAIN k = {1, 2}
    BY DEF Right
<1>3. DOMAIN k2 = {1, 2} /\ \A w \in {1, 2} : k2[w] = IF k[w] # NULL /\ k[w].mid = s THEN NULL ELSE k[w]
    BY <1>1, <1>2 DEF mc_clear_by_id
<1>4. ASSUME NEW w \in {1, 2}, k2[w] # NULL
      PROVE  k2[w].c \in Heads(f) /\ k2[w].mid \in Sym /\ k2[w] = Find(f, t2, k2[w].c, k2[w].mid)
  <2>1. k2[w] = k[w] /\ k[w] # NULL /\ k[w].mid # s
      BY <1>3, <1>4
  <2>2. k[w].c \in Heads(g) /\ k[w].mid \in Sym /\ k[w] = Find(g, t, k[w].c, k[w].mid)
      BY <2>1 DEF Right
  <2>3. Find(f, t2, k[w].c, k[w].mid) = Find(g, t, k[w].c, k[w].mid)
      BY <2>1, <2>2
  <2>. QED BY <2>1, <2>2, <2>3
<1>5. Right(k2, f, t2)
    BY <1>3, <1>4 DEF Right
<1>. QED BY <1>1, <1>5

\* A change of a table: the cache and the slots follow.
LEMMA ChangeDerived ==
    ASSUME NEW rank, NEW owner, Sound(h, rank, owner), Derived, NEW c \in Heads(h), NEW g, g = mt_writable(h, c),
           NEW s \in Sym, NEW e \in Entry, NEW k, Right(k, h, tbl), NEW t2, Edited(tbl, c, s, e, t2),
           Change(g, t2, s, k), h' = g \/ h' = eq_defined_mark(g, c)
    PROVE  Derived'
<1>1. /\ Heads(h') = Heads(h) /\ Heads(g) = Heads(h) /\ h'.super = h.super /\ h'.mt = g.mt
      /\ \A x \in DOMAIN h.super : Chain(h', x) = Chain(h, x) /\ Chain(g, x) = Chain(h, x)
      /\ Sound(g, rank, owner) /\ Tabled(h, c, g)
    BY TableHeap
<1>2. /\ Tables(g, t2)
      /\ \A b \in Heads(h), q \in Sym \ {s} : Find(g, t2, b, q) = Find(h, tbl, b, q)
    BY EditedFound DEF Derived
<1>3. tbl' = t2
    BY DEF Change
<1>4. g.super = h.super
    BY <1>1 DEF Tabled
<1>5. Tables(h', tbl')
    BY <1>1, <1>2, <1>3, <1>4 DEF Tables, Blank
<1>6. \A b \in Heads(g) : \A q : Find(h', t2, b, q) = Find(g, t2, b, q)
  <2>1. PICK f : f = h'
      OBVIOUS
  <2>2. f.mt = g.mt /\ \A x \in DOMAIN g.super : Chain(f, x) = Chain(g, x)
      BY <1>1, <1>4, <2>1
  <2>3. \A b \in Heads(g) : \A q : Find(f, t2, b, q) = Find(g, t2, b, q)
      BY <1>1, <2>2, SameFound
  <2>. QED BY <2>1, <2>3
<1>7. Right(mc_clear_by_id(k, s), g, t2)
    BY <1>1, <1>2, ClearedRight
<1>8. Guarded \in Heads(g) /\ Eq \in Sym
    BY <1>1, ClassAssumption DEF Sound, Shaped, Named
<1>9. Right(cache', g, t2) /\ (armed' <=> (Find(g, t2, Guarded, Eq) # NULL /\ Find(g, t2, Guarded, Eq).m = Builtin))
  <2>1. CASE s = Eq
    <3>1. mrb_builtin_op_update(mc_clear_by_id(k, s), g, t2)
        BY <1>3, <2>1 DEF Change
    <3>. QED BY <1>7, <1>8, <3>1, UpdateFacts
  <2>2. CASE s # Eq
    <3>1. cache' = mc_clear_by_id(k, s) /\ armed' = armed
        BY <2>2 DEF Change
    <3>2. Find(g, t2, Guarded, Eq) = Find(h, tbl, Guarded, Eq)
        BY <1>1, <1>2, <1>8, <2>2
    <3>3. armed <=> (Find(h, tbl, Guarded, Eq) # NULL /\ Find(h, tbl, Guarded, Eq).m = Builtin)
        BY DEF Derived, ArmedCoherent
    <3>. QED BY <1>7, <3>1, <3>2, <3>3
  <2>. QED BY <2>1, <2>2
<1>10. Right(cache', h', tbl')
  <2>1. DOMAIN cache' = {1, 2} /\ \A w \in {1, 2} : cache'[w] # NULL =>
           cache'[w].c \in Heads(g) /\ cache'[w].mid \in Sym /\ cache'[w] = Find(g, t2, cache'[w].c, cache'[w].mid)
      BY <1>9 DEF Right
  <2>. QED BY <1>1, <1>3, <1>6, <2>1 DEF Right
<1>11. ArmedCoherent'
    BY <1>3, <1>6, <1>8, <1>9 DEF ArmedCoherent
<1>. QED BY <1>5, <1>10, <1>11 DEF Derived

\* What the search through the cache finds, and the entries a program may make of it
LEMMA EntryFound ==
    ASSUME NEW rank, NEW owner, Sound(h, rank, owner), Derived, NEW c \in Heads(h), NEW s \in Sym,
           NEW found, found = mrb_vm_find_method(cache, h, tbl, c, s)
    PROVE  /\ Right(found.cache, h, tbl) /\ found.m = Find(h, tbl, c, s)
           /\ found.m # NULL => \E y \in On(h, c) : FoundAt(h, tbl, c, s, found.m, y)
           /\ found.m # NULL => \A private \in BOOLEAN : [found.m.m EXCEPT !.private = private] \in Entry
<1>1. Right(found.cache, h, tbl) /\ found.m = Find(h, tbl, c, s)
    BY LookupFacts DEF Derived
<1>2. ASSUME found.m # NULL PROVE \E y \in On(h, c) : FoundAt(h, tbl, c, s, found.m, y)
    BY <1>1, <1>2, FindTyped DEF Derived, Tables
<1>3. ASSUME found.m # NULL, NEW private \in BOOLEAN PROVE [found.m.m EXCEPT !.private = private] \in Entry
  <2>1. PICK y \in On(h, c) : FoundAt(h, tbl, c, s, found.m, y)
      BY <1>2, <1>3
  <2>2. PICK e : e = tbl[Real(h, y)][s]
      OBVIOUS
  <2>3. found.m.m = e /\ e \in Entry /\ e # None
      BY <2>1, <2>2 DEF FoundAt
  <2>4. e \in [body : Body \cup {"undef", "builtin"}, private : BOOLEAN]
      BY <2>3 DEF Entry
  <2>5. [e EXCEPT !.private = private] \in [body : Body \cup {"undef", "builtin"}, private : BOOLEAN]
      BY <2>4
  <2>. QED BY <2>3, <2>5 DEF Entry
<1>. QED BY <1>1, <1>2, <1>3

\* mt_put() goes to the table of c.
LEMMA PutEdited ==
    ASSUME NEW rank, NEW owner, Sound(h, rank, owner), NEW c \in Heads(h), NEW g, g = mt_writable(h, c), NEW s, NEW e
    PROVE  Edited(tbl, c, s, e, mt_put(tbl, g.mt[Origin(g, c)], s, e))
<1>1. Tabled(h, c, g)
    BY TabledSound
<1>2. g.mt[Origin(g, c)] = c
    BY <1>1 DEF Tabled
<1>. QED BY <1>2 DEF Edited, mt_put

LEMMA DefineDerived ==
    ASSUME NEW rank, NEW owner, Sound(h, rank, owner), Derived, NEW c \in Heads(h), NEW s \in Sym, NEW e \in Entry,
           NEW k, Right(k, h, tbl), mrb_define_method_raw(c, s, e, k)
    PROVE  Derived' /\ Edited(tbl, c, s, e, tbl') /\ (s = Eq => h' = eq_defined_mark(mt_writable(h, c), c))
<1>1. PICK g : g = mt_writable(h, c)
    OBVIOUS
<1>2. PICK t2 : t2 = mt_put(tbl, g.mt[Origin(g, c)], s, e)
    OBVIOUS
<1>3. Change(g, t2, s, k) /\ h' = IF s = Eq THEN eq_defined_mark(g, c) ELSE g
    BY <1>1, <1>2 DEF mrb_define_method_raw
<1>4. Edited(tbl, c, s, e, t2)
    BY <1>1, <1>2, PutEdited
<1>5. h' = g \/ h' = eq_defined_mark(g, c)
    BY <1>3
<1>6. Derived'
    BY <1>1, <1>3, <1>4, <1>5, ChangeDerived
<1>7. tbl' = t2
    BY <1>3 DEF Change
<1>. QED BY <1>1, <1>3, <1>4, <1>6, <1>7

\* The four ways a table of c changes at s: what the entry is, and whether c gets the mark
LEMMA TablesDerived ==
    ASSUME NEW rank, NEW owner, Sound(h, rank, owner), Derived, NEW c \in Heads(h), NEW s \in Sym,
           Def(c, s) \/ mrb_undef_method_id(c, s) \/ mrb_mod_visibility(c, s) \/ mrb_remove_method(c, s)
    PROVE  /\ Derived'
           /\ \E e \in Entry : /\ Edited(tbl, c, s, e, tbl')
                               /\ \/ s # Eq
                                  \/ h' = eq_defined_mark(mt_writable(h, c), c)
                                  \/ e = None
                                  \/ \E y \in On(h, c) : e.body = tbl[Real(h, y)][s].body /\ Real(h, y) \in Named
<1>0. {Undef, None} \subseteq Entry /\ \A b \in Body : Method(b, FALSE) \in Entry
    BY DEF Entry, Undef, Method
<1>1. CASE Def(c, s)
  <2>1. PICK b \in Body : mrb_define_method_raw(c, s, Method(b, FALSE), cache)
      BY <1>1 DEF Def
  <2>2. Derived' /\ Edited(tbl, c, s, Method(b, FALSE), tbl') /\ (s = Eq => h' = eq_defined_mark(mt_writable(h, c), c))
      BY <1>0, <2>1, DefineDerived DEF Derived
  <2>. QED BY <1>0, <2>2
<1>2. CASE mrb_undef_method_id(c, s)
  <2>1. PICK found : found = mrb_vm_find_method(cache, h, tbl, c, s)
      OBVIOUS
  <2>2. mrb_define_method_raw(c, s, Undef, found.cache)
      BY <1>2, <2>1 DEF mrb_undef_method_id
  <2>3. Right(found.cache, h, tbl)
      BY <2>1, EntryFound
  <2>4. Derived' /\ Edited(tbl, c, s, Undef, tbl') /\ (s = Eq => h' = eq_defined_mark(mt_writable(h, c), c))
      BY <1>0, <2>2, <2>3, DefineDerived
  <2>. QED BY <1>0, <2>4
<1>3. CASE mrb_mod_visibility(c, s)
  <2>1. PICK found : found = mrb_vm_find_method(cache, h, tbl, c, s)
      OBVIOUS
  <2>2. PICK g : g = mt_writable(h, c)
      OBVIOUS
  <2>3. PICK private \in BOOLEAN :
            /\ found.m # NULL
            /\ Change(g, mt_put(tbl, g.mt[Origin(g, c)], s, [found.m.m EXCEPT !.private = private]), s, found.cache)
            /\ h' = g
      BY <1>3, <2>1, <2>2 DEF mrb_mod_visibility
  <2>4. PICK e : e = [found.m.m EXCEPT !.private = private]
      OBVIOUS
  <2>5. PICK t2 : t2 = mt_put(tbl, g.mt[Origin(g, c)], s, e)
      OBVIOUS
  <2>6. /\ Right(found.cache, h, tbl) /\ e \in Entry
        /\ \E y \in On(h, c) : FoundAt(h, tbl, c, s, found.m, y)
      BY <2>1, <2>3, <2>4, EntryFound
  <2>7. Change(g, t2, s, found.cache)
      BY <2>3, <2>4, <2>5
  <2>8. Edited(tbl, c, s, e, t2)
      BY <2>2, <2>5, PutEdited
  <2>9. Derived'
      BY <2>2, <2>3, <2>6, <2>7, <2>8, ChangeDerived
  <2>10. tbl' = t2
      BY <2>7 DEF Change
  <2>11. PICK y \in On(h, c) : FoundAt(h, tbl, c, s, found.m, y)
      BY <2>6
  <2>12. e.body = tbl[Real(h, y)][s].body /\ Real(h, y) \in Named
    <3>1. PICK a : a = tbl[Real(h, y)][s]
        OBVIOUS
    <3>2. found.m.m = a /\ a \in Entry /\ a # None /\ Real(h, y) \in Named
        BY <2>11, <3>1 DEF FoundAt
    <3>3. a \in [body : Body \cup {"undef", "builtin"}, private : BOOLEAN]
        BY <3>2 DEF Entry
    <3>4. e = [a EXCEPT !.private = private]
        BY <2>4, <3>2
    <3>5. e.body = a.body
        BY <3>3, <3>4
    <3>. QED BY <3>1, <3>2, <3>5
  <2>. QED BY <2>6, <2>8, <2>9, <2>10, <2>12
<1>4. CASE mrb_remove_method(c, s)
  <2>1. PICK o : o = Origin(h, c)
      OBVIOUS
  <2>2. /\ mt_get(tbl, h.mt[o], s) # None /\ Change(h, mt_del(tbl, h.mt[o], s), s, cache) /\ h' = h
      BY <1>4, <2>1 DEF mrb_remove_method
  <2>3. h.mt[o] # NULL
      BY <2>2 DEF mt_get
  <2>4. h = mt_writable(h, c)
      BY <2>1, <2>3 DEF mt_writable
  <2>5. PICK t2 : t2 = mt_put(tbl, h.mt[o], s, None)
      OBVIOUS
  <2>6. Edited(tbl, c, s, None, t2)
      BY <2>1, <2>4, <2>5, PutEdited
  <2>7. Change(h, t2, s, cache)
      BY <2>2, <2>5 DEF mt_del
  <2>8. Derived'
      BY <1>0, <2>2, <2>4, <2>6, <2>7, ChangeDerived DEF Derived
  <2>9. tbl' = t2
      BY <2>7 DEF Change
  <2>. QED BY <1>0, <2>6, <2>8, <2>9
<1>. QED BY <1>1, <1>2, <1>3, <1>4

\* After an include or a prepend the cache is empty, and the slots are looked up again.
LEMMA ClearedDerived ==
    ASSUME Derived, Kept(h, h'), tbl' = tbl,
           mrb_builtin_op_update(mrb_method_cache_clear(cache), h', tbl)
    PROVE  Derived'
<1>1. PICK r, w : Sound(h', r, w)
    BY DEF Kept
<1>2. Guarded \in Heads(h')
    BY <1>1, ClassAssumption DEF Sound, Shaped, Named
<1>3. Right(mrb_method_cache_clear(cache), h', tbl)
    BY DEF Derived, Right, mrb_method_cache_clear
<1>4. /\ Right(cache', h', tbl)
      /\ armed' <=> (Find(h', tbl, Guarded, Eq) # NULL /\ Find(h', tbl, Guarded, Eq).m = Builtin)
    BY <1>2, <1>3, UpdateFacts
<1>5. Tables(h', tbl)
    BY DEF Derived, Tables, Blank, Kept
<1>. QED BY <1>4, <1>5 DEF Derived, ArmedCoherent

LEMMA SingletonDerived ==
    ASSUME NEW rank, NEW owner, Sound(h, rank, owner), Derived, NEW c \in Singleton, prepare_singleton_class(c)
    PROVE  Derived'
<1>1. tbl' = tbl /\ cache' = cache /\ armed' = armed
    BY DEF prepare_singleton_class
<1>2. PICK f : f = h'
    OBVIOUS
<1>3. Joined(h, c, f) /\ \E r, w : Sound(f, r, w)
    BY <1>2, SingletonHeap
<1>4. /\ Heads(f) = Heads(h) \cup {c} /\ DOMAIN f.super = DOMAIN h.super \cup {c} /\ f.mt[c] = NULL
      /\ \A x \in DOMAIN h.super : f.mt[x] = h.mt[x] /\ Chain(f, x) = Chain(h, x)
    BY <1>3 DEF Joined
<1>5. DOMAIN f.mt = DOMAIN f.super
    BY <1>3 DEF Sound, Shaped
<1>6. Tables(f, tbl)
    BY <1>4 DEF Derived, Tables, Blank
<1>7. ASSUME NEW k \in Heads(h), NEW q PROVE Find(f, tbl, k, q) = Find(h, tbl, k, q)
  <2>1. k \in DOMAIN h.super /\ On(h, k) \subseteq DOMAIN h.super
      BY OnFacts, ThreadRanked DEF Sound, Heads
  <2>2. Alike(h, tbl, f, tbl, k, q)
      BY <1>4, <1>5, <2>1 DEF Alike
  <2>. QED BY <2>2, FindAlike
<1>8. Right(cache, f, tbl)
    BY <1>4, <1>7 DEF Derived, Right
<1>9. Guarded \in Heads(h)
    BY ClassAssumption DEF Sound, Shaped, Named
<1>10. armed <=> (Find(f, tbl, Guarded, Eq) # NULL /\ Find(f, tbl, Guarded, Eq).m = Builtin)
    BY <1>7, <1>9 DEF Derived, ArmedCoherent
<1>. QED BY <1>1, <1>2, <1>6, <1>8, <1>10 DEF Derived, ArmedCoherent

LEMMA FreeDerived ==
    ASSUME NEW rank, NEW owner, Sound(h, rank, owner), Derived, NEW c \in Singleton, obj_free(c)
    PROVE  Derived'
<1>1. PICK own : own = ToSet(Chain(h, c)) \ UNION {ToSet(Chain(h, k)) : k \in Live \ {c}}
    OBVIOUS
<1>2. /\ c \in Singleton \cap Heads(h) /\ tbl' = [tbl EXCEPT ![c] = Empty] /\ armed' = armed
      /\ cache' = [w \in DOMAIN cache |->
                     IF \E x \in own : mrb_mc_clear_by_class(cache, x)[w] = NULL THEN NULL ELSE cache[w]]
    BY <1>1, LiveHeads DEF obj_free
<1>3. PICK f : f = h'
    OBVIOUS
<1>4. PICK t2 : t2 = tbl'
    OBVIOUS
<1>5. Freed(h, owner, c, own, f) /\ Sound(f, rank, owner)
    BY <1>1, <1>3, FreeHeap
<1>6. /\ own = {x \in DOMAIN h.super : owner[x] = c}
      /\ Heads(f) = Heads(h) \ {c} /\ DOMAIN f.super = DOMAIN h.super \ own
      /\ \A x \in DOMAIN f.super : f.mt[x] = h.mt[x] /\ Real(f, x) = Real(h, x)
      /\ \A k \in Heads(f) : Chain(f, k) = Chain(h, k) /\ On(f, k) = On(h, k)
      /\ \A x \in DOMAIN f.super : Real(f, x) # c
    BY <1>5 DEF Freed
<1>7. c \in own /\ c \in Named
    BY <1>2, <1>6 DEF Sound, Shaped, Threaded, Heads
<1>8. t2 \in [Named -> [Sym -> Entry]] /\ t2[c] = Empty /\ \A d \in Named : d # c => t2[d] = tbl[d]
    BY <1>2, <1>4, <1>7 DEF Derived, Tables, Empty, Entry
<1>9. DOMAIN f.mt = DOMAIN f.super
    BY <1>5 DEF Sound, Shaped
<1>10. \A x \in DOMAIN h.super : owner[x] = c /\ h.mt[x] # NULL => h.mt[x] = c \/ h.mt[x] \in Module
  <2>1. SUFFICES ASSUME NEW x \in DOMAIN h.super, owner[x] = c, h.mt[x] # NULL PROVE h.mt[x] = c \/ h.mt[x] \in Module
      OBVIOUS
  <2>2. h.mt[x] = Real(h, x)
      BY <2>1 DEF Sound, Standing
  <2>3. CASE x \in h.origin
      BY <2>1, <2>2, <2>3 DEF Sound, Standing, Shaped, Real
  <2>4. CASE x \in Iclasses(h) \ h.origin
      BY <2>1, <2>2, <2>4 DEF Sound, Standing, Real
  <2>5. CASE x \notin Iclasses(h)
      BY <2>1, <2>2, <2>5 DEF Sound, Threaded, Real, Heads
  <2>. QED BY <2>3, <2>4, <2>5
<1>11. Blank(f, t2)
  <2>1. SUFFICES ASSUME NEW d \in Named, \A x \in DOMAIN f.super : f.mt[x] # d, d # c PROVE t2[d] = Empty
      BY <1>8 DEF Blank
  <2>2. d \notin Module
    <3>1. SUFFICES ASSUME d \in Module PROVE FALSE
        OBVIOUS
    <3>2. Origin(f, d) \in DOMAIN f.super /\ f.mt[Origin(f, d)] = d
        BY <1>5, <3>1, ModuleTable
    <3>. QED BY <2>1, <3>2
  <2>3. \A x \in DOMAIN h.super : h.mt[x] # d
      BY <1>6, <1>10, <2>1, <2>2, ClassAssumption
  <2>4. tbl[d] = Empty
      BY <2>3 DEF Derived, Tables, Blank
  <2>. QED BY <1>8, <2>1, <2>4
<1>12. ASSUME NEW k \in Heads(f), NEW q PROVE Find(f, t2, k, q) = Find(h, tbl, k, q)
  <2>1. k \in Heads(h) /\ On(f, k) \subseteq DOMAIN f.super /\ On(f, k) = On(h, k)
      BY <1>5, <1>6, OnFacts, ThreadRanked DEF Sound, Heads
  <2>2. ASSUME NEW y \in On(h, k) PROVE y \in DOMAIN f.mt /\ mt_get(t2, f.mt[y], q) = mt_get(tbl, h.mt[y], q)
    <3>1. y \in DOMAIN f.super /\ f.mt[y] = h.mt[y] /\ Real(f, y) # c
        BY <1>6, <2>1, <2>2
    <3>2. CASE f.mt[y] = NULL
        BY <1>9, <3>1, <3>2 DEF mt_get
    <3>3. CASE f.mt[y] # NULL
      <4>1. f.mt[y] = Real(f, y) /\ Real(f, y) \in Named
          BY <1>5, <3>1, <3>3, RealNamed DEF Sound, Standing
      <4>2. t2[f.mt[y]] = tbl[h.mt[y]]
          BY <1>8, <3>1, <4>1
      <4>. QED BY <1>9, <3>1, <3>3, <4>2 DEF mt_get
    <3>. QED BY <3>2, <3>3
  <2>3. Alike(h, tbl, f, t2, k, q)
      BY <1>6, <2>2 DEF Alike
  <2>. QED BY <2>1, <2>3, FindAlike
<1>13. Right(cache', f, t2)
  <2>1. PICK k2 : k2 = cache'
      OBVIOUS
  <2>2. DOMAIN cache = {1, 2}
      BY DEF Derived, Right
  <2>3. DOMAIN k2 = {1, 2} /\ \A w \in {1, 2} :
            k2[w] = IF \E x \in own : mrb_mc_clear_by_class(cache, x)[w] = NULL THEN NULL ELSE cache[w]
      BY <1>2, <2>1, <2>2
  <2>4. ASSUME NEW w \in {1, 2}, k2[w] # NULL
        PROVE  k2[w].c \in Heads(f) /\ k2[w].mid \in Sym /\ k2[w] = Find(f, t2, k2[w].c, k2[w].mid)
    <3>1. k2[w] = cache[w] /\ mrb_mc_clear_by_class(cache, c)[w] # NULL
        BY <1>7, <2>3, <2>4
    <3>2. cache[w] # NULL /\ cache[w].c # c
        BY <2>2, <2>4, <3>1 DEF mrb_mc_clear_by_class
    <3>3. cache[w].c \in Heads(h) /\ cache[w].mid \in Sym /\ cache[w] = Find(h, tbl, cache[w].c, cache[w].mid)
        BY <3>2 DEF Derived, Right
    <3>4. cache[w].c \in Heads(f)
        BY <1>6, <3>2, <3>3
    <3>5. Find(f, t2, cache[w].c, cache[w].mid) = Find(h, tbl, cache[w].c, cache[w].mid)
        BY <1>12, <3>4
    <3>. QED BY <3>1, <3>3, <3>4, <3>5
  <2>5. Right(k2, f, t2)
      BY <2>3, <2>4 DEF Right
  <2>. QED BY <2>1, <2>5
<1>14. Guarded \in Heads(f)
    BY <1>5, ClassAssumption DEF Sound, Shaped, Named
<1>15. armed <=> (Find(f, t2, Guarded, Eq) # NULL /\ Find(f, t2, Guarded, Eq).m = Builtin)
    BY <1>12, <1>14 DEF Derived, ArmedCoherent
<1>. QED BY <1>2, <1>3, <1>4, <1>8, <1>11, <1>13, <1>15 DEF Derived, ArmedCoherent, Tables

\* At startup the search for == of Guarded ends at the builtin of the root.
LEMMA InitDerived ==
    ASSUME NEW rank, NEW owner, Sound(h, rank, owner), Init
    PROVE  Derived
<1>1. /\ h.mt = [c \in Named \ Singleton |-> c] /\ DOMAIN h.super = Named \ Singleton
      /\ Iclasses(h) = {}
      /\ tbl = [c \in Named |-> IF c = Root THEN [Empty EXCEPT ![Eq] = Builtin] ELSE Empty]
      /\ cache = <<NULL, NULL>> /\ armed = TRUE
    BY DEF Init, Iclasses
<1>2. Root \in Class \ Singleton /\ Root \in Named /\ NULL \notin Named
    BY RootFacts, ClassAssumption DEF Named
<1>3. Heads(h) = Named \ Singleton
    BY <1>1 DEF Heads
<1>4. Guarded \in Heads(h) \cap Class /\ Eq \in Sym
    BY <1>3, ClassAssumption DEF Named
<1>5. None \in Entry /\ Builtin \in Entry /\ None # Builtin /\ Builtin # Undef
    BY DEF Entry, None, Builtin, Undef, Method
<1>6. Empty \in [Sym -> Entry] /\ [Empty EXCEPT ![Eq] = Builtin] \in [Sym -> Entry]
    BY <1>5 DEF Empty
<1>7. tbl \in [Named -> [Sym -> Entry]]
    BY <1>1, <1>6
<1>8. Blank(h, tbl)
  <2>1. SUFFICES ASSUME NEW d \in Named, \A x \in DOMAIN h.super : h.mt[x] # d PROVE tbl[d] = Empty
      BY DEF Blank
  <2>2. d # Root
      BY <1>1, <1>2, <2>1
  <2>. QED BY <1>1, <2>2
<1>9. Right(cache, h, tbl)
    BY <1>1 DEF Right
<1>10. \A y \in DOMAIN h.mt : mt_get(tbl, h.mt[y], Eq) = IF y = Root THEN Builtin ELSE None
  <2>1. SUFFICES ASSUME NEW y \in DOMAIN h.mt
                 PROVE  mt_get(tbl, h.mt[y], Eq) = IF y = Root THEN Builtin ELSE None
      OBVIOUS
  <2>2. y \in Named /\ h.mt[y] = y /\ y # NULL
      BY <1>1, <1>2
  <2>3. tbl[y][Eq] = IF y = Root THEN Builtin ELSE None
      BY <1>1, <1>4, <2>2 DEF Empty
  <2>. QED BY <2>2, <2>3 DEF mt_get
<1>11. PICK up : up = Chain(h, Guarded)
    OBVIOUS
<1>12. up \in Seq(DOMAIN h.super) /\ DOMAIN up = 1 .. Len(up)
  <2>1. Full(h, Guarded, up)
      BY <1>4, <1>11, ChainFull, ThreadRanked DEF Sound, Heads
  <2>. QED BY <2>1 DEF Full, Walks
<1>13. PICK i \in 1 .. Len(up) : up[i] = Root
    BY <1>4, <1>11, <1>12, RootReached DEF On, ToSet
<1>. DEFINE G == {y \in DOMAIN h.mt : mt_get(tbl, h.mt[y], Eq) # None}
<1>14. G = {Root}
    BY <1>1, <1>2, <1>5, <1>10
<1>15. PICK n : n = FirstOf(up, G)
    OBVIOUS
<1>16. n \in 1 .. Len(up) /\ up[n] = Root
    BY <1>12, <1>13, <1>14, <1>15, FirstOfFacts
<1>17. Holder(h, tbl, Guarded, Eq) = Root
  <2>1. Holder(h, tbl, Guarded, Eq) = IF n = 0 THEN NULL ELSE up[n]
      BY <1>11, <1>15 DEF Holder
  <2>. QED BY <1>12, <1>16, <2>1
<1>. HIDE DEF G
<1>18. Find(h, tbl, Guarded, Eq) = [c |-> Guarded, mid |-> Eq, c0 |-> Root, m |-> Builtin]
  <2>1. mt_get(tbl, h.mt[Root], Eq) = Builtin /\ Root # NULL
      BY <1>1, <1>2, <1>10
  <2>. QED BY <1>5, <1>17, <2>1 DEF Find
<1>19. [c |-> Guarded, mid |-> Eq, c0 |-> Root, m |-> Builtin] # NULL
  <2>1. Builtin \in [body : Body \cup {"builtin"}, private : BOOLEAN]
      BY DEF Builtin, Method
  <2>. QED BY <1>2, <1>4, <2>1, ClassAssumption
<1>20. ArmedCoherent
    BY <1>1, <1>18, <1>19 DEF ArmedCoherent
<1>. QED BY <1>7, <1>8, <1>9, <1>20 DEF Derived, Tables

\* The heap is in order, and what is derived from it is right.
CacheInv == HeapInv /\ Derived

LEMMA CacheNext == ASSUME "cyclic" \notin Programs PROVE CacheInv /\ [Next]_classVars => CacheInv'
<1>1. SUFFICES ASSUME CacheInv, [Next]_classVars PROVE CacheInv'
    OBVIOUS
<1>2. HeapInv'
    BY <1>1, HeapNext DEF CacheInv
<1>3. PICK rank, owner : Sound(h, rank, owner)
    BY <1>1 DEF CacheInv, HeapInv
<1>4. Derived
    BY <1>1 DEF CacheInv
<1>5. SUFFICES Derived'
    BY <1>2 DEF CacheInv
<1>6. CASE UNCHANGED classVars
    BY <1>4, <1>6 DEF classVars, Derived, ArmedCoherent
<1>7. CASE \E c \in Live \cap Reopened, m \in Module : mrb_include_module(c, m)
  <2>1. PICK c \in Heads(h), m \in Module : mrb_include_module(c, m)
      BY <1>7, LiveHeads
  <2>2. Kept(h, h')
      BY <1>3, <2>1, IncludeHeap
  <2>3. tbl' = tbl /\ mrb_builtin_op_update(mrb_method_cache_clear(cache), h', tbl)
      BY <2>1 DEF mrb_include_module
  <2>. QED BY <1>4, <2>2, <2>3, ClearedDerived
<1>8. CASE \E c \in Live \cap Reopened, m \in Module : mrb_prepend_module(c, m)
  <2>1. PICK c \in Heads(h), m \in Module : mrb_prepend_module(c, m)
      BY <1>8, LiveHeads
  <2>2. Kept(h, h')
      BY <1>3, <2>1, PrependHeap
  <2>3. tbl' = tbl /\ mrb_builtin_op_update(mrb_method_cache_clear(cache), h', tbl)
      BY <2>1 DEF mrb_prepend_module
  <2>. QED BY <1>4, <2>2, <2>3, ClearedDerived
<1>9. CASE \E c \in Live \cap Reopened, s \in Sym :
               Def(c, s) \/ mrb_undef_method_id(c, s) \/ mrb_mod_visibility(c, s) \/ mrb_remove_method(c, s)
    BY <1>3, <1>4, <1>9, LiveHeads, TablesDerived
<1>10. CASE \E c \in Live \cap Reopened \cap Class, s \in Sym : Call(c, s)
  <2>1. PICK c \in Heads(h), s \in Sym : Call(c, s)
      BY <1>10, LiveHeads
  <2>2. PICK found : found = mrb_vm_find_method(cache, h, tbl, c, s)
      OBVIOUS
  <2>3. h' = h /\ tbl' = tbl /\ armed' = armed /\ cache' = found.cache
      BY <2>1, <2>2 DEF Call
  <2>4. Right(found.cache, h, tbl)
      BY <1>3, <1>4, <2>2, EntryFound
  <2>. QED BY <1>4, <2>3, <2>4 DEF Derived, ArmedCoherent
<1>11. CASE \E c \in Singleton : prepare_singleton_class(c)
    BY <1>3, <1>4, <1>11, SingletonDerived
<1>12. CASE \E c \in Singleton : obj_free(c)
    BY <1>3, <1>4, <1>12, FreeDerived
<1>. QED BY <1>1, <1>6, <1>7, <1>8, <1>9, <1>10, <1>11, <1>12 DEF Next

LEMMA CacheAlways == ASSUME "cyclic" \notin Programs PROVE Spec => []CacheInv
<1>1. Init => CacheInv
    BY InitHeap, InitDerived DEF CacheInv, HeapInv
<1>2. CacheInv /\ [Next]_classVars => CacheInv'
    BY CacheNext
<1>. QED BY <1>1, <1>2, PTL DEF Spec

\* A cached answer is in every state the one the search would give, as long as
\* programs rescue no cyclic include: mc_clear_by_id() after a change of a table,
\* mrb_method_cache_clear() after an include or a prepend and
\* mrb_mc_clear_by_class() in obj_free() drop all that could be stale.
THEOREM CacheAlwaysCoherent == ASSUME "cyclic" \notin Programs PROVE Spec => []CacheCoherent
<1>1. CacheInv => CacheCoherent
    BY LiveHeads DEF CacheInv, Derived, Right, CacheCoherent
<1>. QED BY <1>1, CacheAlways, PTL

\* The opcode answers for == of Guarded in every state exactly while the search
\* finds the builtin, under the same hypothesis: bop_refresh() runs after every
\* change that could matter, and obj_free() is none.
THEOREM ArmedAlwaysCoherent == ASSUME "cyclic" \notin Programs PROVE Spec => []ArmedCoherent
<1>1. CacheInv => ArmedCoherent
    BY DEF CacheInv, Derived
<1>. QED BY <1>1, CacheAlways, PTL

-----------------------------------------------------------------------------
(* Programs that neither rescue a cyclic include nor prepend late: what is *)
(* included in a module reaches everything, and so do the marks.           *)

OrderedInv == HeapInv /\ Flagged(h) /\ Well(h)

LEMMA OrderedNext == ASSUME Programs = {} PROVE OrderedInv /\ [Next]_classVars => OrderedInv'
<1>1. SUFFICES ASSUME OrderedInv, [Next]_classVars PROVE OrderedInv'
    OBVIOUS
<1>2. HeapInv'
    BY <1>1, HeapNext DEF OrderedInv
<1>3. PICK rank, owner : Sound(h, rank, owner)
    BY <1>1 DEF OrderedInv, HeapInv
<1>4. Flagged(h) /\ Well(h)
    BY <1>1 DEF OrderedInv
<1>5. SUFFICES Flagged(h') /\ Well(h')
    BY <1>2 DEF OrderedInv
<1>6. CASE h' = h
    BY <1>4, <1>6
<1>7. CASE \E c \in Live \cap Reopened, m \in Module : mrb_include_module(c, m)
    BY <1>3, <1>4, <1>7, IncludeHeap, LiveHeads DEF Kept
<1>8. CASE \E c \in Live \cap Reopened, m \in Module : mrb_prepend_module(c, m)
    BY <1>3, <1>4, <1>8, PrependHeap, LiveHeads DEF Kept
<1>9. CASE \E c \in Live \cap Reopened, s \in Sym : Def(c, s) \/ mrb_undef_method_id(c, s) \/ mrb_mod_visibility(c, s)
  <2>1. PICK c \in Heads(h), s \in Sym : Def(c, s) \/ mrb_undef_method_id(c, s) \/ mrb_mod_visibility(c, s)
      BY <1>9, LiveHeads
  <2>2. h' = mt_writable(h, c) \/ h' = eq_defined_mark(mt_writable(h, c), c)
      BY <2>1, TableActions
  <2>. QED BY <1>3, <1>4, <2>2, TableHeap
<1>10. CASE \E c \in Live \cap Reopened, s \in Sym : mrb_remove_method(c, s)
    BY <1>6, <1>10 DEF mrb_remove_method
<1>11. CASE \E c \in Live \cap Reopened \cap Class, s \in Sym : Call(c, s)
    BY <1>6, <1>11 DEF Call
<1>12. CASE \E c \in Singleton : prepare_singleton_class(c)
    BY <1>3, <1>4, <1>12, SingletonHeap
<1>13. CASE \E c \in Singleton : obj_free(c)
    BY <1>3, <1>4, <1>13, FreeHeap
<1>. QED BY <1>1, <1>6, <1>7, <1>8, <1>9, <1>10, <1>11, <1>12, <1>13 DEF Next, classVars

LEMMA OrderedAlways == ASSUME Programs = {} PROVE Spec => []OrderedInv
<1>1. Init => OrderedInv
    BY InitHeap DEF OrderedInv, HeapInv
<1>2. OrderedInv /\ [Next]_classVars => OrderedInv'
    BY OrderedNext
<1>. QED BY <1>1, <1>2, PTL DEF Spec

\* What is included in a module reaches in every state everything the module is
\* included in, as long as programs rescue no cyclic include and do not prepend to a
\* module, or include in a prepended one, after it was included:
\* fix_include_module() and fix_prepend_module() bring the new module to every
\* chain.
THEOREM AncestorsAlwaysClosed == ASSUME Programs = {} PROVE Spec => []AncestorsClosed
<1>1. OrderedInv => AncestorsClosed
  <2>1. Closed(h) => AncestorsClosed
      BY LiveHeads DEF Closed, Names, On, AncestorsClosed, Ancestors
  <2>. QED BY <2>1 DEF OrderedInv, Well
<1>. QED BY <1>1, OrderedAlways, PTL

\* A table with a == that is not the builtin belongs to something marked.
Marked(g, t) == \A n \in Named : t[n][Eq].body \notin {"none", "builtin"} => n \in g.eq

EqInv == OrderedInv /\ Derived /\ Marked(h, tbl)

LEMMA MarkedNext == ASSUME Programs = {}, EqInv, Next PROVE Marked(h', tbl')
<1>1. OrderedInv /\ Derived /\ Marked(h, tbl)
    BY DEF EqInv
<1>2. PICK rank, owner : Sound(h, rank, owner)
    BY <1>1 DEF OrderedInv, HeapInv
<1>3. Flagged(h) /\ Well(h)
    BY <1>1 DEF OrderedInv
<1>4. CASE \E c \in Live \cap Reopened, m \in Module : mrb_include_module(c, m)
  <2>1. PICK c \in Heads(h), m \in Module : mrb_include_module(c, m)
      BY <1>4, LiveHeads
  <2>2. h.eq \cap Named \subseteq h'.eq
      BY <1>2, <1>3, <2>1, IncludeHeap
  <2>3. tbl' = tbl
      BY <2>1 DEF mrb_include_module
  <2>. QED BY <1>1, <2>2, <2>3 DEF Marked
<1>5. CASE \E c \in Live \cap Reopened, m \in Module : mrb_prepend_module(c, m)
  <2>1. PICK c \in Heads(h), m \in Module : mrb_prepend_module(c, m)
      BY <1>5, LiveHeads
  <2>2. h.eq \cap Named \subseteq h'.eq
      BY <1>2, <1>3, <2>1, PrependHeap
  <2>3. tbl' = tbl
      BY <2>1 DEF mrb_prepend_module
  <2>. QED BY <1>1, <2>2, <2>3 DEF Marked
<1>6. CASE \E c \in Live \cap Reopened, s \in Sym :
               Def(c, s) \/ mrb_undef_method_id(c, s) \/ mrb_mod_visibility(c, s) \/ mrb_remove_method(c, s)
  <2>1. PICK c \in Heads(h), s \in Sym :
                 Def(c, s) \/ mrb_undef_method_id(c, s) \/ mrb_mod_visibility(c, s) \/ mrb_remove_method(c, s)
      BY <1>6, LiveHeads
  <2>2. PICK e \in Entry : /\ Edited(tbl, c, s, e, tbl')
                           /\ \/ s # Eq
                              \/ h' = eq_defined_mark(mt_writable(h, c), c)
                              \/ e = None
                              \/ \E y \in On(h, c) : e.body = tbl[Real(h, y)][s].body /\ Real(h, y) \in Named
      BY <1>1, <1>2, <2>1, TablesDerived
  <2>3. h.eq \subseteq h'.eq /\ (h' = eq_defined_mark(mt_writable(h, c), c) => c \in h'.eq)
    <3>1. CASE Def(c, s) \/ mrb_undef_method_id(c, s) \/ mrb_mod_visibility(c, s)
      <4>1. h' = mt_writable(h, c) \/ h' = eq_defined_mark(mt_writable(h, c), c)
          BY <3>1, TableActions
      <4>. QED BY <1>2, <4>1, TableHeap
    <3>2. CASE mrb_remove_method(c, s)
      <4>1. h' = h /\ mt_get(tbl, h.mt[Origin(h, c)], s) # None
          BY <3>2 DEF mrb_remove_method
      <4>2. h.mt[Origin(h, c)] # NULL
          BY <4>1 DEF mt_get
      <4>3. h' = mt_writable(h, c)
          BY <4>1, <4>2 DEF mt_writable
      <4>. QED BY <1>2, <4>3, TableHeap
    <3>. QED BY <2>1, <3>1, <3>2
  <2>4. c \in Named
      BY <1>2 DEF Sound, Shaped
  <2>5. PICK t2 : t2 = tbl'
      OBVIOUS
  <2>6. /\ t2[c][s] = e /\ \A d \in Named : d # c => t2[d] = tbl[d]
        /\ \A q \in Sym \ {s} : t2[c][q] = tbl[c][q]
      BY <1>1, <2>2, <2>4, <2>5, EditedRows DEF Derived, Tables
  <2>7. ASSUME NEW n \in Named, t2[n][Eq].body \notin {"none", "builtin"} PROVE n \in h'.eq
    <3>1. CASE n # c \/ s # Eq
      <4>1. t2[n][Eq] = tbl[n][Eq]
          BY <2>6, <3>1, ClassAssumption
      <4>. QED BY <1>1, <2>3, <2>7, <4>1 DEF Marked
    <3>2. CASE n = c /\ s = Eq
      <4>1. e.body \notin {"none", "builtin"}
          BY <2>6, <2>7, <3>2
      <4>2. e # None
          BY <4>1 DEF None, Method
      <4>3. CASE \E y \in On(h, c) : e.body = tbl[Real(h, y)][s].body /\ Real(h, y) \in Named
        <5>1. PICK y \in On(h, c) : e.body = tbl[Real(h, y)][Eq].body /\ Real(h, y) \in Named
            BY <3>2, <4>3
        <5>2. Real(h, y) \in h.eq
            BY <1>1, <4>1, <5>1 DEF Marked
        <5>3. c \in h.eq
            BY <1>3, <5>2 DEF Well, EqClosed
        <5>. QED BY <2>3, <3>2, <5>3
      <4>. QED BY <2>2, <2>3, <3>2, <4>2, <4>3
    <3>. QED BY <3>1, <3>2
  <2>. QED BY <2>5, <2>7 DEF Marked
<1>7. CASE \E c \in Live \cap Reopened \cap Class, s \in Sym : Call(c, s)
    BY <1>1, <1>7 DEF Call
<1>8. CASE \E c \in Singleton : prepare_singleton_class(c)
  <2>1. h.eq \subseteq h'.eq
      BY <1>2, <1>8, SingletonHeap
  <2>2. tbl' = tbl
      BY <1>8 DEF prepare_singleton_class
  <2>. QED BY <1>1, <2>1, <2>2 DEF Marked
<1>9. CASE \E c \in Singleton : obj_free(c)
  <2>1. PICK c \in Singleton : obj_free(c)
      BY <1>9
  <2>2. PICK own : own = ToSet(Chain(h, c)) \ UNION {ToSet(Chain(h, k)) : k \in Live \ {c}}
      OBVIOUS
  <2>3. Freed(h, owner, c, own, h')
      BY <1>2, <2>1, <2>2, FreeHeap
  <2>4. own = {x \in DOMAIN h.super : owner[x] = c} /\ h'.eq = h.eq \ own
      BY <2>3 DEF Freed
  <2>5. tbl' = [tbl EXCEPT ![c] = Empty] /\ c \in Named
      BY <2>1, ClassAssumption DEF obj_free, Named
  <2>6. ASSUME NEW n \in Named, tbl'[n][Eq].body \notin {"none", "builtin"} PROVE n \in h'.eq
    <3>1. tbl \in [Named -> [Sym -> Entry]] /\ Eq \in Sym
        BY <1>1, ClassAssumption DEF Derived, Tables
    <3>2. n # c
      <4>1. SUFFICES ASSUME n = c PROVE FALSE
          OBVIOUS
      <4>2. tbl'[n][Eq] = None
          BY <2>5, <3>1, <4>1 DEF Empty
      <4>. QED BY <2>6, <4>2 DEF None, Method
    <3>3. n \in h.eq
        BY <1>1, <2>5, <2>6, <3>1, <3>2 DEF Marked
    <3>4. n \notin own
        BY <1>2, <2>4, <3>2, NamedNumber DEF Sound, Shaped, Threaded, Heads
    <3>. QED BY <2>4, <3>3, <3>4
  <2>. QED BY <2>6 DEF Marked
<1>. QED BY <1>4, <1>5, <1>6, <1>7, <1>8, <1>9 DEF EqInv, Next

LEMMA EqAlways == ASSUME Programs = {} PROVE Spec => []EqInv
<1>1. Init => EqInv
  <2>1. SUFFICES ASSUME Init PROVE EqInv
      OBVIOUS
  <2>2. OrderedInv /\ Derived
      BY <2>1, InitHeap, InitDerived DEF OrderedInv, HeapInv
  <2>3. \A n \in Named : tbl[n][Eq] = IF n = Root THEN Builtin ELSE None
      BY <2>1, ClassAssumption DEF Init, Empty
  <2>4. None.body = "none" /\ Builtin.body = "builtin"
      BY DEF None, Builtin, Method
  <2>5. Marked(h, tbl)
      BY <2>3, <2>4 DEF Marked
  <2>. QED BY <2>2, <2>5 DEF EqInv
<1>2. EqInv /\ [Next]_classVars => EqInv'
  <2>1. SUFFICES ASSUME EqInv, [Next]_classVars PROVE EqInv'
      OBVIOUS
  <2>2. OrderedInv'
      BY <2>1, OrderedNext DEF EqInv
  <2>3. CacheInv
      BY <2>1 DEF EqInv, OrderedInv, CacheInv
  <2>4. Derived'
      BY <2>1, <2>3, CacheNext DEF CacheInv
  <2>5. Marked(h', tbl')
    <3>1. CASE Next
        BY <2>1, <3>1, MarkedNext
    <3>2. CASE UNCHANGED classVars
        BY <2>1, <3>2 DEF EqInv, classVars
    <3>. QED BY <2>1, <3>1, <3>2
  <2>. QED BY <2>2, <2>4, <2>5 DEF EqInv
<1>. QED BY <1>1, <1>2, PTL DEF Spec

\* In every state no class that finds a == other than the builtin goes without the
\* mark that keeps OP_EQ from comparing by identity, for the same programs:
\* eq_defined_mark() reaches every heir, and an include or a new
\* singleton class takes the mark over.
THEOREM EqAlwaysSound == ASSUME Programs = {} PROVE Spec => []EqSound
<1>1. EqInv => EqSound
  <2>1. SUFFICES ASSUME EqInv, NEW c \in (Live \cap Class) \ h.eq, NEW found, found = Find(h, tbl, c, Eq), found # NULL
                 PROVE  found.m.body = "builtin"
      BY DEF EqSound
  <2>2. PICK rank, owner : Sound(h, rank, owner)
      BY <2>1 DEF EqInv, OrderedInv, HeapInv
  <2>3. c \in Heads(h) /\ tbl \in [Named -> [Sym -> Entry]] /\ Eq \in Sym
      BY <2>1, LiveHeads, ClassAssumption DEF EqInv, Derived, Tables
  <2>4. PICK y \in On(h, c) : FoundAt(h, tbl, c, Eq, found, y)
      BY <2>1, <2>2, <2>3, FindTyped
  <2>5. PICK e : e = tbl[Real(h, y)][Eq]
      OBVIOUS
  <2>6. found.m = e /\ e \in Entry /\ e # None /\ Real(h, y) \in Named
      BY <2>4, <2>5 DEF FoundAt
  <2>7. e.body # "none"
      BY <2>6, ClassAssumption DEF Entry
  <2>8. Real(h, y) \notin h.eq
      BY <2>1, <2>3, <2>4 DEF EqInv, OrderedInv, Well, EqClosed
  <2>9. e.body = "builtin"
      BY <2>1, <2>5, <2>6, <2>7, <2>8 DEF EqInv, Marked
  <2>. QED BY <2>6, <2>9
<1>. QED BY <1>1, EqAlways, PTL
=============================================================================
