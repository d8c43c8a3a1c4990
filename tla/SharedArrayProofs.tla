-------------------------- MODULE SharedArrayProofs --------------------------
(***************************************************************************)
(* Proofs about SharedArray: for any number of arrays and any thresholds,  *)
(* the windows lie in live buffers, the counts are exact, and arrays that  *)
(* share memory are still values of their own.                             *)
(*                                                                         *)
(* The operations pass a heap s (Now) through the helpers of array.c.  So  *)
(* the proofs are about heaps: every helper keeps a heap good, and what it *)
(* does to View(s), the values the arrays show, is stated with it.         *)
(***************************************************************************)
EXTENDS SharedArray, TLAPS, FiniteSetTheorems, SequenceTheorems, WellFoundedInduction

Slot == 1 .. Cardinality(Arr)
Buffer == [refcnt : Nat, cells : Seq(Elem)]
HeapType == [ary : [Arr -> Own \cup Window \cup {Gone}], sh : [Slot -> Buffer]]

\* The memory of x is there, as WindowsInside says, and within ARY_MAX_SIZE.
Fits(sh, x) ==
    /\ ARY_LEN(x) <= MaxSize
    /\ IF SharedP(x) THEN sh[x.sh].refcnt > 0 /\ x.off + x.len <= Len(sh[x.sh].cells)
       ELSE Len(x.cells) <= ARY_CAPA(x)

Holds(x, i) == x # Gone /\ SharedP(x) /\ x.sh = i
Holders(A, i) == {a \in Arr : Holds(A[a], i)}

Good(s) ==
    /\ s \in HeapType
    /\ \A a \in Arr : s.ary[a] # Gone => Fits(s.sh, s.ary[a])
    /\ \A i \in Slot : s.sh[i].refcnt = Cardinality(Holders(s.ary, i))

View(s) == [a \in Arr |-> IF s.ary[a] = Gone THEN Gone ELSE Cells(s.sh, s.ary[a])]

IInv == Good(Now)

-----------------------------------------------------------------------------
(* The forms of an array.                                                  *)

\* What the kind of a structure says about it.
LEMMA Forms ==
    /\ \A x \in Own : /\ ~SharedP(x) /\ x # Gone /\ x.cells \in Seq(Elem) /\ ARY_CAPA(x) \in Nat
                      /\ x.kind \in {"embed", "heap"} /\ ARY_LEN(x) = Len(x.cells)
                      /\ Len(x.cells) \in Nat
    /\ \A x \in Window : /\ SharedP(x) /\ x # Gone /\ x.sh \in Slot /\ x.off \in Nat /\ x.len \in Nat
                         /\ x.kind = "shared" /\ ARY_LEN(x) = x.len
    /\ Slot \subseteq Nat
  <1>1. ASSUME NEW x \in Own
        PROVE  /\ ~SharedP(x) /\ x # Gone /\ x.cells \in Seq(Elem) /\ ARY_CAPA(x) \in Nat
               /\ x.kind \in {"embed", "heap"} /\ ARY_LEN(x) = Len(x.cells)
               /\ Len(x.cells) \in Nat
    BY ArrayAssumption DEF Own, SharedP, ARY_CAPA, ARY_LEN
  <1>2. ASSUME NEW x \in Window
        PROVE  /\ SharedP(x) /\ x # Gone /\ x.sh \in Slot /\ x.off \in Nat /\ x.len \in Nat
               /\ x.kind = "shared" /\ ARY_LEN(x) = x.len
    BY ArrayAssumption DEF Window, Slot, SharedP, ARY_LEN
  <1>. QED BY <1>1, <1>2 DEF Slot

\* An embedded array and an array with a buffer of its own are such structures.
LEMMA OwnForms ==
    ASSUME NEW c \in Seq(Elem), NEW n \in Nat
    PROVE  /\ Embed(c) \in Own /\ Embed(c).cells = c /\ ARY_CAPA(Embed(c)) = EmbedMax
           /\ Heap(c, n) \in Own /\ Heap(c, n).cells = c /\ ARY_CAPA(Heap(c, n)) = n
    BY DEF Embed, Heap, Own, ARY_CAPA

\* Writing its elements keeps an array's form and its capacity.
LEMMA CellsExcept ==
    ASSUME NEW x \in Own, NEW c \in Seq(Elem)
    PROVE  /\ [x EXCEPT !.cells = c] \in Own
           /\ [x EXCEPT !.cells = c].cells = c
           /\ ARY_CAPA([x EXCEPT !.cells = c]) = ARY_CAPA(x)
    BY DEF Own, ARY_CAPA

\* The window made by Shared.
LEMMA WindowForm ==
    ASSUME NEW i \in Slot, NEW off \in Nat, NEW len \in Nat
    PROVE  /\ Shared(i, off, len) \in Window
           /\ Shared(i, off, len).sh = i
           /\ Shared(i, off, len).off = off
           /\ Shared(i, off, len).len = len
           /\ Shared(i, off, len) # Gone /\ SharedP(Shared(i, off, len))
           /\ ARY_LEN(Shared(i, off, len)) = len
  <1>1. Shared(i, off, len) \in Window
    BY DEF Shared, Window, Slot
  <1>. QED BY <1>1, Forms DEF Shared

\* A heap that is put together from its two parts.
LEMMA HeapParts ==
    ASSUME NEW s \in HeapType
    PROVE  /\ s.ary \in [Arr -> Own \cup Window \cup {Gone}] /\ s.sh \in [Slot -> Buffer]
           /\ s = [ary |-> s.ary, sh |-> s.sh]
           /\ \A i \in Slot : s.sh[i] \in Buffer /\ s.sh[i].refcnt \in Nat /\ s.sh[i].cells \in Seq(Elem)
           /\ \A a \in Arr : s.ary[a] # Gone => s.ary[a] \in Own \cup Window
    BY DEF HeapType, Buffer

\* Set replaces one structure.
LEMMA SetHeap ==
    ASSUME NEW s \in HeapType, NEW a \in Arr, NEW x \in Own \cup Window \cup {Gone}
    PROVE  /\ Set(s, a, x) = [ary |-> [s.ary EXCEPT ![a] = x], sh |-> s.sh]
           /\ Set(s, a, x) \in HeapType
    BY HeapParts DEF Set, HeapType

-----------------------------------------------------------------------------
(* Holders of a buffer.                                                    *)

\* Their number is a number.
LEMMA HoldersFinite ==
    ASSUME NEW A, NEW i
    PROVE  IsFiniteSet(Holders(A, i)) /\ Cardinality(Holders(A, i)) \in Nat
  <1>1. IsFiniteSet(Holders(A, i))
    BY FS_Subset, ArrayAssumption DEF Holders
  <1>. QED BY <1>1, FS_CardinalityType

\* One array changes its structure: it becomes a holder, or ceases to be one,
\* or neither.
LEMMA HoldersChange ==
    ASSUME NEW A \in [Arr -> Own \cup Window \cup {Gone}], NEW a \in Arr, NEW x, NEW i,
           NEW B, B = [A EXCEPT ![a] = x]
    PROVE  /\ Holds(x, i) /\ ~Holds(A[a], i) =>
                  Cardinality(Holders(B, i)) = Cardinality(Holders(A, i)) + 1
           /\ ~Holds(x, i) /\ Holds(A[a], i) =>
                  Cardinality(Holders(B, i)) = Cardinality(Holders(A, i)) - 1
           /\ Holds(x, i) /\ Holds(A[a], i) => Holders(B, i) = Holders(A, i)
           /\ ~Holds(x, i) /\ ~Holds(A[a], i) => Holders(B, i) = Holders(A, i)
  <1>1. CASE Holds(x, i) /\ ~Holds(A[a], i)
    <2>1. Holders(B, i) = Holders(A, i) \cup {a} /\ a \notin Holders(A, i)
      BY <1>1 DEF Holders
    <2>. QED BY <1>1, <2>1, HoldersFinite, FS_AddElement
  <1>2. CASE ~Holds(x, i) /\ Holds(A[a], i)
    <2>1. Holders(B, i) = Holders(A, i) \ {a} /\ a \in Holders(A, i)
      BY <1>2 DEF Holders
    <2>. QED BY <1>2, <2>1, HoldersFinite, FS_RemoveElement
  <1>3. CASE (Holds(x, i) /\ Holds(A[a], i)) \/ (~Holds(x, i) /\ ~Holds(A[a], i))
    BY <1>3 DEF Holders
  <1>. QED BY <1>1, <1>2, <1>3

\* A buffer with one holder has no other, and one without a holder has none.
LEMMA FewHolders ==
    ASSUME NEW A, NEW i
    PROVE  /\ Cardinality(Holders(A, i)) = 1 =>
                  \A a, b \in Arr : Holds(A[a], i) /\ Holds(A[b], i) => a = b
           /\ Cardinality(Holders(A, i)) = 0 => \A a \in Arr : ~Holds(A[a], i)
  <1>1. ASSUME Cardinality(Holders(A, i)) = 1
        PROVE  \E h : Holders(A, i) = {h}
    BY <1>1, HoldersFinite, FS_Singleton
  <1>2. ASSUME Cardinality(Holders(A, i)) = 0
        PROVE  Holders(A, i) = {}
    BY <1>2, HoldersFinite, FS_EmptySet
  <1>. QED BY <1>1, <1>2 DEF Holders

-----------------------------------------------------------------------------
(* Sequences.                                                              *)

\* The window of c that starts at off and shows len elements
Win(c, off, len) == SubSeq(c, off + 1, off + len)

\* A window of a sequence.
LEMMA Part ==
    ASSUME NEW E, NEW c \in Seq(E), NEW off \in Nat, NEW len \in Nat, off + len <= Len(c)
    PROVE  /\ Win(c, off, len) \in Seq(E)
           /\ Len(Win(c, off, len)) = len
           /\ \A i \in 1 .. len : Win(c, off, len)[i] = c[off + i]
    BY SMTT(30) DEF Win

\* A window of a window is a window.
LEMMA PartOfPart ==
    ASSUME NEW E, NEW c \in Seq(E), NEW off \in Nat, NEW n \in Nat, off + n <= Len(c),
           NEW beg \in Nat, NEW len \in Nat, beg + len <= n, NEW at \in Nat, off + beg = at
    PROVE  /\ at + len <= Len(c) /\ len <= n
           /\ Win(Win(c, off, n), beg, len) = Win(c, at, len)
  <1>. DEFINE w == Win(c, off, n)
              l == Win(w, beg, len)
              r == Win(c, at, len)
  <1>1. w \in Seq(E) /\ Len(w) = n /\ \A i \in 1 .. n : w[i] = c[off + i]
    BY Part
  <1>. HIDE DEF w
  <1>2. l \in Seq(E) /\ Len(l) = len /\ \A i \in 1 .. len : l[i] = w[beg + i]
    <2>1. w \in Seq(E) /\ beg + len <= Len(w)
      BY <1>1
    <2>. QED BY <2>1, Part
  <1>3. at + len <= Len(c) /\ len <= n
    <2>. DEFINE L == Len(c)
    <2>1. L \in Nat /\ off + n <= L
      OBVIOUS
    <2>. HIDE DEF L
    <2>2. at + len <= L /\ len <= n
      BY <2>1
    <2>. QED BY <2>2 DEF L
  <1>4. r \in Seq(E) /\ Len(r) = len /\ \A i \in 1 .. len : r[i] = c[at + i]
    BY <1>3, Part
  <1>. HIDE DEF l, r
  <1>5. ASSUME NEW i \in 1 .. Len(l) PROVE l[i] = r[i]
    <2>1. i \in 1 .. len /\ beg + i \in 1 .. n /\ off + (beg + i) = at + i
      BY <1>2
    <2>2. l[i] = w[beg + i] /\ r[i] = c[at + i]
      BY <1>2, <1>4, <2>1
    <2>3. w[beg + i] = c[off + (beg + i)]
      BY <1>1, <2>1
    <2>. QED BY <2>1, <2>2, <2>3
  <1>6. l = r
    BY <1>2, <1>4, <1>5, SeqEqual
  <1>. QED BY <1>3, <1>6 DEF l, r, w

-----------------------------------------------------------------------------
(* Heaps.                                                                  *)

\* One array a gets the structure x, and buffers may change with it: the heap
\* stays good and no other array shows it, if x fits, the counts are kept, and
\* what others hold keeps its elements.
LEMMA Rewrite ==
    ASSUME NEW s, Good(s), NEW t \in HeapType,
           NEW a \in Arr, NEW x \in Own \cup Window \cup {Gone},
           t.ary = [s.ary EXCEPT ![a] = x],
           x # Gone => Fits(t.sh, x),
           \A i \in Slot : t.sh[i].refcnt = Cardinality(Holders(t.ary, i)),
           \A i \in Slot, b \in Arr \ {a} : Holds(s.ary[b], i) => t.sh[i].cells = s.sh[i].cells
    PROVE  /\ Good(t)
           /\ View(t) = [View(s) EXCEPT ![a] = IF x = Gone THEN Gone ELSE Cells(t.sh, x)]
  <1>1. s \in HeapType /\ s.ary \in [Arr -> Own \cup Window \cup {Gone}]
    BY HeapParts DEF Good
  <1>2. ASSUME NEW b \in Arr \ {a}, s.ary[b] # Gone
        PROVE  Fits(t.sh, s.ary[b]) /\ Cells(t.sh, s.ary[b]) = Cells(s.sh, s.ary[b])
    <2>1. Fits(s.sh, s.ary[b]) /\ s.ary[b] \in Own \cup Window
      BY <1>1, <1>2 DEF Good
    <2>2. CASE s.ary[b] \in Own
      BY <2>1, <2>2, Forms DEF Fits, Cells
    <2>3. CASE s.ary[b] \in Window
      <3>. DEFINE j == s.ary[b].sh
      <3>1. j \in Slot /\ SharedP(s.ary[b]) /\ Holds(s.ary[b], j)
        BY <1>2, <2>3, Forms DEF Holds
      <3>2. t.sh[j].cells = s.sh[j].cells
        BY <3>1
      <3>3. Holds(t.ary[b], j)
        BY <1>1, <3>1
      <3>4. Cardinality(Holders(t.ary, j)) # 0 /\ Cardinality(Holders(t.ary, j)) \in Nat
        <4>1. b \in Arr
          OBVIOUS
        <4>. QED BY <3>3, <4>1, FewHolders, HoldersFinite
      <3>5. t.sh[j].refcnt > 0
        BY <3>1, <3>4
      <3>. QED BY <2>1, <3>1, <3>2, <3>5 DEF Fits, Cells
    <2>. QED BY <2>1, <2>2, <2>3
  <1>3. \A b \in Arr : b # a => t.ary[b] = s.ary[b]
    BY <1>1
  <1>4. t.ary[a] = x
    BY <1>1
  <1>5. Good(t)
    BY <1>2, <1>3, <1>4 DEF Good
  <1>6. View(t) = [View(s) EXCEPT ![a] = IF x = Gone THEN Gone ELSE Cells(t.sh, x)]
    BY <1>2, <1>3, <1>4 DEF View
  <1>. QED BY <1>5, <1>6

\* An array that holds no buffer gets a structure that holds none.
LEMMA SetOwn ==
    ASSUME NEW s, Good(s), NEW a \in Arr, s.ary[a] \in Own \cup {Gone},
           NEW x \in Own \cup {Gone}, x # Gone => Len(x.cells) <= MaxSize /\ Len(x.cells) <= ARY_CAPA(x)
    PROVE  /\ Good(Set(s, a, x)) /\ Set(s, a, x).ary = [s.ary EXCEPT ![a] = x]
           /\ View(Set(s, a, x)) = [View(s) EXCEPT ![a] = IF x = Gone THEN Gone ELSE x.cells]
  <1>. DEFINE t == Set(s, a, x)
  <1>1. s \in HeapType
    BY DEF Good
  <1>2. t \in HeapType /\ t.ary = [s.ary EXCEPT ![a] = x]
    BY <1>1, SetHeap
  <1>2a. t.sh = s.sh
    BY <1>1, SetHeap
  <1>3. \A i : ~Holds(x, i) /\ ~Holds(s.ary[a], i)
    BY Forms DEF Holds
  <1>4. \A i \in Slot : Holders(t.ary, i) = Holders(s.ary, i)
    <2>1. s.ary \in [Arr -> Own \cup Window \cup {Gone}]
      BY <1>1, HeapParts
    <2>. QED BY <1>2, <1>3, <2>1, HoldersChange
  <1>5. x # Gone => Fits(t.sh, x) /\ Cells(t.sh, x) = x.cells
    BY Forms DEF Fits, Cells
  <1>6. \A i \in Slot : t.sh[i].refcnt = Cardinality(Holders(t.ary, i))
    BY <1>2a, <1>4 DEF Good
  <1>. HIDE DEF t
  <1>7. Good(t) /\ View(t) = [View(s) EXCEPT ![a] = IF x = Gone THEN Gone ELSE Cells(t.sh, x)]
    <2>1. ASSUME NEW i \in Slot, NEW b \in Arr \ {a}, Holds(s.ary[b], i)
          PROVE  t.sh[i].cells = s.sh[i].cells
      BY <1>2a
    <2>2. x \in Own \cup Window \cup {Gone}
      OBVIOUS
    <2>. QED BY <1>2, <1>5, <1>6, <2>1, <2>2, Rewrite
  <1>. QED BY <1>2, <1>5, <1>7 DEF t

\* A holder lets go of its buffer, which is freed with the last of them.
LEMMA DropRef ==
    ASSUME NEW s, Good(s), NEW a \in Arr, s.ary[a] \in Window,
           NEW x \in Own \cup {Gone}, x # Gone => Len(x.cells) <= MaxSize /\ Len(x.cells) <= ARY_CAPA(x)
    PROVE  LET t == [ary |-> [s.ary EXCEPT ![a] = x], sh |-> mrb_ary_decref(s.sh, s.ary[a].sh)]
           IN  Good(t) /\ View(t) = [View(s) EXCEPT ![a] = IF x = Gone THEN Gone ELSE x.cells]
  <1>. DEFINE i == s.ary[a].sh
              t == [ary |-> [s.ary EXCEPT ![a] = x], sh |-> mrb_ary_decref(s.sh, i)]
  <1>1. s \in HeapType /\ s.ary \in [Arr -> Own \cup Window \cup {Gone}] /\ s.sh \in [Slot -> Buffer]
    BY HeapParts DEF Good
  <1>2. i \in Slot /\ Holds(s.ary[a], i) /\ \A j : Holds(s.ary[a], j) => j = i
    BY Forms DEF Holds
  <1>3. \A j : ~Holds(x, j)
    BY Forms DEF Holds
  <1>4. s.sh[i].refcnt \in Nat /\ s.sh[i].refcnt > 0 /\ s.sh[i].refcnt = Cardinality(Holders(s.ary, i))
    BY <1>1, <1>2, HeapParts, Forms DEF Good, Fits
  <1>5. /\ mrb_ary_decref(s.sh, i) \in [Slot -> Buffer]
        /\ mrb_ary_decref(s.sh, i)[i].refcnt = s.sh[i].refcnt - 1
        /\ \A j \in Slot : j # i => mrb_ary_decref(s.sh, i)[j] = s.sh[j]
        /\ s.sh[i].refcnt # 1 => mrb_ary_decref(s.sh, i)[i].cells = s.sh[i].cells
    <2>1. CASE s.sh[i].refcnt = 1
      <3>1. mrb_ary_decref(s.sh, i) = [s.sh EXCEPT ![i] = Freed]
        BY <2>1 DEF mrb_ary_decref
      <3>2. Freed \in Buffer /\ Freed.refcnt = 0
        BY DEF Freed, Buffer
      <3>. QED BY <1>1, <1>2, <2>1, <3>1, <3>2
    <2>2. CASE s.sh[i].refcnt # 1
      <3>. DEFINE b == [s.sh[i] EXCEPT !.refcnt = s.sh[i].refcnt - 1]
      <3>1. mrb_ary_decref(s.sh, i) = [s.sh EXCEPT ![i] = b]
        BY <1>1, <1>2, <2>2 DEF mrb_ary_decref
      <3>2. b \in Buffer /\ b.refcnt = s.sh[i].refcnt - 1 /\ b.cells = s.sh[i].cells
        BY <1>1, <1>2, <1>4 DEF Buffer
      <3>. HIDE DEF b
      <3>. QED BY <1>1, <1>2, <3>1, <3>2
    <2>. QED BY <2>1, <2>2
  <1>6. t \in HeapType /\ t.ary = [s.ary EXCEPT ![a] = x] /\ t.sh = mrb_ary_decref(s.sh, i)
    BY <1>1, <1>5 DEF HeapType
  <1>7. ASSUME NEW j \in Slot
        PROVE  t.sh[j].refcnt = Cardinality(Holders(t.ary, j))
    <2>1. CASE j = i
      <3>1. Cardinality(Holders(t.ary, i)) = Cardinality(Holders(s.ary, i)) - 1
        BY <1>1, <1>2, <1>3, <1>6, HoldersChange
      <3>. QED BY <2>1, <3>1, <1>4, <1>5, <1>6
    <2>2. CASE j # i
      <3>1. Holders(t.ary, j) = Holders(s.ary, j)
        <4>1. ~Holds(x, j) /\ ~Holds(s.ary[a], j)
          BY <2>2, <1>2, <1>3
        <4>. QED BY <4>1, <1>1, <1>6, HoldersChange
      <3>. QED BY <2>2, <3>1, <1>5, <1>6 DEF Good
    <2>. QED BY <2>1, <2>2
  <1>8. ASSUME NEW j \in Slot, NEW b \in Arr \ {a}, Holds(s.ary[b], j)
        PROVE  t.sh[j].cells = s.sh[j].cells
    <2>1. CASE j = i
      <3>1. s.sh[i].refcnt # 1
        BY <1>2, <1>4, <1>8, <2>1, FewHolders
      <3>. QED BY <2>1, <3>1, <1>5, <1>6
    <2>2. CASE j # i
      BY <2>2, <1>5, <1>6
    <2>. QED BY <2>1, <2>2
  <1>9. x # Gone => Fits(t.sh, x) /\ Cells(t.sh, x) = x.cells
    BY Forms DEF Fits, Cells
  <1>. HIDE DEF t, i
  <1>10. Good(t) /\ View(t) = [View(s) EXCEPT ![a] = IF x = Gone THEN Gone ELSE Cells(t.sh, x)]
    BY <1>6, <1>7, <1>8, <1>9, Rewrite
  <1>. QED BY <1>9, <1>10 DEF t, i

\* What a live array shows.
LEMMA Shown ==
    ASSUME NEW s, Good(s), NEW a \in Arr, s.ary[a] # Gone
    PROVE  /\ View(s)[a] = Cells(s.sh, s.ary[a])
           /\ View(s)[a] \in Seq(Elem) /\ View(s)[a] # Gone
           /\ Len(View(s)[a]) = ARY_LEN(s.ary[a]) /\ Len(View(s)[a]) <= MaxSize
           /\ s.ary[a] \in Own => View(s)[a] = s.ary[a].cells
  <1>1. View(s)[a] = Cells(s.sh, s.ary[a]) /\ Fits(s.sh, s.ary[a])
    BY DEF View, Good
  <1>2. s.ary[a] \in Own \cup Window
    BY HeapParts DEF Good
  <1>3. CASE s.ary[a] \in Own
    BY <1>1, <1>3, Forms, ArrayAssumption DEF Cells, Fits
  <1>4. CASE s.ary[a] \in Window
    <2>. DEFINE x == s.ary[a]
                c == s.sh[x.sh].cells
    <2>1. /\ SharedP(x) /\ x.sh \in Slot /\ x.off \in Nat /\ x.len \in Nat /\ ARY_LEN(x) = x.len
          /\ x \notin Own
      BY <1>4, Forms
    <2>2. c \in Seq(Elem) /\ x.off + x.len <= Len(c) /\ x.len <= MaxSize
      BY <1>1, <2>1, HeapParts DEF Good, Fits
    <2>3. View(s)[a] = Win(c, x.off, x.len)
      BY <1>1, <2>1 DEF Cells, Win
    <2>. HIDE DEF c, x
    <2>4. View(s)[a] \in Seq(Elem) /\ Len(View(s)[a]) = x.len
      BY <2>1, <2>2, <2>3, Part
    <2>. QED BY <1>1, <2>1, <2>2, <2>4, ArrayAssumption DEF x
  <1>. QED BY <1>2, <1>3, <1>4

\* A view with one entry replaced by what it was.
LEMMA SameView ==
    ASSUME NEW s, NEW a \in Arr
    PROVE  [View(s) EXCEPT ![a] = View(s)[a]] = View(s)
    BY DEF View

\* ary_modify() makes an array its own, and nothing of it shows.
LEMMA Modify ==
    ASSUME NEW s, Good(s), NEW a \in Arr, s.ary[a] # Gone
    PROVE  LET t == ary_modify(s, a)
           IN  /\ Good(t) /\ View(t) = View(s)
               /\ t.ary[a] \in Own /\ t.ary[a] # Gone /\ t.ary[a].cells = View(s)[a]
               /\ \A b \in Arr : b # a => t.ary[b] = s.ary[b]
  <1>. DEFINE x == s.ary[a]
              t == ary_modify(s, a)
              own == Heap(Cells(s.sh, x), x.len)
  <1>1. s \in HeapType /\ s.ary[a] \in Own \cup Window
    BY HeapParts DEF Good
  <1>2. CASE x \in Own
    BY <1>2, Shown, Forms DEF ary_modify
  <1>3. CASE x \in Window
    <2>1. SharedP(x) /\ x.sh \in Slot /\ x.len \in Nat /\ ARY_LEN(x) = x.len
      BY <1>3, Forms
    <2>2. /\ Cells(s.sh, x) = View(s)[a] /\ View(s)[a] \in Seq(Elem)
          /\ Len(View(s)[a]) = x.len /\ x.len <= MaxSize
      BY <2>1, Shown
    <2>3. /\ own \in Own /\ own # Gone /\ own.cells = View(s)[a]
          /\ Len(own.cells) <= MaxSize /\ Len(own.cells) <= ARY_CAPA(own)
      BY <2>1, <2>2, OwnForms, Forms
    <2>4. Set(s, a, own) = [ary |-> [s.ary EXCEPT ![a] = own], sh |-> s.sh]
      BY <1>1, <2>3, SetHeap
    <2>5. t = [ary |-> [s.ary EXCEPT ![a] = own], sh |-> mrb_ary_decref(s.sh, x.sh)]
      BY <2>1, <2>4 DEF ary_modify, mrb_ary_decref
    <2>. HIDE DEF own, t
    <2>6. Good(t) /\ View(t) = [View(s) EXCEPT ![a] = own.cells]
      BY <1>3, <2>3, <2>5, DropRef
    <2>7. s.ary \in [Arr -> Own \cup Window \cup {Gone}]
      BY <1>1, HeapParts
    <2>. QED BY <2>3, <2>5, <2>6, <2>7, SameView DEF t
  <1>. QED BY <1>1, <1>2, <1>3

\* Non-empty sets of numbers have a least element.
LEMMA LeastNat ==
    ASSUME NEW S \in SUBSET Nat, S # {}
    PROVE  \E n \in S : \A m \in S : n <= m
  <1>1. PICK n \in S : \A m \in S : ~(<<m, n>> \in OpToRel(<, Nat))
    BY WFMin, NatLessThanWellFounded
  <1>2. \A m \in S : ~(m < n)
    BY <1>1 DEF OpToRel
  <1>. QED BY <1>2

\* There are as many buffers as arrays: while some array holds none, one is free.
LEMMA FreeSlot ==
    ASSUME NEW s, Good(s), NEW a \in Arr, \A i : ~Holds(s.ary[a], i)
    PROVE  \E i \in Slot : s.sh[i].refcnt = 0 /\ \A k \in 1 .. i - 1 : s.sh[k].refcnt > 0
  <1>. DEFINE free == {i \in Slot : s.sh[i].refcnt = 0}
  <1>0. Cardinality(Arr) \in Nat
    BY ArrayAssumption, FS_CardinalityType
  <1>1. \A i \in Slot : s.sh[i].refcnt \in Nat
    BY HeapParts DEF Good
  <1>2. ASSUME free = {}
        PROVE  FALSE
    <2>1. \A i \in Slot : \E b \in Arr \ {a} : Holds(s.ary[b], i)
      <3>. SUFFICES ASSUME NEW i \in Slot PROVE \E b \in Arr \ {a} : Holds(s.ary[b], i)
        OBVIOUS
      <3>1. Cardinality(Holders(s.ary, i)) # 0
        BY <1>2 DEF Good
      <3>2. Holders(s.ary, i) # {}
        BY <3>1, FS_EmptySet
      <3>. QED BY <3>2 DEF Holders
    <2>. DEFINE h == [i \in Slot |-> CHOOSE b \in Arr \ {a} : Holds(s.ary[b], i)]
    <2>2. \A i \in Slot : h[i] \in Arr \ {a} /\ Holds(s.ary[h[i]], i)
      BY <2>1
    <2>3. h \in [Slot -> Arr \ {a}]
      BY <2>2
    <2>4. \A i, j \in Slot : h[i] = h[j] => i = j
      BY <2>2 DEF Holds
    <2>5. /\ IsFiniteSet(Arr \ {a}) /\ Cardinality(Arr) # 0
          /\ Cardinality(Arr \ {a}) = Cardinality(Arr) - 1
      BY ArrayAssumption, FS_RemoveElement, FS_EmptySet
    <2>6. IsFiniteSet(Slot) /\ Cardinality(Slot) = Cardinality(Arr)
      BY <1>0, <2>5, FS_Interval DEF Slot
    <2>. HIDE DEF h
    <2>7. Cardinality(Arr \ {a}) < Cardinality(Slot)
      BY <1>0, <2>5, <2>6
    <2>. QED BY <2>3, <2>4, <2>5, <2>6, <2>7, FS_PigeonHole
  <1>. HIDE DEF free
  <1>2a. free \in SUBSET Nat /\ free # {}
    BY <1>2, Forms DEF free
  <1>3. PICK i \in free : \A k \in free : i <= k
    BY <1>2a, LeastNat
  <1>4. ASSUME NEW k \in 1 .. i - 1
        PROVE  s.sh[k].refcnt > 0
    <2>1. i \in Slot
      BY DEF free
    <2>2. k \in Slot /\ k < i /\ k \in Nat /\ i \in Nat
      BY <1>0, <2>1 DEF Slot
    <2>3. k \notin free
      BY <1>3, <2>2
    <2>. QED BY <1>1, <2>2, <2>3 DEF free
  <1>. QED BY <1>3, <1>4 DEF free

\* ary_make_shared() turns the buffer of an array into a shared one, and
\* nothing of it shows.
LEMMA MakeShared ==
    ASSUME NEW s, Good(s), NEW a \in Arr, s.ary[a] # Gone, s.ary[a].kind # "embed"
    PROVE  LET t == ary_make_shared(s, a)
           IN  /\ Good(t) /\ View(t) = View(s)
               /\ t.ary[a] \in Window /\ t.ary[a].len = Len(View(s)[a])
               /\ \A b \in Arr : b # a => t.ary[b] = s.ary[b]
  <1>. DEFINE x == s.ary[a]
              t == ary_make_shared(s, a)
              i == CHOOSE j \in DOMAIN s.sh : s.sh[j].refcnt = 0 /\ \A k \in 1 .. j - 1 : s.sh[k].refcnt > 0
              y == Shared(i, 0, Len(x.cells))
              b == [refcnt |-> 1, cells |-> x.cells]
  <1>1. s \in HeapType /\ s.ary[a] \in Own \cup Window /\ s.ary \in [Arr -> Own \cup Window \cup {Gone}]
    BY HeapParts DEF Good
  <1>2. CASE x \in Window
    <2>1. t = s /\ x.len = Len(View(s)[a])
      BY <1>2, Forms, Shown DEF ary_make_shared
    <2>. QED BY <1>2, <2>1
  <1>3. CASE x \in Own
    <2>1. x.kind = "heap" /\ x.cells = View(s)[a] /\ x.cells \in Seq(Elem) /\ Len(x.cells) <= MaxSize
      BY <1>3, Forms, Shown
    <2>2. \A j : ~Holds(x, j)
      BY <1>3, Forms DEF Holds
    <2>3. i \in Slot /\ s.sh[i].refcnt = 0
      <3>1. DOMAIN s.sh = Slot
        BY <1>1, HeapParts
      <3>. QED BY <2>2, <3>1, FreeSlot
    <2>. HIDE DEF i
    <2>4. y \in Window /\ y.sh = i /\ y.off = 0 /\ y.len = Len(x.cells) /\ y # Gone /\ SharedP(y)
      BY <2>1, <2>3, WindowForm, Forms
    <2>5. b \in Buffer /\ b.refcnt = 1 /\ b.cells = x.cells
      BY <2>1 DEF Buffer
    <2>6. t = [ary |-> [s.ary EXCEPT ![a] = y], sh |-> [s.sh EXCEPT ![i] = b]]
      <3>1. Set(s, a, y) = [ary |-> [s.ary EXCEPT ![a] = y], sh |-> s.sh]
        BY <1>1, <2>4, SetHeap
      <3>2. t = [Set(s, a, y) EXCEPT !.sh[i] = b]
        BY <2>1 DEF ary_make_shared, i
      <3>. HIDE DEF t, y, b
      <3>. QED BY <3>1, <3>2
    <2>. HIDE DEF t, y, b
    <2>7. t \in HeapType /\ t.ary = [s.ary EXCEPT ![a] = y]
      BY <1>1, <2>3, <2>4, <2>5, <2>6, HeapParts DEF HeapType
    <2>8. t.sh[i] = b /\ \A j \in Slot : j # i => t.sh[j] = s.sh[j]
      BY <1>1, <2>3, <2>6, HeapParts
    <2>9. Holds(y, i) /\ \A j : Holds(y, j) => j = i
      BY <2>4 DEF Holds
    <2>10. ASSUME NEW j \in Slot
           PROVE  t.sh[j].refcnt = Cardinality(Holders(t.ary, j))
      <3>1. CASE j = i
        <4>1. Cardinality(Holders(s.ary, i)) = 0
          BY <2>3 DEF Good
        <4>2. Cardinality(Holders(t.ary, i)) = Cardinality(Holders(s.ary, i)) + 1
          BY <1>1, <2>2, <2>7, <2>9, HoldersChange
        <4>. QED BY <3>1, <4>1, <4>2, <2>5, <2>8
      <3>2. CASE j # i
        <4>1. ~Holds(y, j) /\ ~Holds(x, j)
          BY <2>2, <2>9, <3>2
        <4>2. Holders(t.ary, j) = Holders(s.ary, j)
          BY <4>1, <1>1, <2>7, HoldersChange
        <4>. QED BY <3>2, <4>2, <2>8 DEF Good
      <3>. QED BY <3>1, <3>2
    <2>11. ASSUME NEW j \in Slot, NEW o \in Arr \ {a}, Holds(s.ary[o], j)
           PROVE  t.sh[j].cells = s.sh[j].cells
      <3>1. j # i
        BY <2>3, <2>11, FewHolders DEF Good
      <3>. QED BY <3>1, <2>8
    <2>12. Fits(t.sh, y) /\ Cells(t.sh, y) = x.cells
      <3>1. SubSeq(x.cells, 0 + 1, 0 + Len(x.cells)) = x.cells
        BY <2>1, SubSeqFull
      <3>. QED BY <2>1, <2>4, <2>5, <2>8, <3>1 DEF Fits, Cells, ARY_LEN
    <2>13. Good(t) /\ View(t) = [View(s) EXCEPT ![a] = x.cells]
      <3>1. y \in Own \cup Window \cup {Gone}
        BY <2>4
      <3>2. Good(t) /\ View(t) = [View(s) EXCEPT ![a] = IF y = Gone THEN Gone ELSE Cells(t.sh, y)]
        BY <2>7, <2>10, <2>11, <2>12, <3>1, Rewrite
      <3>. QED BY <3>2, <2>4, <2>12
    <2>. QED BY <1>1, <2>1, <2>4, <2>7, <2>13, SameView DEF t
  <1>. QED BY <1>1, <1>2, <1>3

\* Another array b becomes a holder of the buffer of a: it shows a part of a.
LEMMA Share ==
    ASSUME NEW s, Good(s), NEW a \in Arr, s.ary[a] \in Window,
           NEW b \in Arr, s.ary[b] \in Own \cup {Gone},
           NEW beg \in Nat, NEW len \in Nat
    PROVE  LET t == ShareWith(s, a, b, beg, len)
           IN  beg + len <= Len(View(s)[a]) =>
               /\ Good(t)
               /\ View(t) = [View(s) EXCEPT ![b] = Win(View(s)[a], beg, len)]
  <1>. DEFINE x == s.ary[a]
              i == x.sh
              t == ShareWith(s, a, b, beg, len)
              y == Shared(i, x.off + beg, len)
              buf == [s.sh[i] EXCEPT !.refcnt = s.sh[i].refcnt + 1]
  <1>0. SUFFICES ASSUME beg + len <= Len(View(s)[a])
                 PROVE  Good(t) /\ View(t) = [View(s) EXCEPT ![b] = Win(View(s)[a], beg, len)]
    OBVIOUS
  <1>1. s \in HeapType /\ s.ary \in [Arr -> Own \cup Window \cup {Gone}] /\ s.sh \in [Slot -> Buffer]
    BY HeapParts DEF Good
  <1>2. /\ i \in Slot /\ x.off \in Nat /\ x.len \in Nat /\ x # Gone /\ SharedP(x)
        /\ x.len = Len(View(s)[a]) /\ x.len <= MaxSize
    BY Forms, Shown
  <1>3. s.sh[i] \in Buffer /\ s.sh[i].refcnt \in Nat /\ s.sh[i].cells \in Seq(Elem)
    BY <1>1, <1>2, HeapParts
  <1>4. /\ y \in Window /\ y.sh = i /\ y.off = x.off + beg /\ y.len = len
        /\ y # Gone /\ SharedP(y) /\ ARY_LEN(y) = len
    <2>. DEFINE off == x.off + beg
    <2>1. off \in Nat /\ i \in Slot
      BY <1>2
    <2>. HIDE DEF off, i
    <2>2. y = Shared(i, off, len)
      BY DEF off
    <2>. HIDE DEF y
    <2>3. /\ y \in Window /\ y.sh = i /\ y.off = off /\ y.len = len
          /\ y # Gone /\ SharedP(y) /\ ARY_LEN(y) = len
      BY <2>1, <2>2, WindowForm
    <2>. QED BY <2>3 DEF off
  <1>5. buf \in Buffer /\ buf.refcnt = s.sh[i].refcnt + 1 /\ buf.cells = s.sh[i].cells
    BY <1>3 DEF Buffer
  <1>6. t = [ary |-> [s.ary EXCEPT ![b] = y], sh |-> [s.sh EXCEPT ![i] = buf]]
    <2>1. Set(s, b, y) = [ary |-> [s.ary EXCEPT ![b] = y], sh |-> s.sh]
      BY <1>1, <1>4, SetHeap
    <2>2. t = [Set(s, b, y) EXCEPT !.sh[i].refcnt = @ + 1]
      BY DEF ShareWith
    <2>. HIDE DEF t, y
    <2>. QED BY <2>1, <2>2
  <1>. HIDE DEF t, y, buf
  <1>7. t \in HeapType /\ t.ary = [s.ary EXCEPT ![b] = y]
    BY <1>1, <1>2, <1>4, <1>5, <1>6 DEF HeapType
  <1>8. t.sh[i] = buf /\ \A j \in Slot : j # i => t.sh[j] = s.sh[j]
    BY <1>1, <1>2, <1>6
  <1>9. /\ Holds(y, i) /\ \A j : Holds(y, j) => j = i
        /\ \A j : ~Holds(s.ary[b], j)
    BY <1>4, Forms DEF Holds
  <1>10. ASSUME NEW j \in Slot
         PROVE  t.sh[j].refcnt = Cardinality(Holders(t.ary, j))
    <2>1. CASE j = i
      <3>1. Cardinality(Holders(t.ary, i)) = Cardinality(Holders(s.ary, i)) + 1
        BY <1>1, <1>7, <1>9, HoldersChange
      <3>. QED BY <2>1, <3>1, <1>5, <1>8 DEF Good
    <2>2. CASE j # i
      <3>1. ~Holds(y, j) /\ ~Holds(s.ary[b], j)
        BY <1>9, <2>2
      <3>2. Holders(t.ary, j) = Holders(s.ary, j)
        BY <3>1, <1>1, <1>7, HoldersChange
      <3>. QED BY <2>2, <3>2, <1>8 DEF Good
    <2>. QED BY <2>1, <2>2
  <1>11. \A j \in Slot : t.sh[j].cells = s.sh[j].cells
    BY <1>5, <1>8
  <1>12. s.sh[i].refcnt > 0 /\ x.off + x.len <= Len(s.sh[i].cells)
    BY <1>2 DEF Good, Fits
  <1>. DEFINE c == s.sh[i].cells
  <1>13. View(s)[a] = Win(c, x.off, x.len)
    BY <1>2, Shown DEF Cells, Win
  <1>14. Cells(t.sh, y) = Win(c, y.off, len)
    BY <1>4, <1>11, <1>2 DEF Cells, Win
  <1>15. /\ x.off \in Nat /\ x.len \in Nat /\ x.len <= MaxSize /\ c \in Seq(Elem)
         /\ x.off + x.len <= Len(c) /\ beg + len <= x.len
         /\ y.off \in Nat /\ x.off + beg = y.off
    BY <1>0, <1>2, <1>3, <1>4, <1>12
  <1>. HIDE DEF x, i, c
  <1>16. y.off + len <= Len(c) /\ len <= x.len /\ Win(Win(c, x.off, x.len), beg, len) = Win(c, y.off, len)
    BY <1>15, PartOfPart
  <1>17. len <= MaxSize
    BY <1>15, <1>16, ArrayAssumption
  <1>18. Cells(t.sh, y) = Win(View(s)[a], beg, len)
    BY <1>13, <1>14, <1>16
  <1>19. Fits(t.sh, y)
    <2>1. t.sh[y.sh].cells = c /\ t.sh[y.sh].refcnt > 0
      BY <1>2, <1>3, <1>4, <1>5, <1>8 DEF c
    <2>. QED BY <1>4, <1>16, <1>17, <2>1 DEF Fits
  <1>20. Good(t) /\ View(t) = [View(s) EXCEPT ![b] = IF y = Gone THEN Gone ELSE Cells(t.sh, y)]
    <2>1. y \in Own \cup Window \cup {Gone}
      BY <1>4
    <2>2. ASSUME NEW j \in Slot, NEW o \in Arr \ {b}, Holds(s.ary[o], j)
          PROVE  t.sh[j].cells = s.sh[j].cells
      BY <1>11
    <2>3. \A j \in Slot, o \in Arr \ {b} : Holds(s.ary[o], j) => t.sh[j].cells = s.sh[j].cells
      BY <2>2
    <2>4. \A j \in Slot : t.sh[j].refcnt = Cardinality(Holders(t.ary, j))
      BY <1>10
    <2>. QED BY <1>7, <1>19, <2>1, <2>3, <2>4, Rewrite
  <1>. QED BY <1>4, <1>18, <1>20 DEF t

\* The first half of ary_replace(): the array is its own, and no other shows it.
LEMMA Release ==
    ASSUME NEW s, Good(s), NEW a \in Arr, s.ary[a] # Gone
    PROVE  LET t == Released(s, a)
           IN  /\ Good(t) /\ t.ary[a] \in Own
               /\ \A b \in Arr : b # a => t.ary[b] = s.ary[b] /\ View(t)[b] = View(s)[b]
  <1>. DEFINE x == s.ary[a]
              t == Released(s, a)
              own == Heap(<< >>, 0)
  <1>1. s \in HeapType /\ x \in Own \cup Window /\ s.ary \in [Arr -> Own \cup Window \cup {Gone}]
    BY HeapParts DEF Good
  <1>2. CASE x \in Own
    BY <1>2, Forms DEF Released
  <1>3. CASE x \in Window
    <2>1. SharedP(x) /\ x.sh \in Slot
      BY <1>3, Forms
    <2>2. own \in Own /\ own # Gone /\ Len(own.cells) <= MaxSize /\ Len(own.cells) <= ARY_CAPA(own)
      <3>1. << >> \in Seq(Elem) /\ 0 \in Nat /\ Len(<< >>) = 0 /\ 0 <= MaxSize /\ 0 <= 0
        BY ArrayAssumption
      <3>2. own \in Own /\ own.cells = << >> /\ ARY_CAPA(own) = 0
        BY <3>1, OwnForms
      <3>3. own # Gone
        BY <3>2, Forms
      <3>. QED BY <3>1, <3>2, <3>3
    <2>3. Set(s, a, own) = [ary |-> [s.ary EXCEPT ![a] = own], sh |-> s.sh]
      BY <1>1, <2>2, SetHeap
    <2>4. t = [ary |-> [s.ary EXCEPT ![a] = own], sh |-> mrb_ary_decref(s.sh, x.sh)]
      BY <2>1, <2>3 DEF Released
    <2>. HIDE DEF own, t
    <2>5. Good(t) /\ View(t) = [View(s) EXCEPT ![a] = own.cells]
      BY <1>3, <2>2, <2>4, DropRef
    <2>6. t.ary = [s.ary EXCEPT ![a] = own]
      BY <2>4
    <2>7. \A b \in Arr : b # a => View(t)[b] = View(s)[b]
      BY <2>5 DEF View
    <2>. QED BY <1>1, <2>2, <2>5, <2>6, <2>7 DEF t
  <1>. QED BY <1>1, <1>2, <1>3

\* The window of an array becomes a part of what it was.
LEMMA Narrow ==
    ASSUME NEW s, Good(s), NEW a \in Arr, s.ary[a] \in Window,
           NEW y \in Window, y.sh = s.ary[a].sh
    PROVE  LET n == y.off - s.ary[a].off
           IN  y.off >= s.ary[a].off /\ n + y.len <= s.ary[a].len =>
               /\ Good(Set(s, a, y))
               /\ View(Set(s, a, y)) = [View(s) EXCEPT ![a] = Win(View(s)[a], n, y.len)]
  <1>. DEFINE x == s.ary[a]
              i == x.sh
              n == y.off - x.off
              t == Set(s, a, y)
  <1>0. SUFFICES ASSUME y.off >= x.off, n + y.len <= x.len
                 PROVE  Good(t) /\ View(t) = [View(s) EXCEPT ![a] = Win(View(s)[a], n, y.len)]
    OBVIOUS
  <1>1. s \in HeapType /\ s.ary \in [Arr -> Own \cup Window \cup {Gone}] /\ s.sh \in [Slot -> Buffer]
    BY HeapParts DEF Good
  <1>2. /\ i \in Slot /\ x.off \in Nat /\ x.len \in Nat /\ x # Gone /\ SharedP(x)
        /\ x.len <= MaxSize /\ ARY_LEN(x) = x.len
        /\ y.off \in Nat /\ y.len \in Nat /\ y # Gone /\ SharedP(y) /\ ARY_LEN(y) = y.len
    BY Forms, Shown
  <1>3. s.sh[i].cells \in Seq(Elem) /\ Len(s.sh[i].cells) \in Nat
    BY <1>1, <1>2, HeapParts
  <1>4. t \in HeapType /\ t.ary = [s.ary EXCEPT ![a] = y]
    <2>1. y \in Own \cup Window \cup {Gone}
      OBVIOUS
    <2>2. t = [ary |-> [s.ary EXCEPT ![a] = y], sh |-> s.sh] /\ t \in HeapType
      BY <1>1, <2>1, SetHeap
    <2>. QED BY <2>2
  <1>5. t.sh = s.sh
    BY <1>1, SetHeap
  <1>6. \A j \in Slot : Holders(t.ary, j) = Holders(s.ary, j)
    <2>1. \A j : (Holds(y, j) /\ Holds(x, j)) \/ (~Holds(y, j) /\ ~Holds(x, j))
      BY <1>2 DEF Holds
    <2>. HIDE DEF x, t
    <2>2. ASSUME NEW j \in Slot PROVE Holders(t.ary, j) = Holders(s.ary, j)
      <3>1. CASE Holds(y, j) /\ Holds(x, j)
        BY <1>1, <1>4, <3>1, HoldersChange DEF x
      <3>2. CASE ~Holds(y, j) /\ ~Holds(x, j)
        BY <1>1, <1>4, <3>2, HoldersChange DEF x
      <3>. QED BY <2>1, <3>1, <3>2
    <2>. QED BY <2>2
  <1>7. s.sh[i].refcnt > 0 /\ x.off + x.len <= Len(s.sh[i].cells)
    BY <1>2 DEF Good, Fits
  <1>. DEFINE c == s.sh[i].cells
  <1>8. /\ View(s)[a] = Win(c, x.off, x.len)
        /\ Cells(t.sh, y) = Win(c, y.off, y.len)
    BY <1>2, <1>3, <1>5, Shown DEF Cells, Win
  <1>9. /\ n \in Nat /\ n + y.len <= x.len /\ y.off \in Nat /\ x.off + n = y.off
        /\ x.off \in Nat /\ x.len \in Nat /\ y.len \in Nat /\ c \in Seq(Elem)
        /\ x.off + x.len <= Len(c) /\ x.len <= MaxSize
    BY <1>0, <1>2, <1>3, <1>7
  <1>. HIDE DEF n, t, c, x, i
  <1>10. y.off + y.len <= Len(c) /\ y.len <= x.len /\ Win(Win(c, x.off, x.len), n, y.len) = Win(c, y.off, y.len)
    BY <1>9, PartOfPart
  <1>11. y.len <= MaxSize
    BY SMTT(30), <1>9, <1>10, ArrayAssumption
  <1>12. Fits(t.sh, y)
    <2>1. y.sh = i /\ t.sh[y.sh].refcnt > 0 /\ t.sh[y.sh].cells = c
      BY <1>5, <1>7 DEF c, i, x
    <2>. QED BY <1>2, <1>10, <1>11, <2>1 DEF Fits
  <1>13. Cells(t.sh, y) = Win(View(s)[a], n, y.len)
    BY <1>8, <1>10
  <1>14. Good(t) /\ View(t) = [View(s) EXCEPT ![a] = IF y = Gone THEN Gone ELSE Cells(t.sh, y)]
    <2>1. y \in Own \cup Window \cup {Gone}
      OBVIOUS
    <2>2. ASSUME NEW j \in Slot, NEW o \in Arr \ {a}, Holds(s.ary[o], j)
          PROVE  t.sh[j].cells = s.sh[j].cells
      BY <1>5
    <2>3. \A j \in Slot : t.sh[j].refcnt = Cardinality(Holders(t.ary, j))
      BY <1>5, <1>6 DEF Good
    <2>. QED BY <1>4, <1>12, <2>1, <2>2, <2>3, Rewrite
  <1>. QED BY <1>2, <1>13, <1>14

\* The only holder of a buffer writes into the room before its window.
LEMMA Widen ==
    ASSUME NEW s, Good(s), NEW a \in Arr, s.ary[a] \in Window, NEW v \in Elem
    PROVE  LET x == s.ary[a]
               t == [Set(s, a, [x EXCEPT !.off = x.off - 1, !.len = x.len + 1])
                        EXCEPT !.sh[x.sh].cells[x.off] = v]
           IN  s.sh[x.sh].refcnt = 1 /\ x.off >= 1 /\ x.len < MaxSize =>
                   Good(t) /\ View(t) = [View(s) EXCEPT ![a] = <<v>> \o View(s)[a]]
  <1>. DEFINE x == s.ary[a]
              i == x.sh
              c == s.sh[i].cells
              y == [x EXCEPT !.off = x.off - 1, !.len = x.len + 1]
              d == [c EXCEPT ![x.off] = v]
              buf == [s.sh[i] EXCEPT !.cells = d]
              t == [Set(s, a, y) EXCEPT !.sh[i].cells[x.off] = v]
  <1>0. SUFFICES ASSUME s.sh[x.sh].refcnt = 1, x.off >= 1, x.len < MaxSize
                 PROVE  Good(t) /\ View(t) = [View(s) EXCEPT ![a] = <<v>> \o View(s)[a]]
    OBVIOUS
  <1>1. s \in HeapType /\ s.ary \in [Arr -> Own \cup Window \cup {Gone}] /\ s.sh \in [Slot -> Buffer]
    BY HeapParts DEF Good
  <1>2. /\ i \in Slot /\ x.off \in Nat /\ x.len \in Nat /\ x # Gone /\ SharedP(x) /\ x \in Window
        /\ s.sh[i] \in Buffer /\ c \in Seq(Elem) /\ Len(c) \in Nat
    BY <1>1, Forms, HeapParts
  <1>3. s.sh[i].refcnt = 1 /\ x.off + x.len <= Len(c) /\ x.off \in 1 .. Len(c)
    <2>1. x.off + x.len <= Len(c)
      BY <1>2 DEF Good, Fits
    <2>. DEFINE o == x.off
                n == x.len
                L == Len(c)
    <2>2. o \in Nat /\ n \in Nat /\ L \in Nat /\ o >= 1 /\ o + n <= L
      BY <1>0, <1>2, <2>1
    <2>. HIDE DEF o, n, L
    <2>3. o \in 1 .. L
      BY <2>2
    <2>. QED BY <1>0, <2>1, <2>3 DEF o, L
  <1>4. /\ y \in Window /\ y.sh = i /\ y.off = x.off - 1 /\ y.len = x.len + 1
        /\ y # Gone /\ SharedP(y) /\ ARY_LEN(y) = x.len + 1
    <2>. DEFINE off == x.off - 1
                len == x.len + 1
    <2>1. off \in Nat /\ len \in Nat
      BY <1>0, <1>2
    <2>. HIDE DEF off, len, x
    <2>2. y = [x EXCEPT !.off = off, !.len = len]
      BY DEF off, len
    <2>. HIDE DEF y
    <2>3. y \in Window /\ y.sh = x.sh /\ y.off = off /\ y.len = len
      <3>1. x \in Window
        BY <1>2
      <3>. QED BY <2>1, <2>2, <3>1 DEF Window
    <2>4. y # Gone /\ SharedP(y) /\ ARY_LEN(y) = len
      BY <2>3, Forms
    <2>. QED BY <2>3, <2>4 DEF off, len
  <1>5. /\ d \in Seq(Elem) /\ Len(d) = Len(c) /\ d[x.off] = v
        /\ \A k \in 1 .. Len(c) : k # x.off => d[k] = c[k]
    <2>. HIDE DEF c, x
    <2>. QED BY <1>2, <1>3, ExceptSeq DEF d
  <1>6. buf \in Buffer /\ buf.refcnt = 1 /\ buf.cells = d
    BY <1>2, <1>3, <1>5 DEF Buffer
  <1>7. t = [ary |-> [s.ary EXCEPT ![a] = y], sh |-> [s.sh EXCEPT ![i] = buf]]
    <2>1. y \in Own \cup Window \cup {Gone}
      BY <1>4
    <2>. HIDE DEF y
    <2>2. Set(s, a, y) = [ary |-> [s.ary EXCEPT ![a] = y], sh |-> s.sh]
      BY <1>1, <2>1, SetHeap
    <2>. QED BY <2>2
  <1>. HIDE DEF t, y, buf, d
  <1>8. t \in HeapType /\ t.ary = [s.ary EXCEPT ![a] = y]
    BY <1>1, <1>2, <1>4, <1>6, <1>7 DEF HeapType
  <1>9. t.sh[i] = buf /\ \A j \in Slot : j # i => t.sh[j] = s.sh[j]
    BY <1>1, <1>2, <1>7
  <1>10. \A j \in Slot : Holders(t.ary, j) = Holders(s.ary, j)
    <2>1. \A j : (Holds(y, j) /\ Holds(x, j)) \/ (~Holds(y, j) /\ ~Holds(x, j))
      BY <1>2, <1>4 DEF Holds
    <2>. HIDE DEF x
    <2>2. ASSUME NEW j \in Slot PROVE Holders(t.ary, j) = Holders(s.ary, j)
      <3>1. CASE Holds(y, j) /\ Holds(x, j)
        BY <1>1, <1>8, <3>1, HoldersChange DEF x
      <3>2. CASE ~Holds(y, j) /\ ~Holds(x, j)
        BY <1>1, <1>8, <3>2, HoldersChange DEF x
      <3>. QED BY <2>1, <3>1, <3>2
    <2>. QED BY <2>2
  <1>11. \A j \in Slot : t.sh[j].refcnt = Cardinality(Holders(t.ary, j))
    BY <1>3, <1>6, <1>9, <1>10 DEF Good
  <1>12. ASSUME NEW j \in Slot, NEW o \in Arr \ {a}, Holds(s.ary[o], j)
         PROVE  t.sh[j].cells = s.sh[j].cells
    <2>1. Holds(s.ary[a], i)
      BY <1>2 DEF Holds
    <2>2. j # i
      BY <1>2, <1>3, <1>12, <2>1, FewHolders DEF Good
    <2>. QED BY <1>9, <2>2
  <1>13. View(s)[a] = Win(c, x.off, x.len)
    BY <1>2, Shown DEF Cells, Win
  <1>14. Cells(t.sh, y) = Win(d, y.off, y.len)
    BY <1>4, <1>6, <1>9 DEF Cells, Win
  <1>. HIDE DEF x, i, c
  <1>15. Cells(t.sh, y) = <<v>> \o View(s)[a]
    <2>. DEFINE w == Win(c, x.off, x.len)
                l == Win(d, y.off, y.len)
                r == <<v>> \o w
    <2>1. w \in Seq(Elem) /\ Len(w) = x.len /\ \A k \in 1 .. x.len : w[k] = c[x.off + k]
      <3>1. c \in Seq(Elem) /\ x.off \in Nat /\ x.len \in Nat /\ x.off + x.len <= Len(c)
        BY <1>2, <1>3
      <3>. QED BY ZenonT(60), <3>1, Part
    <2>2. l \in Seq(Elem) /\ Len(l) = y.len /\ \A k \in 1 .. y.len : l[k] = d[y.off + k]
      <3>1. d \in Seq(Elem) /\ y.off \in Nat /\ y.len \in Nat /\ y.off + y.len <= Len(d)
        BY <1>0, <1>2, <1>3, <1>4, <1>5
      <3>. QED BY ZenonT(60), <3>1, Part
    <2>. HIDE DEF w, l
    <2>3. /\ r \in Seq(Elem) /\ Len(r) = x.len + 1 /\ r[1] = v
          /\ \A k \in 2 .. x.len + 1 : r[k] = w[k - 1]
      BY <1>2, <2>1
    <2>. HIDE DEF r
    <2>4. ASSUME NEW k \in 1 .. Len(l) PROVE l[k] = r[k]
      <3>1. k \in 1 .. y.len /\ k \in 1 .. x.len + 1 /\ l[k] = d[y.off + k]
        BY <1>4, <2>2
      <3>2. CASE k = 1
        <4>1. y.off + k = x.off
          BY <1>2, <1>4, <3>2
        <4>. QED BY <1>5, <2>3, <3>1, <3>2, <4>1
      <3>3. CASE k # 1
        <4>1. /\ y.off + k = x.off + (k - 1) /\ k \in 2 .. x.len + 1 /\ k - 1 \in 1 .. x.len
              /\ y.off + k \in 1 .. Len(c) /\ y.off + k # x.off
          <5>. DEFINE o == x.off
                      n == x.len
                      L == Len(c)
          <5>1. /\ o \in Nat /\ n \in Nat /\ L \in Nat /\ o >= 1 /\ o + n <= L
                /\ y.off = o - 1 /\ k \in 1 .. n + 1
            BY <1>0, <1>2, <1>3, <1>4, <3>1
          <5>. HIDE DEF o, n, L
          <5>2. /\ y.off + k = o + (k - 1) /\ k \in 2 .. n + 1 /\ k - 1 \in 1 .. n
                /\ y.off + k \in 1 .. L /\ y.off + k # o
            BY <3>3, <5>1
          <5>. QED BY <5>2 DEF o, n, L
        <4>2. w[k - 1] = c[x.off + (k - 1)] /\ r[k] = w[k - 1]
          BY <2>1, <2>3, <4>1
        <4>3. d[y.off + k] = c[y.off + k]
          BY <1>5, <4>1
        <4>. QED BY <3>1, <4>1, <4>2, <4>3
      <3>. QED BY <3>2, <3>3
    <2>5. Len(l) = Len(r)
      BY <1>4, <2>2, <2>3
    <2>6. l = r
      BY <2>2, <2>3, <2>4, <2>5, SeqEqual
    <2>. QED BY <1>13, <1>14, <2>6 DEF l, r, w
  <1>16. Fits(t.sh, y)
    <2>1. y.sh = i /\ t.sh[y.sh].refcnt > 0 /\ t.sh[y.sh].cells = d
      BY <1>4, <1>6, <1>9
    <2>2. x.len + 1 <= MaxSize /\ y.off + y.len <= Len(d)
      BY SMTT(30), <1>0, <1>2, <1>3, <1>4, <1>5, ArrayAssumption
    <2>. QED BY <1>4, <2>1, <2>2 DEF Fits
  <1>17. Good(t) /\ View(t) = [View(s) EXCEPT ![a] = IF y = Gone THEN Gone ELSE Cells(t.sh, y)]
    <2>1. y \in Own \cup Window \cup {Gone}
      BY <1>4
    <2>. QED BY <1>8, <1>11, <1>12, <1>16, <2>1, Rewrite
  <1>. QED BY <1>4, <1>15, <1>17

-----------------------------------------------------------------------------
(* Growing and shrinking.                                                  *)

\* Non-empty bounded sets of numbers have a largest element.
LEMMA MaxNat ==
    ASSUME NEW n \in Nat, NEW S \in SUBSET (0 .. n), S # {}
    PROVE  Max(S) \in S
  <1>. DEFINE T == {m \in 0 .. n : n - m \in S}
  <1>1. T \in SUBSET Nat /\ T # {}
    <2>1. PICK k \in S : TRUE
      OBVIOUS
    <2>2. n - k \in 0 .. n /\ n - (n - k) = k
      OBVIOUS
    <2>3. n - k \in T
      BY <2>2
    <2>4. T \subseteq Nat
      OBVIOUS
    <2>. HIDE DEF T
    <2>. QED BY <2>3, <2>4
  <1>2. PICK m \in T : \A k \in T : m <= k
    BY <1>1, LeastNat
  <1>3. \A y \in S : n - m >= y
    <2>. SUFFICES ASSUME NEW y \in S PROVE n - m >= y
      OBVIOUS
    <2>1. n - y \in 0 .. n /\ n - (n - y) = y
      OBVIOUS
    <2>2. n - y \in T
      BY <2>1
    <2>3. m <= n - y /\ m \in 0 .. n /\ y \in 0 .. n
      BY <1>2, <2>2
    <2>. QED BY <2>3
  <1>4. n - m \in S
    OBVIOUS
  <1>. QED BY <1>3, <1>4 DEF Max

\* ary_expand_capa() makes room for len.
LEMMA ExpandHolds ==
    ASSUME NEW capa \in Nat, NEW len \in Nat
    PROVE  ary_expand_capa(capa, len) \in Nat /\ len <= ary_expand_capa(capa, len)
  <1>. DEFINE from == IF capa < DefaultLen THEN DefaultLen ELSE capa
              Doubles(n) == from * 2 ^ n < len /\ from * 2 ^ n <= MaxSize \div 2
              S == {n \in 0 .. len : \A m \in 0 .. n - 1 : Doubles(m)}
              last == from * 2 ^ Max(S)
  <1>1. ary_expand_capa(capa, len) = IF last < len THEN len ELSE last
    BY DEF ary_expand_capa
  <1>2. from \in Nat
    BY ArrayAssumption
  <1>. HIDE DEF from, Doubles
  <1>3. S \in SUBSET (0 .. len) /\ 0 \in S
    OBVIOUS
  <1>4. Max(S) \in Nat
    <2>. HIDE DEF S
    <2>1. S # {}
      BY <1>3
    <2>2. Max(S) \in S
      BY <1>3, <2>1, MaxNat
    <2>3. S \subseteq 0 .. len /\ 0 .. len \subseteq Nat
      BY <1>3
    <2>4. Max(S) \in 0 .. len
      BY <2>2, <2>3, Zenon
    <2>. QED BY <2>3, <2>4, Zenon
  <1>. HIDE DEF S
  <1>5. last \in Int
    BY <1>2, <1>4
  <1>. HIDE DEF last
  <1>. QED BY <1>1, <1>5

\* Elements stored in an array of its own: it has room for them.
LEMMA StoreFits ==
    ASSUME NEW x \in Own, NEW c \in Seq(Elem)
    PROVE  Store(x, c) \in Own /\ Store(x, c).cells = c /\ Len(c) <= ARY_CAPA(Store(x, c))
  <1>1. Len(c) \in Nat /\ ARY_CAPA(x) \in Nat
    BY Forms
  <1>2. CASE Len(c) <= ARY_CAPA(x)
    BY <1>2, CellsExcept DEF Store
  <1>3. CASE ~(Len(c) <= ARY_CAPA(x))
    <2>. DEFINE n == ary_expand_capa(ARY_CAPA(x), Len(c))
    <2>1. n \in Nat /\ Len(c) <= n
      BY <1>1, ExpandHolds
    <2>2. Store(x, c) = Heap(c, n)
      BY <1>3 DEF Store
    <2>. HIDE DEF n
    <2>. QED BY <2>1, <2>2, OwnForms
  <1>. QED BY <1>2, <1>3

\* ary_shrink_capa() never cuts off an element.
LEMMA ShrinkFits ==
    ASSUME NEW x \in Own, Len(x.cells) <= ARY_CAPA(x)
    PROVE  /\ ary_shrink_capa(x) \in Own /\ ary_shrink_capa(x).cells = x.cells
           /\ Len(x.cells) <= ARY_CAPA(ary_shrink_capa(x))
  <1>1. CASE ary_shrink_capa(x) = x
    BY <1>1
  <1>2. CASE ary_shrink_capa(x) # x
    <2>1. x.kind # "embed" /\ \E capa \in Len(x.cells) + 1 .. x.capa - 1 : ary_shrink_capa(x) = [x EXCEPT !.capa = capa]
      BY <1>2 DEF ary_shrink_capa
    <2>2. x \in [kind : {"heap"}, cells : Seq(Elem), capa : Nat]
      BY <2>1 DEF Own
    <2>3. PICK capa \in Len(x.cells) + 1 .. x.capa - 1 : ary_shrink_capa(x) = [x EXCEPT !.capa = capa]
      BY <2>1
    <2>4. capa \in Nat /\ Len(x.cells) <= capa
      BY <2>2
    <2>. DEFINE y == [x EXCEPT !.capa = capa]
    <2>5. y \in Own /\ y.cells = x.cells /\ y.kind = "heap" /\ y.capa = capa
      BY <2>2, <2>4 DEF Own
    <2>. QED BY <2>3, <2>4, <2>5 DEF ARY_CAPA
  <1>. QED BY <1>1, <1>2

\* A new array has room for its elements.
LEMMA NewFits ==
    ASSUME NEW c \in Seq(Elem)
    PROVE  LET x == ary_new_from_values(c)
           IN  x \in Own /\ x.cells = c /\ Len(c) <= ARY_CAPA(x)
  <1>1. Len(c) \in Nat
    OBVIOUS
  <1>. QED BY <1>1, OwnForms DEF ary_new_from_values

\* Elements an array can have, and a structure of its own that has room for its
\* elements
Short(c) == c \in Seq(Elem) /\ Len(c) <= MaxSize
Roomy(x) == x \in Own /\ Short(x.cells) /\ Len(x.cells) <= ARY_CAPA(x)

\* a holds no buffer; a good heap t shows v for a, and what s shows otherwise
Unshared(s, a) == s.ary[a] \in Own \cup {Gone}
Becomes(s, t, a, v) == Good(t) /\ View(t) = [View(s) EXCEPT ![a] = v]

\* An array of its own, or none yet, gets another structure of its own.
LEMMA PutOwn ==
    ASSUME NEW s, Good(s), NEW a \in Arr, Unshared(s, a), NEW x, Roomy(x)
    PROVE  Becomes(s, Set(s, a, x), a, x.cells)
  <1>1. /\ x \in Own \cup {Gone} /\ x # Gone /\ Len(x.cells) <= MaxSize /\ Len(x.cells) <= ARY_CAPA(x)
        /\ s.ary[a] \in Own \cup {Gone}
    BY Forms DEF Roomy, Short, Unshared
  <1>2. /\ Good(Set(s, a, x)) /\ Set(s, a, x).ary = [s.ary EXCEPT ![a] = x]
        /\ View(Set(s, a, x)) = [View(s) EXCEPT ![a] = IF x = Gone THEN Gone ELSE x.cells]
    BY <1>1, SetOwn
  <1>. QED BY <1>1, <1>2 DEF Becomes

\* An array of its own gets the elements c.
LEMMA PutStore ==
    ASSUME NEW s, Good(s), NEW a \in Arr, s.ary[a] \in Own, NEW c, Short(c)
    PROVE  Becomes(s, Set(s, a, Store(s.ary[a], c)), a, c)
  <1>. DEFINE x == Store(s.ary[a], c)
  <1>1. x.cells = c /\ Roomy(x) /\ Unshared(s, a)
    BY StoreFits DEF Short, Roomy, Unshared
  <1>. HIDE DEF x
  <1>2. Becomes(s, Set(s, a, x), a, x.cells)
    BY <1>1, PutOwn
  <1>. QED BY <1>1, <1>2 DEF x

\* An array that is not there is made with the elements c.
LEMMA PutNew ==
    ASSUME NEW s, Good(s), NEW a \in Arr, Unshared(s, a), NEW c, Short(c)
    PROVE  Becomes(s, Set(s, a, ary_new_from_values(c)), a, c)
  <1>. DEFINE x == ary_new_from_values(c)
  <1>1. x.cells = c /\ Roomy(x)
    BY NewFits DEF Short, Roomy
  <1>. HIDE DEF x
  <1>2. Becomes(s, Set(s, a, x), a, x.cells)
    BY <1>1, PutOwn
  <1>. QED BY <1>1, <1>2 DEF x

\* An array too long for its structure has a buffer.
LEMMA NotEmbedded ==
    ASSUME NEW s, Good(s), NEW a \in Arr, s.ary[a] # Gone,
           SharedP(s.ary[a]) \/ Len(View(s)[a]) > EmbedMax
    PROVE  s.ary[a].kind # "embed"
  <1>1. s.ary[a] \in Own \cup Window /\ Fits(s.sh, s.ary[a])
    BY HeapParts DEF Good
  <1>2. CASE s.ary[a] \in Window
    BY <1>2, Forms
  <1>3. CASE s.ary[a] \in Own
    <2>1. ~SharedP(s.ary[a]) /\ View(s)[a] = s.ary[a].cells /\ Len(s.ary[a].cells) \in Nat
      BY <1>3, Forms, Shown
    <2>2. Len(s.ary[a].cells) <= ARY_CAPA(s.ary[a])
      BY <1>1, <2>1 DEF Fits
    <2>. QED BY <2>1, <2>2, ArrayAssumption DEF ARY_CAPA
  <1>. QED BY <1>1, <1>2, <1>3

\* ary_replace() gives a the elements of b.
LEMMA Replace ==
    ASSUME NEW s, Good(s), NEW a \in Arr, s.ary[a] # Gone, NEW b \in Arr, s.ary[b] # Gone
    PROVE  LET t == ary_replace(s, a, b)
           IN  Becomes(s, t, a, View(s)[b])
  <1>. DEFINE t == Released(s, a)
              u == ary_make_shared(t, b)
              c == Cells(t.sh, t.ary[b])
              V == View(s)[b]
  <1>1. CASE a = b
    BY <1>1, SameView DEF ary_replace, Becomes
  <1>2. CASE a # b
    <2>1. /\ Good(t) /\ t.ary[a] \in Own /\ t.ary[b] = s.ary[b]
          /\ \A o \in Arr : o # a => View(t)[o] = View(s)[o]
      BY <1>2, Release
    <2>2. /\ c = V /\ V = View(t)[b] /\ V \in Seq(Elem) /\ Len(V) <= MaxSize
          /\ Len(V) \in Nat
      BY <1>2, <2>1, Shown
    <2>3. [View(t) EXCEPT ![a] = V] = [View(s) EXCEPT ![a] = V]
      BY <2>1 DEF View
    <2>4. CASE SharedP(t.ary[b]) \/ Len(c) > ReplaceSharedMin
      <3>1. ary_replace(s, a, b) = ShareWith(u, b, a, 0, Len(V))
        BY <1>2, <2>2, <2>4 DEF ary_replace
      <3>2. SharedP(t.ary[b]) \/ Len(View(t)[b]) > EmbedMax
        BY <2>2, <2>4, ArrayAssumption
      <3>. HIDE DEF t
      <3>3. t.ary[b] # Gone /\ t.ary[b].kind # "embed"
        BY <2>1, <3>2, NotEmbedded
      <3>4. /\ Good(u) /\ View(u) = View(t) /\ u.ary[b] \in Window
            /\ \A o \in Arr : o # b => u.ary[o] = t.ary[o]
        BY <2>1, <3>3, MakeShared
      <3>. HIDE DEF u, V, c
      <3>5. u.ary[a] \in Own \cup {Gone} /\ View(u)[b] = V
        BY <1>2, <2>1, <2>2, <3>4
      <3>6. 0 \in Nat /\ 0 + Len(V) <= Len(View(u)[b])
        BY <2>2, <3>5
      <3>7. LET r == ShareWith(u, b, a, 0, Len(V))
            IN  Good(r) /\ View(r) = [View(u) EXCEPT ![a] = Win(View(u)[b], 0, Len(V))]
        BY <2>2, <3>4, <3>5, <3>6, Share
      <3>8. Win(V, 0, Len(V)) = V
        BY <2>2, SubSeqFull DEF Win
      <3>. QED BY <2>3, <3>1, <3>4, <3>5, <3>7, <3>8 DEF V, Becomes
    <2>5. CASE ~(SharedP(t.ary[b]) \/ Len(c) > ReplaceSharedMin)
      <3>1. ary_replace(s, a, b) = Set(t, a, Store(t.ary[a], V))
        BY <1>2, <2>2, <2>5 DEF ary_replace
      <3>. HIDE DEF t, V
      <3>2. Becomes(t, Set(t, a, Store(t.ary[a], V)), a, V)
        BY <2>1, <2>2, PutStore DEF Short
      <3>. QED BY <2>3, <3>1, <3>2 DEF V, Becomes
    <2>. QED BY <2>4, <2>5
  <1>. QED BY <1>1, <1>2

\* ary_subseq() makes b of a part of a.
LEMMA Slice ==
    ASSUME NEW s, Good(s), NEW a \in Arr, s.ary[a] # Gone, NEW b \in Arr, s.ary[b] = Gone,
           NEW beg \in Nat, NEW len \in Nat
    PROVE  LET t == ary_subseq(s, a, b, beg, len)
           IN  beg + len <= Len(View(s)[a]) => Becomes(s, t, b, Win(View(s)[a], beg, len))
  <1>. DEFINE V == View(s)[a]
              u == ary_make_shared(s, a)
              w == Win(V, beg, len)
              t == ary_subseq(s, a, b, beg, len)
  <1>0. SUFFICES ASSUME beg + len <= Len(V)
                 PROVE  Becomes(s, t, b, w)
    OBVIOUS
  <1>1. V \in Seq(Elem) /\ Len(V) <= MaxSize /\ Len(V) \in Nat /\ a # b /\ s.ary[a] \in Own \cup Window
    BY Shown, HeapParts DEF Good
  <1>2. w \in Seq(Elem) /\ Len(w) = len /\ len <= MaxSize
    <2>1. V \in Seq(Elem) /\ Len(V) \in Nat /\ Len(V) <= MaxSize
      BY <1>1
    <2>. HIDE DEF V
    <2>2. w \in Seq(Elem) /\ Len(w) = len
      BY <1>0, <2>1, Part
    <2>. QED BY <1>0, <2>1, <2>2, ArrayAssumption
  <1>3. CASE ~SharedP(s.ary[a]) /\ len <= ShiftSharedMin
    <2>1. s.ary[a].cells = V
      BY <1>1, <1>3, Forms, Shown
    <2>2. t = Set(s, b, ary_new_from_values(w))
      BY <1>3, <2>1 DEF ary_subseq, Win
    <2>. HIDE DEF t, w
    <2>3. Short(w) /\ Unshared(s, b)
      BY <1>2 DEF Short, Unshared
    <2>. QED BY <2>2, <2>3, PutNew
  <1>4. CASE ~(~SharedP(s.ary[a]) /\ len <= ShiftSharedMin)
    <2>1. t = ShareWith(u, a, b, beg, len)
      BY <1>4 DEF ary_subseq
    <2>. HIDE DEF t
    <2>2. SharedP(s.ary[a]) \/ Len(V) > EmbedMax
      <3>. HIDE DEF V
      <3>. QED BY <1>0, <1>1, <1>4, ArrayAssumption
    <2>3. s.ary[a].kind # "embed"
      BY <2>2, NotEmbedded
    <2>4. /\ Good(u) /\ View(u) = View(s) /\ u.ary[a] \in Window /\ u.ary[b] = Gone
      BY <1>1, <2>3, MakeShared
    <2>. HIDE DEF u
    <2>5. u.ary[b] \in Own \cup {Gone} /\ beg + len <= Len(View(u)[a])
      BY <1>0, <2>4
    <2>6. LET r == ShareWith(u, a, b, beg, len)
          IN  Good(r) /\ View(r) = [View(u) EXCEPT ![b] = Win(View(u)[a], beg, len)]
      BY <2>4, <2>5, Share
    <2>. QED BY <2>1, <2>4, <2>6 DEF Becomes
  <1>. QED BY <1>3, <1>4

\* shift leaves the rest of a.
LEMMA Shift ==
    ASSUME NEW s, Good(s), NEW a \in Arr, s.ary[a] # Gone, NEW n \in Nat
    PROVE  LET t == Shifted(s, a, n)
               V == View(s)[a]
           IN  n <= Len(V) => Becomes(s, t, a, Win(V, n, Len(V) - n))
  <1>. DEFINE V == View(s)[a]
              x == s.ary[a]
              u == ary_make_shared(s, a)
              rest == Len(V) - n
              w == Win(V, n, rest)
              t == Shifted(s, a, n)
  <1>0. SUFFICES ASSUME n <= Len(V)
                 PROVE  Becomes(s, t, a, w)
    OBVIOUS
  <1>1. V \in Seq(Elem) /\ Len(V) <= MaxSize /\ Len(V) \in Nat /\ x \in Own \cup Window
    BY Shown, HeapParts DEF Good
  <1>2. rest \in Nat /\ n + rest = Len(V) /\ rest <= MaxSize
    <2>. HIDE DEF V
    <2>. QED BY <1>0, <1>1, ArrayAssumption
  <1>. HIDE DEF rest
  <1>3. w \in Seq(Elem) /\ Len(w) = rest
    <2>1. V \in Seq(Elem) /\ n + rest <= Len(V)
      BY <1>1, <1>2
    <2>. HIDE DEF V
    <2>. QED BY <1>2, <2>1, Part
  <1>4. CASE SharedP(x) \/ Len(x.cells) > ShiftSharedMin
    <2>1. SharedP(x) \/ Len(V) > EmbedMax
      <3>1. CASE x \in Own
        BY <1>4, <3>1, Forms, Shown, ArrayAssumption
      <3>2. CASE x \in Window
        BY <3>2, Forms
      <3>. QED BY <1>1, <3>1, <3>2
    <2>2. x.kind # "embed"
      BY <2>1, NotEmbedded
    <2>3. /\ Good(u) /\ View(u) = View(s) /\ u.ary[a] \in Window /\ u.ary[a].len = Len(V)
          /\ u \in HeapType
      BY <2>2, MakeShared DEF Good
    <2>. DEFINE z == u.ary[a]
                y == [z EXCEPT !.off = z.off + n, !.len = z.len - n]
    <2>4. t = Set(u, a, y)
      BY <1>4 DEF Shifted
    <2>. HIDE DEF t, u, w
    <2>5. z \in Window /\ z.off \in Nat /\ z.len = Len(V)
      BY <2>3, Forms
    <2>6. y \in Window /\ y.sh = z.sh /\ y.off = z.off + n /\ y.len = rest
      <3>. DEFINE off == z.off + n
                  len == z.len - n
      <3>1. off \in Nat /\ len \in Nat /\ len = rest
        BY <1>0, <1>1, <1>2, <2>5
      <3>. HIDE DEF off, len, z
      <3>2. y = [z EXCEPT !.off = off, !.len = len]
        BY DEF off, len
      <3>. HIDE DEF y
      <3>3. y \in Window /\ y.sh = z.sh /\ y.off = off /\ y.len = len
        BY <2>5, <3>1, <3>2 DEF Window
      <3>. QED BY <3>1, <3>3 DEF off
    <2>. HIDE DEF z, y
    <2>8. y.off - z.off = n /\ y.off >= z.off /\ n + y.len <= z.len
      BY <1>1, <1>2, <2>5, <2>6
    <2>9. LET r == Set(u, a, y)
          IN  Good(r) /\ View(r) = [View(u) EXCEPT ![a] = Win(View(u)[a], n, y.len)]
      BY <2>3, <2>5, <2>6, <2>8, Narrow DEF z
    <2>. QED BY <2>3, <2>4, <2>6, <2>9 DEF w, Becomes
  <1>5. CASE ~(SharedP(x) \/ Len(x.cells) > ShiftSharedMin)
    <2>1. x \in Own /\ x.cells = V /\ Len(x.cells) <= ARY_CAPA(x)
      <3>1. x \in Own
        BY <1>1, <1>5, Forms
      <3>. QED BY <3>1, Forms, Shown DEF Good, Fits
    <2>. DEFINE y == [x EXCEPT !.cells = w]
    <2>2. t = Set(s, a, y)
      <3>1. SubSeq(V, n + 1, Len(V)) = w
        BY <1>2 DEF Win
      <3>. QED BY <1>5, <2>1, <3>1 DEF Shifted
    <2>3. y \in Own /\ y.cells = w /\ ARY_CAPA(y) = ARY_CAPA(x) /\ ARY_CAPA(x) \in Nat
      BY <1>3, <2>1, CellsExcept, Forms
    <2>4. Len(w) <= MaxSize /\ Len(w) <= ARY_CAPA(y)
      <3>. HIDE DEF V, w, y
      <3>1. ARY_CAPA(y) = ARY_CAPA(x) /\ ARY_CAPA(x) \in Nat /\ Len(V) <= ARY_CAPA(x)
        BY <2>1, <2>3
      <3>. QED BY <1>1, <1>2, <1>3, <3>1, ArrayAssumption
    <2>. HIDE DEF w, y, t
    <2>5. Roomy(y) /\ Unshared(s, a)
      BY <1>3, <2>1, <2>3, <2>4 DEF Roomy, Short, Unshared
    <2>6. Becomes(s, Set(s, a, y), a, y.cells)
      BY <2>5, PutOwn
    <2>. QED BY <2>2, <2>3, <2>6
  <1>. QED BY <1>4, <1>5

-----------------------------------------------------------------------------
(* What the operations make of the elements, against ArrayValues.          *)

\* Filling up with nil.
LEMMA FilledForm ==
    ASSUME NEW c \in Seq(Elem), NEW n \in Nat
    PROVE  /\ Filled(c, n) \in Seq(Elem) /\ values!Filled(c, n) = Filled(c, n)
           /\ Len(Filled(c, n)) = IF n <= Len(c) THEN Len(c) ELSE n
           /\ n <= Len(c) => Filled(c, n) = c
           /\ \A k \in 1 .. Len(Filled(c, n)) : Filled(c, n)[k] = IF k <= Len(c) THEN c[k] ELSE Nil
  <1>. DEFINE d == [i \in 1 .. n - Len(c) |-> Nil]
              L == Len(c)
  <1>1. L \in Nat
    OBVIOUS
  <1>2. CASE n <= L
    <2>1. d = << >>
      BY <1>1, <1>2
    <2>2. c \o << >> = c
      OBVIOUS
    <2>3. Filled(c, n) = c
      BY <2>1, <2>2 DEF Filled
    <2>4. values!Filled(c, n) = Filled(c, n)
      BY DEF Filled, values!Filled
    <2>. QED BY <1>2, <2>3, <2>4
  <1>3. CASE ~(n <= L)
    <2>. DEFINE m == n - L
    <2>1. m \in Nat /\ L + m = n
      BY <1>1, <1>3
    <2>2. d \in Seq(Elem) /\ Len(d) = m /\ \A k \in 1 .. m : d[k] = Nil
      <3>. HIDE DEF m
      <3>1. d = [i \in 1 .. m |-> Nil]
        BY DEF m
      <3>. QED BY <2>1, <3>1 DEF Elem
    <2>. HIDE DEF d, m
    <2>3. /\ c \o d \in Seq(Elem) /\ Len(c \o d) = L + m
          /\ \A k \in 1 .. L + m : (c \o d)[k] = IF k <= L THEN c[k] ELSE d[k - L]
      BY <2>2, ConcatProperties
    <2>4. Filled(c, n) = c \o d
      BY DEF Filled, d
    <2>5. \A k \in 1 .. n : (c \o d)[k] = IF k <= L THEN c[k] ELSE Nil
      <3>. SUFFICES ASSUME NEW k \in 1 .. n
                    PROVE  (c \o d)[k] = IF k <= L THEN c[k] ELSE Nil
        OBVIOUS
      <3>1. CASE k <= L
        BY <2>1, <2>3, <3>1
      <3>2. CASE ~(k <= L)
        <4>1. k - L \in 1 .. m /\ k \in 1 .. L + m
          BY <1>1, <2>1, <3>2
        <4>. QED BY <2>2, <2>3, <3>2, <4>1
      <3>. QED BY <3>1, <3>2
    <2>6. values!Filled(c, n) = Filled(c, n)
      BY DEF Filled, values!Filled
    <2>. QED BY <1>3, <2>1, <2>3, <2>4, <2>5, <2>6
  <1>. QED BY <1>2, <1>3

\* Elements added at either end, or taken from one, are results of ArrayValues.
LEMMA ResultEnds ==
    ASSUME NEW V \in Seq(Elem), NEW O
    PROVE  /\ \A v \in Val : values!Result(V, Append(V, v), O) /\ values!Result(V, <<v>> \o V, O)
           /\ \A n \in 0 .. Len(V) : values!Result(V, SubSeq(V, 1, n), O)
           /\ \A n \in 0 .. Len(V) : values!Result(V, Win(V, n, Len(V) - n), O)
           /\ values!Result(V, Reverse(V), O)
  <1>1. \A v \in Val : values!Result(V, Append(V, v), O) /\ values!Result(V, <<v>> \o V, O)
    BY DEF values!Result
  <1>2. ASSUME NEW n \in 0 .. Len(V) PROVE values!Result(V, SubSeq(V, 1, n), O)
    <2>1. Len(SubSeq(V, 1, n)) = n
      OBVIOUS
    <2>. QED BY <2>1 DEF values!Result
  <1>3. ASSUME NEW n \in 0 .. Len(V) PROVE values!Result(V, Win(V, n, Len(V) - n), O)
    <2>. DEFINE m == Len(V) - n
                t == Win(V, n, m)
    <2>1. m \in Nat /\ n \in Nat /\ n + m <= Len(V) /\ m <= Len(V) /\ n + m = Len(V) /\ Len(V) - m + 1 = n + 1
      OBVIOUS
    <2>. HIDE DEF m
    <2>2. Len(t) = m
      BY <2>1, Part
    <2>3. t = SubSeq(V, Len(V) - Len(t) + 1, Len(V))
      BY <2>1, <2>2 DEF Win
    <2>4. Len(t) <= Len(V)
      BY <2>1, <2>2
    <2>. HIDE DEF t
    <2>5. values!Result(V, t, O)
      BY <2>3, <2>4 DEF values!Result
    <2>. QED BY <2>5 DEF t, m
  <1>4. values!Result(V, Reverse(V), O)
    <2>. DEFINE t == Reverse(V)
    <2>1. Len(t) <= Len(V)
      BY DEF Reverse
    <2>2. t = values!Reverse(V)
      BY DEF Reverse, values!Reverse
    <2>. HIDE DEF t
    <2>3. values!Result(V, t, O)
      BY <2>1, <2>2 DEF values!Result
    <2>. QED BY <2>3 DEF t
  <1>. QED BY <1>1, <1>2, <1>3, <1>4

\* Filling up with nil is a result of ArrayValues.
LEMMA ResultFilled ==
    ASSUME NEW V \in Seq(Elem), NEW O, NEW n \in Nat
    PROVE  values!Result(V, Filled(V, n), O)
  <1>. DEFINE t == Filled(V, n)
  <1>1. Len(V) \in Nat
    OBVIOUS
  <1>2. CASE n <= Len(V)
    <2>1. t = V
      BY <1>2, FilledForm
    <2>2. values!Filled(V, Len(V)) = Filled(V, Len(V)) /\ Filled(V, Len(V)) = V
      BY <1>1, FilledForm
    <2>3. t = values!Filled(V, Len(t))
      BY <2>1, <2>2
    <2>. HIDE DEF t
    <2>4. values!Result(V, t, O)
      BY <2>3 DEF values!Result
    <2>. QED BY <2>4 DEF t
  <1>3. CASE ~(n <= Len(V))
    <2>1. Len(t) = n /\ values!Filled(V, n) = t
      BY <1>3, FilledForm
    <2>2. t = values!Filled(V, Len(t))
      BY <2>1
    <2>. HIDE DEF t
    <2>3. values!Result(V, t, O)
      BY <2>2 DEF values!Result
    <2>. QED BY <2>3 DEF t
  <1>. QED BY <1>2, <1>3

\* Storing one element, with nil up to it, is a result of ArrayValues.
LEMMA ResultStored ==
    ASSUME NEW V \in Seq(Elem), NEW O, NEW i \in Nat, NEW v \in Val
    PROVE  LET t == [Filled(V, i + 1) EXCEPT ![i + 1] = v]
           IN  /\ t \in Seq(Elem) /\ Len(t) = IF i + 1 <= Len(V) THEN Len(V) ELSE i + 1
               /\ values!Result(V, t, O)
  <1>. DEFINE j == i + 1
              f == Filled(V, j)
              t == [f EXCEPT ![j] = v]
              g == Filled(V, i)
              L == Len(V)
              p == SubSeq(g, 1, i)
              q == SubSeq(V, j + 1, L)
              pv == p \o <<v>>
              u == pv \o q
  <1>1. j \in Nat /\ j >= 1 /\ j - 1 = i /\ L \in Nat /\ v \in Elem
    BY DEF Elem
  <1>. HIDE DEF j, L
  <1>2. /\ f \in Seq(Elem) /\ Len(f) = IF j <= L THEN L ELSE j
        /\ \A k \in 1 .. Len(f) : f[k] = IF k <= L THEN V[k] ELSE Nil
    BY <1>1, FilledForm DEF L
  <1>3. /\ g \in Seq(Elem) /\ Len(g) = (IF i <= L THEN L ELSE i) /\ values!Filled(V, i) = g
        /\ \A k \in 1 .. Len(g) : g[k] = IF k <= L THEN V[k] ELSE Nil
    BY <1>1, FilledForm DEF L
  <1>. HIDE DEF f, g
  <1>4. /\ t \in Seq(Elem) /\ Len(t) = Len(f) /\ t[j] = v
        /\ \A k \in 1 .. Len(f) : k # j => t[k] = f[k]
    <2>1. j \in 1 .. Len(f)
      BY <1>1, <1>2
    <2>. QED BY <1>1, <1>2, <2>1, ExceptSeq
  <1>. HIDE DEF t
  <1>5. p \in Seq(Elem) /\ Len(p) = i /\ \A k \in 1 .. i : p[k] = g[k]
    BY <1>1, <1>3
  <1>6. /\ q \in Seq(Elem) /\ Len(q) = (IF j + 1 <= L THEN L - j ELSE 0)
        /\ \A k \in 1 .. L - j : q[k] = V[j + k]
    BY <1>1 DEF L
  <1>. HIDE DEF p, q
  <1>7. /\ pv \in Seq(Elem) /\ Len(pv) = j
        /\ \A k \in 1 .. j : pv[k] = IF k = j THEN v ELSE p[k]
    BY <1>1, <1>5
  <1>. HIDE DEF pv
  <1>8. /\ u \in Seq(Elem) /\ Len(u) = j + Len(q)
        /\ \A k \in 1 .. j + Len(q) : u[k] = IF k <= j THEN pv[k] ELSE q[k - j]
    BY <1>6, <1>7, ConcatProperties
  <1>. HIDE DEF u
  <1>9. Len(u) = Len(t)
    BY <1>1, <1>2, <1>4, <1>6, <1>8
  <1>10. ASSUME NEW k \in 1 .. Len(t) PROVE t[k] = u[k]
    <2>0. k \in 1 .. Len(f) /\ k \in 1 .. j + Len(q) /\ k \in Nat
      BY <1>4, <1>8, <1>9
    <2>1. CASE k = j
      BY <1>1, <1>4, <1>7, <1>8, <2>0, <2>1
    <2>2. CASE k < j
      <3>1. k \in 1 .. i /\ k \in 1 .. j /\ k \in 1 .. Len(g) /\ k # j /\ k <= j
        BY <1>1, <1>3, <2>0, <2>2
      <3>2. u[k] = g[k]
        BY <1>5, <1>7, <1>8, <2>0, <3>1
      <3>3. t[k] = f[k]
        BY <1>4, <2>0, <3>1
      <3>. QED BY <1>2, <1>3, <2>0, <3>1, <3>2, <3>3
    <2>3. CASE k > j
      <3>1. /\ j + 1 <= L /\ k <= L /\ k - j \in 1 .. L - j /\ j + (k - j) = k /\ ~(k <= j) /\ k # j
        BY <1>1, <1>2, <2>0, <2>3
      <3>2. u[k] = V[j + (k - j)]
        BY <1>6, <1>8, <2>0, <3>1
      <3>. QED BY <1>2, <1>4, <2>0, <3>1, <3>2
    <2>. QED BY <1>1, <2>0, <2>1, <2>2, <2>3
  <1>11. t = u
    BY <1>4, <1>8, <1>9, <1>10, SeqEqual
  <1>12. values!Spliced(V, j, 1, <<v>>) = u
    BY <1>1, <1>3 DEF values!Spliced, u, pv, p, q, L
  <1>13. j \in 1 .. Len(t)
    BY <1>1, <1>2, <1>4
  <1>14. values!Result(V, t, O)
    BY <1>11, <1>12, <1>13 DEF values!Result
  <1>. QED BY <1>2, <1>4, <1>14 DEF t, f, j, L

\* Another array's elements, or none, put in the place of some.
LEMMA ResultOther ==
    ASSUME NEW V \in Seq(Elem), NEW O, NEW r \in {<< >>} \cup O
    PROVE  values!Result(V, r, O) /\ values!Result(V, V \o r, O)
    BY DEF values!Result

\* What a splice is given: an array of its own, the elements to put in, and where
OwnWith(x, c) == x \in Own /\ x.cells = c /\ c \in Seq(Elem)
OtherSeq(r, O) == r \in Seq(Elem) /\ r \in {<< >>} \cup O
Place(head, len) == head \in Nat /\ len \in Nat /\ head < MaxSize

\* The elements that Splice stores
SpliceCells(c, head, len, r) ==
    LET cut == IF Len(c) < head + len THEN Len(c) - head ELSE len
    IN  IF head >= Len(c) THEN Filled(c, head) \o r
        ELSE SubSeq(c, 1, head) \o r \o SubSeq(c, head + cut + 1, Len(c))

\* A splice of the elements r, as mrb_ary_splice() computes it, is one of ArrayValues.
LEMMA ResultSpliced ==
    ASSUME NEW x, NEW V, OwnWith(x, V), NEW O, NEW r, OtherSeq(r, O), NEW head, NEW len, Place(head, len)
    PROVE  LET t == SpliceCells(V, head, len, r)
           IN  /\ Splice(x, head, len, r) = Store(x, t)
               /\ t \in Seq(Elem) /\ values!Result(V, t, O)
  <1>. DEFINE L == Len(V)
              i == head + 1
              f == Filled(V, head)
              cut == IF L < head + len THEN L - head ELSE len
              t == SpliceCells(V, head, len, r)
  <1>0. /\ x \in Own /\ x.cells = V /\ V \in Seq(Elem) /\ r \in Seq(Elem) /\ r \in {<< >>} \cup O
        /\ head \in Nat /\ len \in Nat /\ head < MaxSize
    BY DEF OwnWith, OtherSeq, Place
  <1>a. Splice(x, head, len, r) = Store(x, t)
    BY <1>0 DEF Splice, SpliceCells
  <1>1. MaxSize \in Nat /\ head \in Nat /\ len \in Nat /\ L \in Nat
    BY <1>0, ArrayAssumption
  <1>2. i \in 1 .. MaxSize /\ i - 1 = head
    BY <1>0, <1>1
  <1>3. /\ f \in Seq(Elem) /\ values!Filled(V, head) = f /\ Len(f) = (IF head <= L THEN L ELSE head)
        /\ head <= L => f = V
    BY <1>0, <1>1, FilledForm
  <1>. HIDE DEF f, i, L, SpliceCells
  <1>4. CASE head >= L
    <2>1. t = f \o r
      BY <1>4 DEF L, f, SpliceCells
    <2>2. SubSeq(f, 1, head) = f
      <3>1. Len(f) = head
        BY <1>1, <1>3, <1>4
      <3>. QED BY <1>3, <3>1, SubSeqFull
    <2>3. SubSeq(V, i + 0, L) = << >>
      BY <1>0, <1>1, <1>2, <1>4 DEF L
    <2>4. t \in Seq(Elem) /\ t \o << >> = t
      BY <1>0, <1>3, <2>1
    <2>5. values!Spliced(V, i, 0, r) = t
      BY <1>2, <1>3, <2>1, <2>2, <2>3, <2>4 DEF values!Spliced, L
    <2>. HIDE DEF t
    <2>6. i \in values!Index /\ 0 \in 0 .. Len(V)
      BY <1>1, <1>2 DEF values!Index, L
    <2>7. values!Result(V, t, O)
      BY <1>0, <2>5, <2>6 DEF values!Result
    <2>. QED BY <1>a, <2>4, <2>7 DEF t
  <1>5. CASE ~(head >= L)
    <2>. DEFINE p == SubSeq(V, 1, head)
                q == SubSeq(V, head + cut + 1, L)
    <2>1. t = p \o r \o q
      BY <1>5 DEF L, SpliceCells
    <2>2. cut \in 0 .. L /\ head + cut + 1 = i + cut /\ head + cut + 1 \in 1 .. L + 1
      BY <1>1, <1>5 DEF i
    <2>3. f = V
      BY <1>1, <1>3, <1>5
    <2>. HIDE DEF cut
    <2>4. p \in Seq(Elem) /\ q \in Seq(Elem)
      BY <1>0, <1>1, <1>5, <2>2 DEF L
    <2>5. values!Spliced(V, i, cut, r) = t
      BY <1>2, <1>3, <2>1, <2>2, <2>3 DEF values!Spliced, L
    <2>. HIDE DEF p, q
    <2>6. t \in Seq(Elem)
      BY <1>0, <2>1, <2>4
    <2>. HIDE DEF t
    <2>7. i \in values!Index /\ cut \in 0 .. Len(V)
      BY <1>2, <2>2 DEF values!Index, L
    <2>8. values!Result(V, t, O)
      BY <1>0, <2>5, <2>7 DEF values!Result
    <2>. QED BY <1>a, <2>6, <2>8 DEF t
  <1>. QED BY <1>4, <1>5

\* Taking out one element is a result of ArrayValues.
LEMMA ResultRemoved ==
    ASSUME NEW V, Short(V), NEW O, NEW k \in 1 .. Len(V)
    PROVE  /\ RemoveAt(V, k) \in Seq(Elem) /\ Len(RemoveAt(V, k)) = Len(V) - 1
           /\ values!Result(V, RemoveAt(V, k), O)
  <1>. DEFINE L == Len(V)
              h == k - 1
              p == SubSeq(V, 1, h)
              q == SubSeq(V, k + 1, L)
              t == p \o q
  <1>1. V \in Seq(Elem) /\ L \in Nat /\ L <= MaxSize /\ k \in Nat /\ k \in 1 .. L /\ MaxSize \in Nat
    BY ArrayAssumption DEF Short
  <1>2. h \in Nat /\ h <= L /\ h + 1 = k
    BY <1>1
  <1>3. values!Filled(V, h) = V
    BY <1>1, <1>2, FilledForm
  <1>4. /\ p \in Seq(Elem) /\ Len(p) = h /\ q \in Seq(Elem) /\ Len(q) = L - k
        /\ p \o << >> = p
    BY <1>1, <1>2
  <1>5. values!Spliced(V, k, 1, << >>) = t
    BY <1>1, <1>3, <1>4 DEF values!Spliced
  <1>6. RemoveAt(V, k) = t
    BY DEF RemoveAt
  <1>. HIDE DEF p, q, h
  <1>7. t \in Seq(Elem) /\ Len(t) = L - 1
    <2>1. t \in Seq(Elem) /\ Len(t) = h + (L - k)
      BY ZenonT(60), <1>4, ConcatProperties
    <2>. QED BY <1>1, <1>2, <2>1
  <1>. HIDE DEF t
  <1>8. k \in values!Index /\ 1 \in 0 .. Len(V)
    BY <1>1 DEF values!Index
  <1>9. values!Result(V, t, O)
    BY <1>5, <1>8 DEF values!Result
  <1>. QED BY <1>6, <1>7, <1>9

-----------------------------------------------------------------------------
(* Steps of ArrayValues.                                                   *)

\* The values there are, and a good heap t whose values are those of s or one
\* operation away
Others(s) == {View(s)[b] : b \in values!Live(View(s))}
Legal(s, t) == Good(t) /\ (View(t) = View(s) \/ values!Step(View(s), View(t)))

\* The values of live arrays are among the others.
LEMMA OtherValue ==
    ASSUME NEW s, NEW b \in Arr, Good(s), s.ary[b] # Gone
    PROVE  View(s)[b] \in Others(s) /\ b \in values!Live(View(s))
  <1>1. View(s)[b] # Gone
    BY Shown
  <1>. QED BY <1>1 DEF Others, values!Live

\* A live array gets a value that is a result of its own.
LEMMA LegalResult ==
    ASSUME NEW s, Good(s), NEW t, NEW a \in Arr, s.ary[a] # Gone, NEW v, Becomes(s, t, a, v),
           v = Gone \/ values!Result(View(s)[a], v, Others(s))
    PROVE  Legal(s, t)
  <1>. DEFINE V == View(s)
              W == View(t)
  <1>1. Good(t) /\ W = [V EXCEPT ![a] = v]
    BY DEF Becomes
  <1>2. CASE v = V[a]
    BY <1>1, <1>2, SameView DEF Legal
  <1>3. CASE v # V[a]
    <2>1. W[a] = v /\ \A b \in Arr : b # a => W[b] = V[b]
      BY <1>1 DEF View
    <2>. HIDE DEF W
    <2>2. {b \in Arr : W[b] # V[b]} = {a}
      BY <1>3, <2>1
    <2>3. a \in values!Live(V)
      BY OtherValue
    <2>4. values!Step(V, W)
      BY <2>1, <2>2, <2>3 DEF values!Step, Others
    <2>. QED BY <1>1, <2>4 DEF Legal, W
  <1>. QED BY <1>2, <1>3

\* An array that was not there is made.
LEMMA LegalMade ==
    ASSUME NEW s, Good(s), NEW t, NEW b \in Arr, s.ary[b] = Gone, NEW v \in Seq(Elem), Becomes(s, t, b, v),
           values!Made(v, Others(s))
    PROVE  Legal(s, t)
  <1>. DEFINE V == View(s)
              W == View(t)
  <1>1. Good(t) /\ W = [V EXCEPT ![b] = v] /\ v # Gone
    BY ArrayAssumption DEF Becomes
  <1>2. V[b] = Gone
    BY DEF View
  <1>3. W[b] = v /\ \A o \in Arr : o # b => W[o] = V[o]
    BY <1>1 DEF View
  <1>. HIDE DEF V, W
  <1>4. {o \in Arr : W[o] # V[o]} = {b}
    BY <1>1, <1>2, <1>3
  <1>5. b \in Arr \ values!Live(V)
    BY <1>2 DEF values!Live
  <1>6. values!Step(V, W)
    BY <1>3, <1>4, <1>5 DEF values!Step, Others, V
  <1>. QED BY <1>1, <1>6 DEF Legal, V, W

\* A part of another array makes an array.
LEMMA MadePart ==
    ASSUME NEW V \in Seq(Elem), NEW O, V \in O, NEW beg \in Nat, NEW len \in Nat, beg + len <= Len(V)
    PROVE  values!Made(Win(V, beg, len), O) /\ values!Made(V, O) /\ values!Made(<< >>, O)
  <1>. DEFINE t == Win(V, beg, len)
              L == Len(V)
  <1>0. L \in Nat
    OBVIOUS
  <1>1. Len(t) = len
    BY Part
  <1>2. beg + 1 \in 1 .. L - len + 1 /\ beg + 1 + len - 1 = beg + len
    BY <1>0
  <1>3. t = SubSeq(V, beg + 1, beg + 1 + Len(t) - 1)
    BY <1>1, <1>2 DEF Win
  <1>. HIDE DEF t
  <1>4. values!Made(t, O)
    BY <1>1, <1>2, <1>3 DEF values!Made
  <1>5. values!Made(V, O)
    <2>1. V = SubSeq(V, 1, 1 + L - 1) /\ 1 \in 1 .. L - L + 1
      BY SubSeqFull
    <2>. QED BY <2>1 DEF values!Made
  <1>6. values!Made(<< >>, O)
    <2>1. << >> = SubSeq(V, 1, 1 + 0 - 1) /\ 1 \in 1 .. L - 0 + 1 /\ Len(<< >>) = 0
      BY <1>0
    <2>. QED BY <2>1 DEF values!Made
  <1>. QED BY <1>4, <1>5, <1>6 DEF t

\* The heap after a step is the one the action went to.
LEMMA GoNow ==
    ASSUME NEW t, Good(t), Go(t)
    PROVE  Now' = t
  <1>1. t = [ary |-> t.ary, sh |-> t.sh]
    BY HeapParts DEF Good
  <1>. QED BY <1>1 DEF Go, Now

\* A legal heap is what an action may go to.
LEMMA GoLegal ==
    ASSUME NEW t, Legal(Now, t), Go(t)
    PROVE  Legal(Now, Now')
  <1>1. Now' = t
    BY GoNow DEF Legal
  <1>. QED BY <1>1

-----------------------------------------------------------------------------
(* The operations.                                                         *)

\* The writers: the array becomes its own, and then gets the structure y ...
LEMMA ModifyPut ==
    ASSUME NEW s, Good(s), NEW a \in Arr, s.ary[a] # Gone, NEW y, Roomy(y),
           values!Result(View(s)[a], y.cells, Others(s))
    PROVE  Legal(s, Set(ary_modify(s, a), a, y))
  <1>. DEFINE u == ary_modify(s, a)
  <1>1. Good(u) /\ View(u) = View(s) /\ u.ary[a] \in Own
    BY Modify
  <1>. HIDE DEF u
  <1>2. Becomes(u, Set(u, a, y), a, y.cells)
    BY <1>1, PutOwn DEF Unshared
  <1>3. Becomes(s, Set(u, a, y), a, y.cells)
    BY <1>1, <1>2 DEF Becomes
  <1>. QED BY <1>3, LegalResult DEF u

\* ... or the elements c.
LEMMA ModifyStore ==
    ASSUME NEW s, Good(s), NEW a \in Arr, s.ary[a] # Gone, NEW c, Short(c),
           values!Result(View(s)[a], c, Others(s))
    PROVE  Legal(s, Set(ary_modify(s, a), a, Store(ary_modify(s, a).ary[a], c)))
  <1>. DEFINE u == ary_modify(s, a)
              t == Set(u, a, Store(u.ary[a], c))
  <1>1. Good(u) /\ View(u) = View(s) /\ u.ary[a] \in Own
    BY Modify
  <1>. HIDE DEF u
  <1>2. Becomes(u, t, a, c)
    BY <1>1, PutStore
  <1>. HIDE DEF t
  <1>3. Becomes(s, t, a, c)
    BY <1>1, <1>2 DEF Becomes
  <1>4. Legal(s, t)
    BY <1>3, LegalResult
  <1>. QED BY <1>4 DEF u, t

\* What the operations know of a live array.
LEMMA LiveArray ==
    ASSUME IInv, NEW a \in Live
    PROVE  /\ Good(Now) /\ a \in Arr /\ Now.ary[a] # Gone /\ Now.ary = ary /\ Now.sh = shared
           /\ View(Now)[a] = Cells(shared, ary[a]) /\ View(Now)[a] \in Seq(Elem)
           /\ Short(View(Now)[a]) /\ Len(View(Now)[a]) = ARY_LEN(ary[a]) /\ Len(View(Now)[a]) \in Nat
           /\ View(Now)[a] \in Others(Now) /\ ary[a] \in Own \cup Window
           /\ ary[a] \in Own => View(Now)[a] = ary[a].cells
  <1>1. Good(Now) /\ a \in Arr /\ Now.ary[a] # Gone /\ Now.ary = ary /\ Now.sh = shared
    BY DEF IInv, Live, Now
  <1>2. Now.ary[a] \in Own \cup Window
    BY <1>1, HeapParts DEF Good
  <1>3. View(Now)[a] \in Others(Now)
    BY <1>1, OtherValue
  <1>. QED BY <1>1, <1>2, <1>3, Shown DEF Short

\* push appends an element.
LEMMA PushStep ==
    ASSUME IInv, NEW a \in Live, mrb_ary_push(a)
    PROVE  Legal(Now, Now')
  <1>. DEFINE u == ary_modify(Now, a)
              V == View(Now)[a]
  <1>1. PICK v \in Val : Go(Set(u, a, Store(u.ary[a], Append(u.ary[a].cells, v))))
    BY DEF mrb_ary_push
  <1>2. u.ary[a].cells = V
    BY LiveArray, Modify
  <1>. DEFINE c == Append(V, v)
  <1>3. V \in Seq(Elem) /\ Len(V) < MaxSize /\ Len(V) \in Nat
    BY LiveArray DEF mrb_ary_push
  <1>4. Short(c) /\ values!Result(V, c, Others(Now))
    <2>. HIDE DEF V
    <2>1. c \in Seq(Elem) /\ Len(c) = Len(V) + 1
      BY <1>3 DEF Elem
    <2>2. values!Result(V, c, Others(Now))
      BY <1>3, ResultEnds
    <2>. QED BY <1>3, <2>1, <2>2, ArrayAssumption DEF Short
  <1>5. Go(Set(u, a, Store(u.ary[a], c)))
    BY <1>1, <1>2
  <1>. HIDE DEF c
  <1>6. Legal(Now, Set(u, a, Store(u.ary[a], c)))
    BY <1>4, LiveArray, ModifyStore
  <1>. QED BY <1>5, <1>6, GoLegal

\* A structure that gets fewer elements, or other ones, keeps its room.
LEMMA FewerRoomy ==
    ASSUME NEW x \in Own, Len(x.cells) <= ARY_CAPA(x), Short(x.cells),
           NEW c \in Seq(Elem), Len(c) <= Len(x.cells)
    PROVE  Roomy([x EXCEPT !.cells = c]) /\ [x EXCEPT !.cells = c].cells = c
  <1>. DEFINE y == [x EXCEPT !.cells = c]
              n == Len(x.cells)
              m == Len(c)
              k == ARY_CAPA(x)
  <1>1. y \in Own /\ y.cells = c /\ ARY_CAPA(y) = k
    BY CellsExcept
  <1>2. n \in Nat /\ m \in Nat /\ k \in Nat /\ n <= k /\ n <= MaxSize /\ m <= n /\ MaxSize \in Nat
    BY Forms, ArrayAssumption DEF Short
  <1>. HIDE DEF y, n, m, k
  <1>3. m <= MaxSize /\ m <= k
    BY <1>2
  <1>4. Roomy(y)
    BY <1>1, <1>3 DEF Roomy, Short, m
  <1>. QED BY <1>1, <1>4 DEF y

\* The structure of a live array of its own is roomy.
LEMMA OwnRoomy ==
    ASSUME NEW s, Good(s), NEW a \in Arr, s.ary[a] \in Own
    PROVE  Roomy(s.ary[a]) /\ s.ary[a] # Gone /\ s.ary[a].cells = View(s)[a]
  <1>1. s.ary[a] # Gone /\ ~SharedP(s.ary[a]) /\ s.ary[a].cells \in Seq(Elem)
    BY Forms
  <1>2. Fits(s.sh, s.ary[a])
    BY <1>1 DEF Good
  <1>3. s.ary[a].cells = View(s)[a] /\ Len(View(s)[a]) <= MaxSize
    BY <1>1, Shown
  <1>4. Len(s.ary[a].cells) <= ARY_CAPA(s.ary[a])
    BY <1>1, <1>2 DEF Fits
  <1>. QED BY <1>1, <1>3, <1>4 DEF Roomy, Short

\* pop takes the last element away, a shared array by a shorter window.
LEMMA PopStep ==
    ASSUME IInv, NEW a \in Live, mrb_ary_pop(a)
    PROVE  Legal(Now, Now')
  <1>. DEFINE V == View(Now)[a]
              x == ary[a]
              n == Len(V) - 1
              w == SubSeq(V, 1, n)
              y == IF SharedP(x) THEN [x EXCEPT !.len = @ - 1] ELSE [x EXCEPT !.cells = Front(@)]
  <1>0. /\ V \in Seq(Elem) /\ Len(V) \in Nat /\ Len(V) > 0 /\ Len(V) = ARY_LEN(x) /\ Now.ary = ary
        /\ Good(Now) /\ a \in Arr /\ Now.ary[a] # Gone /\ x \in Own \cup Window
    BY LiveArray DEF mrb_ary_pop
  <1>1. Go(Set(Now, a, y))
    BY DEF mrb_ary_pop
  <1>2. n \in 0 .. Len(V) /\ n \in Nat /\ n <= Len(V)
    <2>. HIDE DEF V
    <2>. QED BY <1>0
  <1>3. values!Result(V, w, Others(Now))
    BY <1>0, <1>2, ResultEnds
  <1>4. CASE x \in Window
    <2>1. y = [x EXCEPT !.len = @ - 1] /\ x.len = Len(V) /\ x.off \in Nat
      BY <1>0, <1>4, Forms
    <2>2. y \in Window /\ y.sh = x.sh /\ y.off = x.off /\ y.len = n
      <3>1. x.len - 1 = n
        BY <2>1
      <3>. HIDE DEF y, x, n
      <3>. QED BY <1>2, <1>4, <2>1, <3>1 DEF Window
    <2>3. y.off - x.off = 0 /\ y.off >= x.off /\ 0 + y.len <= x.len
      <3>. HIDE DEF y, x, n, V
      <3>. QED BY <1>0, <1>2, <2>1, <2>2
    <2>. HIDE DEF y
    <2>4. LET r == Set(Now, a, y)
          IN  Good(r) /\ View(r) = [View(Now) EXCEPT ![a] = Win(V, 0, y.len)]
      <3>1. Now.ary[a] = x
        BY <1>0
      <3>2. Now.ary[a] \in Window /\ y \in Window /\ y.sh = Now.ary[a].sh
        BY <1>4, <2>2, <3>1
      <3>3. y.off - Now.ary[a].off = 0 /\ y.off >= Now.ary[a].off /\ 0 + y.len <= Now.ary[a].len
        BY <2>3, <3>1
      <3>. HIDE DEF x
      <3>. QED BY <1>0, <3>2, <3>3, Narrow
    <2>5. Win(V, 0, y.len) = w
      BY <1>2, <2>2 DEF Win
    <2>6. Becomes(Now, Set(Now, a, y), a, w)
      BY <2>4, <2>5 DEF Becomes
    <2>7. Legal(Now, Set(Now, a, y))
      BY <1>0, <1>3, <2>6, LegalResult
    <2>. QED BY <1>1, <2>7, GoLegal
  <1>5. CASE x \in Own
    <2>1. y = [x EXCEPT !.cells = w] /\ x.cells = V
      <3>1. ~SharedP(x) /\ x.cells = V
        BY <1>5, LiveArray, Forms
      <3>. QED BY <3>1 DEF Front
    <2>2. Roomy(x)
      BY <1>0, <1>5, OwnRoomy
    <2>3. w \in Seq(Elem) /\ Len(w) = n
      BY <1>0, <1>2
    <2>. HIDE DEF y, w, n, V
    <2>4. Roomy(y) /\ y.cells = w
      BY <1>2, <1>5, <2>1, <2>2, <2>3, FewerRoomy DEF Roomy
    <2>5. Becomes(Now, Set(Now, a, y), a, w)
      <3>1. Unshared(Now, a)
        BY <1>0, <1>5 DEF Unshared
      <3>. QED BY <1>0, <2>4, <3>1, PutOwn
    <2>6. Legal(Now, Set(Now, a, y))
      BY <1>0, <1>3, <2>5, LegalResult DEF V
    <2>. QED BY <1>1, <2>6, GoLegal
  <1>. QED BY <1>0, <1>4, <1>5

\* shift takes the first element away.
LEMMA ShiftStep ==
    ASSUME IInv, NEW a \in Live, mrb_ary_shift(a)
    PROVE  Legal(Now, Now')
  <1>. DEFINE V == View(Now)[a]
              t == Shifted(Now, a, 1)
              w == Win(V, 1, Len(V) - 1)
  <1>1. /\ Good(Now) /\ a \in Arr /\ Now.ary[a] # Gone /\ V \in Seq(Elem)
        /\ Len(V) \in Nat /\ Len(V) > 0 /\ Go(t)
    BY LiveArray DEF mrb_ary_shift
  <1>2. 1 \in 0 .. Len(V) /\ 1 <= Len(V) /\ 1 \in Nat
    <2>. HIDE DEF V
    <2>. QED BY <1>1
  <1>3. Becomes(Now, t, a, w)
    BY <1>1, <1>2, Shift
  <1>4. values!Result(V, w, Others(Now))
    BY <1>1, <1>2, ResultEnds
  <1>. HIDE DEF w, t
  <1>5. Legal(Now, t)
    BY <1>1, <1>3, <1>4, LegalResult
  <1>. QED BY <1>1, <1>5, GoLegal

\* shift(n) makes an array b of what it takes: both values change in one step.
LEMMA ShiftManyStep ==
    ASSUME IInv, NEW a \in Live, NEW b \in Arr, mrb_ary_shift_m(a, b)
    PROVE  Legal(Now, Now')
  <1>. DEFINE V == View(Now)[a]
  <1>1. /\ Good(Now) /\ a \in Arr /\ Now.ary[a] # Gone /\ V \in Seq(Elem) /\ Short(V)
        /\ Len(V) \in Nat /\ Len(V) = ARY_LEN(ary[a]) /\ V = Cells(shared, ary[a])
        /\ Now.ary = ary /\ a \in values!Live(View(Now))
    BY LiveArray, OtherValue
  <1>2. PICK n \in 1 .. Len(V) : Go(Shifted(Set(Now, b, ary_new_from_values(SubSeq(V, 1, n))), a, n))
    BY <1>1 DEF mrb_ary_shift_m
  <1>3. ary[b] = Gone /\ a # b
    BY <1>1 DEF mrb_ary_shift_m
  <1>. DEFINE w == SubSeq(V, 1, n)
              u == Set(Now, b, ary_new_from_values(w))
              t == Shifted(u, a, n)
              m == Len(V) - n
              r == Win(V, n, m)
  <1>4. n \in Nat /\ n <= Len(V) /\ m \in Nat /\ n + m = Len(V) /\ n > 0
    <2>. HIDE DEF V
    <2>. QED BY <1>1
  <1>5. w \in Seq(Elem) /\ Len(w) = n
    BY <1>1, <1>4
  <1>6. Short(w) /\ Unshared(Now, b) /\ w # Gone
    <2>1. n <= MaxSize
      <3>. HIDE DEF V
      <3>. QED BY <1>1, <1>4, ArrayAssumption DEF Short
    <2>. QED BY <1>1, <1>3, <1>5, <2>1, ArrayAssumption DEF Short, Unshared
  <1>7. Becomes(Now, u, b, w)
    <2>. HIDE DEF w
    <2>. QED BY <1>1, <1>6, PutNew
  <1>. HIDE DEF w, u
  <1>8. Good(u) /\ View(u)[a] = V /\ View(u)[b] = w /\ \A o \in Arr \ {b} : View(u)[o] = View(Now)[o]
    BY <1>1, <1>3, <1>7 DEF Becomes, View
  <1>9. u.ary[a] # Gone
    <2>1. V # Gone
      BY <1>1, ArrayAssumption
    <2>. QED BY <1>1, <1>8, <2>1 DEF View
  <1>10. Becomes(u, t, a, r)
    BY <1>1, <1>4, <1>8, <1>9, Shift
  <1>. HIDE DEF t
  <1>11. Good(t) /\ View(t)[a] = r /\ View(t)[b] = w /\ \A o \in Arr \ {a, b} : View(t)[o] = View(Now)[o]
    BY <1>1, <1>3, <1>8, <1>10 DEF Becomes, View
  <1>12. r \in Seq(Elem) /\ Len(r) = m /\ r = SubSeq(V, n + 1, Len(V))
    <2>1. V \in Seq(Elem) /\ n + m <= Len(V)
      BY <1>1, <1>4
    <2>. HIDE DEF V, m
    <2>2. r \in Seq(Elem) /\ Len(r) = m
      BY <1>4, <2>1, Part
    <2>. QED BY <1>4, <2>2 DEF Win
  <1>13. r # V /\ r # Gone /\ View(Now)[b] = Gone
    <2>1. Len(r) # Len(V)
      <3>. HIDE DEF V, m, r
      <3>. QED BY <1>1, <1>4, <1>12
    <2>2. View(Now)[b] = Gone
      BY <1>1, <1>3 DEF View
    <2>. QED BY <1>12, <2>1, <2>2, ArrayAssumption
  <1>. DEFINE N == View(Now)
              T == View(t)
  <1>14. /\ T[a] = r /\ T[b] = w /\ N[a] = V /\ N[b] = Gone /\ r # V /\ r # Gone /\ w # Gone
         /\ \A o \in Arr \ {a, b} : T[o] = N[o]
    BY <1>6, <1>11, <1>13
  <1>15. values!Split(N[a], T[a], T[b])
    BY <1>4, <1>11, <1>12 DEF values!Split, w
  <1>. HIDE DEF N, T, V, r
  <1>16. {o \in Arr : T[o] # N[o]} = {a, b}
    BY <1>1, <1>3, <1>14
  <1>17. b \in Arr \ values!Live(N) /\ values!Live(T) = values!Live(N) \cup {b}
    BY <1>1, <1>3, <1>14 DEF values!Live, N
  <1>18. values!Step(N, T)
    BY <1>1, <1>15, <1>16, <1>17 DEF values!Step, N
  <1>19. Legal(Now, t)
    BY <1>11, <1>18 DEF Legal, N, T
  <1>. QED BY <1>2, <1>19, GoLegal DEF t, u, w

\* unshift puts an element before the others, in place for the only holder of a buffer.
LEMMA UnshiftStep ==
    ASSUME IInv, NEW a \in Live, mrb_ary_unshift_values(a)
    PROVE  Legal(Now, Now')
  <1>. DEFINE V == View(Now)[a]
              x == ary[a]
              u == ary_modify(Now, a)
  <1>1. /\ Good(Now) /\ a \in Arr /\ Now.ary[a] # Gone /\ V \in Seq(Elem) /\ Now.ary = ary /\ Now.sh = shared
        /\ Len(V) \in Nat /\ Len(V) = ARY_LEN(x) /\ Len(V) < MaxSize /\ x \in Own \cup Window
    BY LiveArray DEF mrb_ary_unshift_values
  <1>2. PICK v \in Val :
            IF InPlace(x)
            THEN Go([Set(Now, a, [x EXCEPT !.off = @ - 1, !.len = @ + 1]) EXCEPT !.sh[x.sh].cells[x.off] = v])
            ELSE Go(Set(u, a, Store(u.ary[a], <<v>> \o u.ary[a].cells)))
    BY DEF mrb_ary_unshift_values
  <1>. DEFINE c == <<v>> \o V
  <1>3. values!Result(V, c, Others(Now)) /\ v \in Elem
    BY <1>1, ResultEnds DEF Elem
  <1>4. Short(c)
    <2>. HIDE DEF V
    <2>1. c \in Seq(Elem) /\ Len(c) = Len(V) + 1
      BY <1>1, <1>3
    <2>. QED BY <1>1, <2>1, ArrayAssumption DEF Short
  <1>5. CASE InPlace(x)
    <2>. DEFINE t == [Set(Now, a, [x EXCEPT !.off = x.off - 1, !.len = x.len + 1]) EXCEPT !.sh[x.sh].cells[x.off] = v]
    <2>1. x \in Window /\ shared[x.sh].refcnt = 1 /\ x.off >= 1 /\ x.len = Len(V)
      BY <1>1, <1>5, Forms DEF InPlace
    <2>2. Go(t)
      BY <1>2, <1>5
    <2>3. Good(t) /\ View(t) = [View(Now) EXCEPT ![a] = c]
      <3>1. Now.ary[a] \in Window /\ Now.sh[x.sh].refcnt = 1 /\ x.off >= 1 /\ x.len < MaxSize /\ x = Now.ary[a]
        BY <1>1, <2>1
      <3>. HIDE DEF x, V
      <3>. DEFINE z == Now.ary[a]
                  r == [Set(Now, a, [z EXCEPT !.off = z.off - 1, !.len = z.len + 1])
                          EXCEPT !.sh[z.sh].cells[z.off] = v]
      <3>2. t = r
        BY <3>1
      <3>3. Now.sh[z.sh].refcnt = 1 /\ z.off >= 1 /\ z.len < MaxSize =>
                Good(r) /\ View(r) = [View(Now) EXCEPT ![a] = <<v>> \o View(Now)[a]]
        BY <1>1, <1>3, <3>1, Widen, Zenon
      <3>4. Now.sh[z.sh].refcnt = 1 /\ z.off >= 1 /\ z.len < MaxSize
        BY <3>1
      <3>. HIDE DEF t, r, z
      <3>. QED BY <3>2, <3>3, <3>4 DEF V
    <2>. HIDE DEF t, c
    <2>4. Becomes(Now, t, a, c)
      BY <2>3 DEF Becomes
    <2>5. Legal(Now, t)
      BY <1>1, <1>3, <2>4, LegalResult
    <2>. QED BY <2>2, <2>5, GoLegal
  <1>6. CASE ~InPlace(x)
    <2>1. u.ary[a].cells = V
      BY <1>1, Modify
    <2>2. Go(Set(u, a, Store(u.ary[a], c)))
      BY <1>2, <1>6, <2>1
    <2>. HIDE DEF c
    <2>3. Legal(Now, Set(u, a, Store(u.ary[a], c)))
      BY <1>1, <1>3, <1>4, ModifyStore
    <2>. QED BY <2>2, <2>3, GoLegal
  <1>. QED BY <1>5, <1>6

\* Storing at an index; one before the first element changes nothing that shows.
LEMMA SetStep ==
    ASSUME IInv, NEW a \in Live, mrb_ary_set(a)
    PROVE  Legal(Now, Now')
  <1>. DEFINE V == View(Now)[a]
              u == ary_modify(Now, a)
  <1>1. /\ Good(Now) /\ a \in Arr /\ Now.ary[a] # Gone /\ V \in Seq(Elem) /\ Short(V) /\ Len(V) \in Nat
    BY LiveArray
  <1>2. Good(u) /\ View(u) = View(Now) /\ u.ary[a].cells = V /\ u.ary[a] \in Own
    BY <1>1, Modify
  <1>3. PICK n \in {-MaxSize, -1} \cup 0 .. MaxSize - 1, v \in Val :
            LET i == IF n < 0 THEN n + Len(V) ELSE n
            IN  IF i < 0 THEN Go(u)
                ELSE Go(Set(u, a, Store(u.ary[a], [Filled(V, i + 1) EXCEPT ![i + 1] = v])))
    BY <1>2 DEF mrb_ary_set
  <1>. DEFINE i == IF n < 0 THEN n + Len(V) ELSE n
              c == [Filled(V, i + 1) EXCEPT ![i + 1] = v]
  <1>4. i \in Int /\ i < MaxSize /\ MaxSize \in Nat
    <2>1. Len(V) <= MaxSize
      BY <1>1 DEF Short
    <2>. HIDE DEF V
    <2>. QED BY <1>1, <2>1, ArrayAssumption
  <1>5. CASE i < 0
    <2>1. Go(u)
      BY <1>3, <1>5
    <2>2. Legal(Now, u)
      BY <1>2 DEF Legal
    <2>. QED BY <2>1, <2>2, GoLegal
  <1>6. CASE ~(i < 0)
    <2>1. Go(Set(u, a, Store(u.ary[a], c)))
      BY <1>3, <1>6
    <2>2. i \in Nat
      BY <1>4, <1>6
    <2>. HIDE DEF V, i
    <2>3. c \in Seq(Elem) /\ Len(c) = (IF i + 1 <= Len(V) THEN Len(V) ELSE i + 1) /\ values!Result(V, c, Others(Now))
      BY <1>1, <2>2, ResultStored
    <2>. HIDE DEF c
    <2>4. Short(c)
      BY <1>1, <1>4, <2>2, <2>3 DEF Short
    <2>5. Legal(Now, Set(u, a, Store(u.ary[a], c)))
      BY <1>1, <2>3, <2>4, ModifyStore DEF V
    <2>. QED BY <2>1, <2>5, GoLegal
  <1>. QED BY <1>5, <1>6

\* resize cuts the array or fills it up with nil.
LEMMA ResizeStep ==
    ASSUME IInv, NEW a \in Live, mrb_ary_resize(a)
    PROVE  Legal(Now, Now')
  <1>. DEFINE V == View(Now)[a]
              u == ary_modify(Now, a)
              x == u.ary[a]
  <1>1. Good(Now) /\ a \in Arr /\ Now.ary[a] # Gone /\ V \in Seq(Elem) /\ Short(V) /\ Len(V) \in Nat
    BY LiveArray
  <1>2. Good(u) /\ View(u) = View(Now) /\ x.cells = V /\ x \in Own /\ Roomy(x)
    <2>1. Good(u) /\ View(u) = View(Now) /\ x.cells = V /\ x \in Own
      BY <1>1, Modify
    <2>. HIDE DEF u
    <2>. QED BY <1>1, <2>1, OwnRoomy
  <1>3. PICK n \in 0 .. MaxSize :
            Go(Set(u, a, IF n < Len(V) THEN [ary_shrink_capa(x) EXCEPT !.cells = SubSeq(@, 1, n)]
                         ELSE Store(x, Filled(V, n))))
    BY <1>2 DEF mrb_ary_resize
  <1>4. CASE n < Len(V)
    <2>. DEFINE y == ary_shrink_capa(x)
                c == SubSeq(V, 1, n)
                z == [y EXCEPT !.cells = c]
    <2>1. y \in Own /\ y.cells = V /\ Len(V) <= ARY_CAPA(y)
      BY <1>2, ShrinkFits DEF Roomy
    <2>2. Go(Set(u, a, z))
      BY <1>3, <1>4, <2>1
    <2>3. c \in Seq(Elem) /\ Len(c) = n /\ n \in 0 .. Len(V) /\ Len(c) <= Len(V)
      <3>. HIDE DEF V
      <3>. QED BY <1>1, <1>4
    <2>4. values!Result(V, c, Others(Now))
      BY <1>1, <2>3, ResultEnds
    <2>. HIDE DEF y, c
    <2>5. Roomy(z) /\ z.cells = c
      BY <1>1, <2>1, <2>3, FewerRoomy
    <2>. HIDE DEF z
    <2>6. Legal(Now, Set(u, a, z))
      BY <1>1, <2>4, <2>5, ModifyPut
    <2>. QED BY <2>2, <2>6, GoLegal
  <1>5. CASE ~(n < Len(V))
    <2>. DEFINE c == Filled(V, n)
    <2>1. Go(Set(u, a, Store(u.ary[a], c)))
      BY <1>3, <1>5
    <2>2. c \in Seq(Elem) /\ Len(c) = (IF n <= Len(V) THEN Len(V) ELSE n) /\ n \in Nat
      BY <1>1, FilledForm
    <2>3. values!Result(V, c, Others(Now))
      BY <1>1, <2>2, ResultFilled
    <2>. HIDE DEF c
    <2>4. Short(c)
      BY <1>1, <2>2 DEF Short
    <2>5. Legal(Now, Set(u, a, Store(u.ary[a], c)))
      BY <1>1, <2>3, <2>4, ModifyStore
    <2>. QED BY <2>1, <2>5, GoLegal
  <1>. QED BY <1>4, <1>5

\* delete_at takes one element out and gives memory back.
LEMMA DeleteAtStep ==
    ASSUME IInv, NEW a \in Live, mrb_ary_delete_at(a)
    PROVE  Legal(Now, Now')
  <1>. DEFINE V == View(Now)[a]
              u == ary_modify(Now, a)
              x == u.ary[a]
  <1>1. /\ Good(Now) /\ a \in Arr /\ Now.ary[a] # Gone /\ V \in Seq(Elem) /\ Short(V) /\ Len(V) \in Nat
        /\ Len(V) = ARY_LEN(ary[a])
    BY LiveArray
  <1>2. Good(u) /\ View(u) = View(Now) /\ x.cells = V /\ x \in Own /\ Roomy(x)
    <2>1. Good(u) /\ View(u) = View(Now) /\ x.cells = V /\ x \in Own
      BY <1>1, Modify
    <2>. HIDE DEF u
    <2>. QED BY <1>1, <2>1, OwnRoomy
  <1>3. PICK i \in 1 .. Len(V) : Go(Set(u, a, ary_shrink_capa([x EXCEPT !.cells = RemoveAt(V, i)])))
    BY <1>1, <1>2 DEF mrb_ary_delete_at
  <1>. DEFINE c == RemoveAt(V, i)
              y == [x EXCEPT !.cells = c]
              z == ary_shrink_capa(y)
  <1>4. c \in Seq(Elem) /\ Len(c) = Len(V) - 1 /\ values!Result(V, c, Others(Now))
    BY <1>1, ResultRemoved
  <1>5. Len(c) <= Len(V)
    BY <1>1, <1>4
  <1>. HIDE DEF c
  <1>6. Roomy(y) /\ y.cells = c
    BY <1>2, <1>4, <1>5, FewerRoomy DEF Roomy
  <1>. HIDE DEF y
  <1>7. z \in Own /\ z.cells = c /\ Len(c) <= ARY_CAPA(z)
    BY <1>6, ShrinkFits DEF Roomy
  <1>8. Roomy(z)
    BY <1>6, <1>7 DEF Roomy
  <1>9. Go(Set(u, a, z))
    BY <1>3 DEF y, c
  <1>. HIDE DEF z
  <1>10. Legal(Now, Set(u, a, z))
    BY <1>1, <1>4, <1>7, <1>8, ModifyPut
  <1>. QED BY <1>9, <1>10, GoLegal

\* reverse! puts the elements in the opposite order.
LEMMA ReverseStep ==
    ASSUME IInv, NEW a \in Live, mrb_ary_reverse_bang(a)
    PROVE  Legal(Now, Now')
  <1>. DEFINE V == View(Now)[a]
              u == ary_modify(Now, a)
              x == u.ary[a]
              c == Reverse(V)
              y == [x EXCEPT !.cells = c]
  <1>1. Good(Now) /\ a \in Arr /\ Now.ary[a] # Gone /\ V \in Seq(Elem) /\ Len(V) \in Nat
    BY LiveArray
  <1>2. Good(u) /\ View(u) = View(Now) /\ x.cells = V /\ x \in Own /\ Roomy(x)
    <2>1. Good(u) /\ View(u) = View(Now) /\ x.cells = V /\ x \in Own
      BY <1>1, Modify
    <2>. HIDE DEF u
    <2>. QED BY <1>1, <2>1, OwnRoomy
  <1>3. Go(Set(u, a, y))
    BY <1>2 DEF mrb_ary_reverse_bang
  <1>4. c \in Seq(Elem) /\ Len(c) = Len(V)
    <2>. HIDE DEF V
    <2>. QED BY <1>1 DEF Reverse
  <1>5. values!Result(V, c, Others(Now))
    BY <1>1, ResultEnds
  <1>. HIDE DEF c
  <1>6. Roomy(y) /\ y.cells = c
    <2>1. Len(c) <= Len(x.cells)
      BY <1>1, <1>2, <1>4
    <2>. QED BY <1>2, <1>4, <2>1, FewerRoomy DEF Roomy
  <1>. HIDE DEF y
  <1>7. Legal(Now, Set(u, a, y))
    BY <1>1, <1>5, <1>6, ModifyPut
  <1>. QED BY <1>3, <1>7, GoLegal

\* The empty array needs no buffer.
LEMMA EmptyRoomy ==
    Roomy(Embed(<< >>)) /\ Embed(<< >>).cells = << >> /\ << >> \in Seq(Elem)
  <1>. DEFINE c == << >>
              x == Embed(c)
  <1>1. c \in Seq(Elem) /\ Len(c) = 0
    OBVIOUS
  <1>. HIDE DEF c
  <1>2. x \in Own /\ x.cells = c /\ ARY_CAPA(x) = EmbedMax
    BY <1>1, OwnForms
  <1>. HIDE DEF x
  <1>3. Roomy(x)
    BY <1>1, <1>2, ArrayAssumption DEF Roomy, Short
  <1>. QED BY <1>1, <1>2, <1>3 DEF c, x

\* clear leaves an empty array.
LEMMA ClearStep ==
    ASSUME IInv, NEW a \in Live, mrb_ary_clear(a)
    PROVE  Legal(Now, Now')
  <1>. DEFINE V == View(Now)[a]
              y == Embed(<< >>)
  <1>1. Good(Now) /\ a \in Arr /\ Now.ary[a] # Gone /\ V \in Seq(Elem)
    BY LiveArray
  <1>2. Go(Set(ary_modify(Now, a), a, y))
    BY DEF mrb_ary_clear
  <1>3. Roomy(y) /\ y.cells = << >>
    BY EmptyRoomy
  <1>4. values!Result(V, << >>, Others(Now))
    BY <1>1, ResultOther
  <1>. HIDE DEF y
  <1>5. Legal(Now, Set(ary_modify(Now, a), a, y))
    BY <1>1, <1>3, <1>4, ModifyPut
  <1>. QED BY <1>2, <1>5, GoLegal

\* A freed array lets go of its buffer, and no other array shows it.
LEMMA FreeStep ==
    ASSUME IInv, NEW a \in Live, obj_free(a)
    PROVE  Legal(Now, Now')
  <1>1. /\ Good(Now) /\ a \in Arr /\ Now.ary[a] # Gone /\ ary[a] \in Own \cup Window
        /\ Now.ary = ary /\ Now.sh = shared
    BY LiveArray
  <1>2. CASE ary[a] \in Own
    <2>. DEFINE t == Set(Now, a, Gone)
    <2>1. t = [ary |-> [ary EXCEPT ![a] = Gone], sh |-> shared]
      BY <1>1, SetHeap DEF Good
    <2>2. Go(t)
      BY <1>2, <2>1, Forms DEF obj_free, Go
    <2>. HIDE DEF t
    <2>3. Becomes(Now, t, a, Gone)
      <3>1. Good(Now) /\ Now.ary[a] \in Own \cup {Gone} /\ Gone \in Own \cup {Gone}
        BY <1>1, <1>2
      <3>. QED BY <1>1, <3>1, SetOwn DEF Becomes, t
    <2>4. Legal(Now, t)
      BY <1>1, <2>3, LegalResult
    <2>. QED BY <2>2, <2>4, GoLegal
  <1>3. CASE ary[a] \in Window
    <2>. DEFINE t == [ary |-> [ary EXCEPT ![a] = Gone], sh |-> mrb_ary_decref(shared, ary[a].sh)]
    <2>1. Go(t)
      BY <1>3, Forms DEF obj_free, Go
    <2>2. Becomes(Now, t, a, Gone)
      <3>1. Now.ary[a] \in Window /\ Gone \in Own \cup {Gone}
        BY <1>1, <1>3
      <3>2. LET r == [ary |-> [Now.ary EXCEPT ![a] = Gone], sh |-> mrb_ary_decref(Now.sh, Now.ary[a].sh)]
            IN  Good(r) /\ View(r) = [View(Now) EXCEPT ![a] = Gone]
        BY <1>1, <3>1, DropRef
      <3>. QED BY <1>1, <3>2 DEF Becomes
    <2>. HIDE DEF t
    <2>3. Legal(Now, t)
      BY <1>1, <2>2, LegalResult
    <2>. QED BY <2>1, <2>3, GoLegal
  <1>. QED BY <1>1, <1>2, <1>3

\* The elements of b after ary_modify() of a are those it showed before.
LEMMA OtherCells ==
    ASSUME IInv, NEW a \in Live, NEW b \in Live
    PROVE  LET u == ary_modify(Now, a)
           IN  Cells(u.sh, u.ary[b]) = View(Now)[b] /\ u.ary[b] # Gone
  <1>. DEFINE u == ary_modify(Now, a)
  <1>1. Good(Now) /\ a \in Arr /\ b \in Arr /\ Now.ary[a] # Gone /\ Now.ary[b] # Gone
    BY LiveArray
  <1>2. /\ Good(u) /\ View(u) = View(Now) /\ u.ary[a] # Gone
        /\ \A o \in Arr : o # a => u.ary[o] = Now.ary[o]
    BY <1>1, Modify
  <1>. HIDE DEF u
  <1>3. u.ary[b] # Gone
    BY <1>1, <1>2
  <1>4. View(u)[b] = Cells(u.sh, u.ary[b])
    BY <1>1, <1>2, <1>3, Shown
  <1>. QED BY <1>2, <1>3, <1>4 DEF u

\* A splice puts the elements of b, which may be the array itself, or none in the place of some.
LEMMA SpliceStep ==
    ASSUME IInv, NEW a \in Live, NEW b \in Live \cup {Gone}, mrb_ary_splice(a, b)
    PROVE  Legal(Now, Now')
  <1>. DEFINE V == View(Now)[a]
              u == ary_modify(Now, a)
              r == IF b = Gone THEN << >> ELSE Cells(u.sh, u.ary[b])
              x == IF b = a /\ Len(r) > ReplaceSharedMin THEN Heap(r, Len(r)) ELSE u.ary[a]
  <1>1. Good(Now) /\ a \in Arr /\ Now.ary[a] # Gone /\ V \in Seq(Elem)
    BY LiveArray
  <1>2. Gone \notin Live
    BY ArrayAssumption DEF Live
  <1>3. r \in Seq(Elem) /\ r \in {<< >>} \cup Others(Now) /\ (b = a => r = V)
    <2>1. CASE b = Gone
      BY <1>2, <2>1
    <2>2. CASE b # Gone
      <3>1. b \in Live
        BY <2>2
      <3>2. r = View(Now)[b]
        BY <2>2, <3>1, OtherCells
      <3>. HIDE DEF r
      <3>. QED BY <3>1, <3>2, LiveArray
    <2>. QED BY <2>1, <2>2
  <1>4. x \in Own /\ x.cells = V
    <2>1. u.ary[a] \in Own /\ u.ary[a].cells = V
      BY <1>1, Modify
    <2>. HIDE DEF u, r, V
    <2>2. Len(r) \in Nat
      BY <1>3
    <2>3. Heap(r, Len(r)) \in Own /\ Heap(r, Len(r)).cells = r
      BY <1>3, <2>2, OwnForms
    <2>. QED BY <1>3, <2>1, <2>3
  <1>5. PICK head \in 0 .. MaxSize - 1, len \in 0 .. MaxSize - 1 :
            Len(Splice(x, head, len, r).cells) <= MaxSize /\ Go(Set(u, a, Splice(x, head, len, r)))
    <2>. DEFINE Done(y) == Len(y.cells) <= MaxSize /\ Go(Set(u, a, y))
    <2>1. \E y \in {Splice(x, head, len, r) : head, len \in 0 .. MaxSize - 1} : Done(y)
      BY DEF mrb_ary_splice
    <2>. HIDE DEF u, r, x, V, Done
    <2>2. \E head \in 0 .. MaxSize - 1, len \in 0 .. MaxSize - 1 : Done(Splice(x, head, len, r))
      BY <2>1
    <2>. QED BY <2>2 DEF Done
  <1>. HIDE DEF u, r, x, V
  <1>. DEFINE y == Splice(x, head, len, r)
  <1>6. Len(y.cells) <= MaxSize /\ Go(Set(u, a, y))
    BY <1>5
  <1>. DEFINE t == SpliceCells(V, head, len, r)
  <1>7. t \in Seq(Elem) /\ Splice(x, head, len, r) = Store(x, t) /\ values!Result(V, t, Others(Now))
    <2>1. OwnWith(x, V) /\ OtherSeq(r, Others(Now))
      BY <1>1, <1>3, <1>4 DEF OwnWith, OtherSeq
    <2>2. Place(head, len)
      BY ArrayAssumption DEF Place
    <2>. QED BY <2>1, <2>2, ResultSpliced
  <1>. HIDE DEF t
  <1>8. y \in Own /\ y.cells = t /\ Len(t) <= ARY_CAPA(y)
    <2>1. y = Store(x, t)
      BY <1>7
    <2>. HIDE DEF y
    <2>. QED BY <1>4, <1>7, <2>1, StoreFits
  <1>. HIDE DEF y
  <1>9. Roomy(y)
    BY <1>6, <1>7, <1>8 DEF Roomy, Short
  <1>10. Legal(Now, Set(u, a, y))
    BY <1>1, <1>7, <1>8, <1>9, ModifyPut DEF u, V
  <1>. QED BY <1>6, <1>10, GoLegal

\* replace gives a the elements of b.
LEMMA ReplaceLegal ==
    ASSUME IInv, NEW a \in Live, NEW b \in Live
    PROVE  Legal(Now, ary_replace(Now, a, b))
  <1>. DEFINE t == ary_replace(Now, a, b)
              V == View(Now)[a]
              W == View(Now)[b]
  <1>1. /\ Good(Now) /\ a \in Arr /\ Now.ary[a] # Gone /\ b \in Arr /\ Now.ary[b] # Gone
        /\ V \in Seq(Elem) /\ W \in Others(Now)
    BY LiveArray
  <1>2. Becomes(Now, t, a, W)
    BY <1>1, Replace
  <1>3. values!Result(V, W, Others(Now))
    BY <1>1, ResultOther
  <1>. HIDE DEF t, W
  <1>. QED BY <1>1, <1>2, <1>3, LegalResult DEF t

\* concat is replace for an empty array, and appends otherwise.
LEMMA ConcatStep ==
    ASSUME IInv, NEW a \in Live, NEW b \in Live, ary_concat(a, b)
    PROVE  Legal(Now, Now')
  <1>. DEFINE V == View(Now)[a]
              W == View(Now)[b]
              u == ary_modify(Now, a)
              c == V \o W
  <1>1. /\ Good(Now) /\ a \in Arr /\ Now.ary[a] # Gone /\ V \in Seq(Elem) /\ W \in Seq(Elem)
        /\ W \in Others(Now) /\ Len(V) = ARY_LEN(ary[a])
    BY LiveArray
  <1>2. CASE ARY_LEN(ary[a]) = 0
    <2>1. Go(ary_replace(Now, a, b))
      BY <1>2 DEF ary_concat
    <2>. QED BY <2>1, ReplaceLegal, GoLegal
  <1>3. CASE ARY_LEN(ary[a]) # 0
    <2>1. Cells(u.sh, u.ary[b]) = W /\ u.ary[a].cells = V
      BY <1>1, OtherCells, Modify
    <2>2. Go(Set(u, a, Store(u.ary[a], c))) /\ Len(V) + Len(W) <= MaxSize
      BY <1>1, <1>3, <2>1 DEF ary_concat
    <2>3. Short(c)
      <3>. HIDE DEF V, W
      <3>1. c \in Seq(Elem) /\ Len(c) = Len(V) + Len(W)
        BY <1>1
      <3>. QED BY <2>2, <3>1 DEF Short
    <2>4. values!Result(V, c, Others(Now))
      BY <1>1, ResultOther
    <2>. HIDE DEF c
    <2>5. Legal(Now, Set(u, a, Store(u.ary[a], c)))
      BY <1>1, <2>3, <2>4, ModifyStore
    <2>. QED BY <2>2, <2>5, GoLegal
  <1>. QED BY <1>2, <1>3

\* replace, as an operation.
LEMMA ReplaceStep ==
    ASSUME IInv, NEW a \in Live, NEW b \in Live, mrb_ary_replace(a, b)
    PROVE  Legal(Now, Now')
    BY ReplaceLegal, GoLegal DEF mrb_ary_replace

\* A copy, or a part, of a live array that becomes a new one is legal.
LEMMA LegalPart ==
    ASSUME IInv, NEW a \in Live, NEW b \in Arr, ary[b] = Gone, NEW t, NEW beg \in Nat, NEW len \in Nat,
           Becomes(Now, t, b, Win(View(Now)[a], beg, len))
    PROVE  beg + len <= Len(View(Now)[a]) => Legal(Now, t)
  <1>. DEFINE V == View(Now)[a]
              w == Win(V, beg, len)
  <1>. SUFFICES ASSUME beg + len <= Len(V) PROVE Legal(Now, t)
    OBVIOUS
  <1>1. Good(Now) /\ V \in Seq(Elem) /\ V \in Others(Now) /\ Now.ary[b] = Gone
    BY LiveArray
  <1>. HIDE DEF V
  <1>2. w \in Seq(Elem) /\ values!Made(w, Others(Now))
    BY <1>1, Part, MadePart
  <1>. HIDE DEF w
  <1>. QED BY <1>1, <1>2, LegalMade DEF w, V

\* All of an array is a part of it.
LEMMA WholePart ==
    ASSUME NEW V \in Seq(Elem)
    PROVE  Win(V, 0, Len(V)) = V /\ Len(V) \in Nat /\ 0 + Len(V) <= Len(V)
  <1>1. Len(V) \in Nat
    OBVIOUS
  <1>2. SubSeq(V, 1, Len(V)) = V
    BY SubSeqFull
  <1>. QED BY <1>1, <1>2 DEF Win

\* dup makes a copy.
LEMMA DupStep ==
    ASSUME IInv, NEW a \in Live, NEW b \in Arr, ary_dup(a, b)
    PROVE  Legal(Now, Now')
  <1>. DEFINE V == View(Now)[a]
              e == Embed(<< >>)
              u == Set(Now, b, e)
              t == ary_replace(u, b, a)
  <1>1. /\ Good(Now) /\ a \in Arr /\ Now.ary[a] # Gone /\ V \in Seq(Elem) /\ Now.ary = ary
        /\ ary[b] = Gone /\ a # b /\ Now.ary[b] = Gone
    BY LiveArray DEF ary_dup
  <1>2. Go(t)
    BY DEF ary_dup
  <1>3. Roomy(e) /\ e.cells = << >> /\ e \in Own /\ e # Gone
    BY EmptyRoomy, Forms DEF Roomy
  <1>. HIDE DEF e
  <1>4. Good(u) /\ View(u) = [View(Now) EXCEPT ![b] = << >>]
    <2>1. Becomes(Now, u, b, e.cells)
      BY <1>1, <1>3, PutOwn DEF Unshared
    <2>. QED BY <1>3, <2>1 DEF Becomes
  <1>5. u.ary[b] # Gone /\ u.ary[a] # Gone
    <2>1. /\ u = [ary |-> [Now.ary EXCEPT ![b] = e], sh |-> Now.sh]
          /\ Now.ary \in [Arr -> Own \cup Window \cup {Gone}]
      BY <1>1, <1>3, SetHeap, HeapParts DEF Good
    <2>. QED BY <1>1, <1>3, <2>1
  <1>6. View(u)[a] = V
    BY <1>1, <1>4 DEF View
  <1>. HIDE DEF u
  <1>7. Becomes(u, t, b, V)
    BY <1>1, <1>4, <1>5, <1>6, Replace
  <1>. HIDE DEF t
  <1>8. Becomes(Now, t, b, V)
    BY <1>4, <1>7 DEF Becomes
  <1>9. Legal(Now, t)
    <2>1. Becomes(Now, t, b, Win(V, 0, Len(V))) /\ 0 \in Nat /\ Len(V) \in Nat /\ 0 + Len(V) <= Len(V)
      BY <1>1, <1>8, WholePart
    <2>. QED BY <1>1, <2>1, LegalPart
  <1>. QED BY <1>2, <1>9, GoLegal

\* A shared copy holds the buffer of the array, or is a dup.
LEMMA SharedCopyStep ==
    ASSUME IInv, NEW a \in Live, NEW b \in Arr, mrb_ary_make_shared_copy(a, b)
    PROVE  Legal(Now, Now')
  <1>. DEFINE V == View(Now)[a]
              u == ary_make_shared(Now, a)
              n == Len(V)
              t == ShareWith(u, a, b, 0, n)
  <1>1. /\ Good(Now) /\ a \in Arr /\ Now.ary[a] # Gone /\ V \in Seq(Elem) /\ Now.ary = ary
        /\ ary[b] = Gone /\ a # b /\ Now.ary[b] = Gone /\ n = ARY_LEN(ary[a])
    BY LiveArray DEF mrb_ary_make_shared_copy
  <1>2. CASE ary[a].kind = "embed"
    BY <1>2, DupStep DEF mrb_ary_make_shared_copy
  <1>3. CASE ary[a].kind # "embed"
    <2>1. Go(t)
      BY <1>1, <1>3 DEF mrb_ary_make_shared_copy
    <2>2. Good(u) /\ View(u) = View(Now) /\ u.ary[a] \in Window /\ u.ary[b] = Gone
      BY <1>1, <1>3, MakeShared
    <2>. HIDE DEF u
    <2>3. n \in Nat /\ 0 \in Nat /\ 0 + n <= Len(V)
      BY <1>1, WholePart
    <2>4. Becomes(Now, t, b, Win(V, 0, n))
      <3>1. u.ary[b] \in Own \cup {Gone} /\ 0 + n <= Len(View(u)[a])
        BY <2>2, <2>3
      <3>. HIDE DEF n
      <3>2. LET r == ShareWith(u, a, b, 0, n)
            IN  Good(r) /\ View(r) = [View(u) EXCEPT ![b] = Win(View(u)[a], 0, n)]
        BY <1>1, <2>2, <2>3, <3>1, Share
      <3>. QED BY <2>2, <3>2 DEF Becomes
    <2>. HIDE DEF t, n
    <2>5. Legal(Now, t)
      BY <1>1, <2>3, <2>4, LegalPart
    <2>. QED BY <2>1, <2>5, GoLegal
  <1>. QED BY <1>2, <1>3

\* A slice is a part of the array, whether it is copied or shared.
LEMMA AgetStep ==
    ASSUME IInv, NEW a \in Live, NEW b \in Arr, mrb_ary_aget(a, b)
    PROVE  Legal(Now, Now')
  <1>. DEFINE V == View(Now)[a]
              e == Embed(<< >>)
  <1>1. /\ Good(Now) /\ a \in Arr /\ Now.ary[a] # Gone /\ V \in Seq(Elem) /\ Now.ary = ary
        /\ ary[b] = Gone /\ Now.ary[b] = Gone /\ Len(V) = ARY_LEN(ary[a]) /\ Len(V) \in Nat
        /\ V \in Others(Now)
    BY LiveArray DEF mrb_ary_aget
  <1>2. CASE Go(Set(Now, b, e))
    <2>1. Roomy(e) /\ e.cells = << >> /\ << >> \in Seq(Elem)
      BY EmptyRoomy
    <2>2. values!Made(<< >>, Others(Now))
      <3>1. 0 \in Nat /\ 0 + 0 <= Len(V)
        BY <1>1
      <3>. QED BY <1>1, <3>1, MadePart
    <2>. HIDE DEF e
    <2>3. Becomes(Now, Set(Now, b, e), b, << >>)
      <3>1. Becomes(Now, Set(Now, b, e), b, e.cells)
        BY <1>1, <2>1, PutOwn DEF Unshared
      <3>. QED BY <2>1, <3>1
    <2>4. Legal(Now, Set(Now, b, e))
      BY <1>1, <2>1, <2>2, <2>3, LegalMade
    <2>. QED BY <1>2, <2>4, GoLegal
  <1>3. CASE \E i \in 0 .. ARY_LEN(ary[a]) - 1 : \E len \in 0 .. ARY_LEN(ary[a]) - i :
                Go(ary_subseq(Now, a, b, i, len))
    <2>0. PICK i \in 0 .. Len(V) - 1 : \E len \in 0 .. Len(V) - i : Go(ary_subseq(Now, a, b, i, len))
      BY <1>1, <1>3
    <2>1. PICK len \in 0 .. Len(V) - i : Go(ary_subseq(Now, a, b, i, len))
      BY <2>0
    <2>2. i \in Nat /\ len \in Nat /\ i + len <= Len(V)
      <3>. HIDE DEF V
      <3>. QED BY <1>1
    <2>. DEFINE t == ary_subseq(Now, a, b, i, len)
    <2>3. Becomes(Now, t, b, Win(V, i, len))
      BY <1>1, <2>2, Slice
    <2>. HIDE DEF t
    <2>4. Legal(Now, t)
      BY <1>1, <2>2, <2>3, LegalPart
    <2>. QED BY <2>1, <2>4, GoLegal DEF t
  <1>. QED BY <1>2, <1>3 DEF mrb_ary_aget

\* first(n) is a slice of a shared array, and a copy of another.
LEMMA FirstStep ==
    ASSUME IInv, NEW a \in Live, NEW b \in Arr, mrb_ary_first(a, b)
    PROVE  Legal(Now, Now')
  <1>. DEFINE V == View(Now)[a]
  <1>1. /\ Good(Now) /\ a \in Arr /\ Now.ary[a] # Gone /\ V \in Seq(Elem) /\ Now.ary = ary
        /\ ary[b] = Gone /\ Now.ary[b] = Gone /\ Len(V) = ARY_LEN(ary[a]) /\ Len(V) \in Nat
        /\ ary[a] \in Own \cup Window /\ Short(V)
    BY LiveArray DEF mrb_ary_first
  <1>2. PICK n \in 0 .. Len(V) :
            IF SharedP(ary[a]) THEN Go(ary_subseq(Now, a, b, 0, n))
            ELSE Go(Set(Now, b, ary_new_from_values(SubSeq(ary[a].cells, 1, n))))
    BY <1>1 DEF mrb_ary_first
  <1>3. n \in Nat /\ 0 \in Nat /\ 0 + n <= Len(V)
    <2>. HIDE DEF V
    <2>. QED BY <1>1
  <1>4. CASE SharedP(ary[a])
    <2>. DEFINE t == ary_subseq(Now, a, b, 0, n)
    <2>1. Go(t)
      BY <1>2, <1>4
    <2>2. Becomes(Now, t, b, Win(V, 0, n))
      BY <1>1, <1>3, Slice
    <2>. HIDE DEF t
    <2>3. Legal(Now, t)
      BY <1>1, <1>3, <2>2, LegalPart
    <2>. QED BY <2>1, <2>3, GoLegal
  <1>5. CASE ~SharedP(ary[a])
    <2>. DEFINE w == Win(V, 0, n)
                t == Set(Now, b, ary_new_from_values(w))
    <2>1. ary[a].cells = V
      BY <1>1, <1>5, LiveArray, Forms
    <2>2. SubSeq(V, 1, n) = w
      BY <1>3 DEF Win
    <2>3. Go(t)
      BY <1>2, <1>5, <2>1, <2>2
    <2>4. Short(w)
      <3>. HIDE DEF V
      <3>1. w \in Seq(Elem) /\ Len(w) = n
        BY <1>1, <1>3, Part
      <3>. QED BY <1>1, <1>3, <3>1, ArrayAssumption DEF Short
    <2>. HIDE DEF w
    <2>5. Becomes(Now, t, b, w)
      BY <1>1, <2>4, PutNew DEF Unshared
    <2>. HIDE DEF t
    <2>6. Legal(Now, t)
      BY <1>1, <1>3, <2>5, LegalPart DEF w
    <2>. QED BY <2>3, <2>6, GoLegal
  <1>. QED BY <1>4, <1>5

\* A new array of one value.
LEMMA NewStep ==
    ASSUME IInv, NEW b \in Arr, mrb_ary_new_from_values(b)
    PROVE  Legal(Now, Now')
  <1>1. Good(Now) /\ Now.ary[b] = Gone
    BY DEF IInv, Now, mrb_ary_new_from_values
  <1>2. PICK v \in Val, n \in 0 .. MaxSize : Go(Set(Now, b, ary_new_from_values([i \in 1 .. n |-> v])))
    BY DEF mrb_ary_new_from_values
  <1>. DEFINE c == [i \in 1 .. n |-> v]
              t == Set(Now, b, ary_new_from_values(c))
  <1>3. n \in Nat /\ n <= MaxSize /\ v \in Elem
    BY ArrayAssumption DEF Elem
  <1>4. c \in Seq(Elem) /\ Len(c) = n
    BY <1>3
  <1>5. Short(c) /\ values!Made(c, Others(Now))
    <2>1. c = [i \in 1 .. Len(c) |-> v]
      BY <1>4
    <2>. HIDE DEF c
    <2>. QED BY <1>3, <1>4, <2>1 DEF Short, values!Made
  <1>. HIDE DEF c
  <1>6. Becomes(Now, t, b, c)
    BY <1>1, <1>5, PutNew DEF Unshared
  <1>. HIDE DEF t
  <1>7. Legal(Now, t)
    BY <1>1, <1>4, <1>5, <1>6, LegalMade
  <1>. QED BY <1>2, <1>7, GoLegal DEF t, c

-----------------------------------------------------------------------------
(* The specification.                                                      *)

\* Every operation of array.c keeps the heap good, and is one operation on one
\* value, or on one and a new one, or none.
LEMMA StepLegal ==
    ASSUME IInv, Next
    PROVE  Legal(Now, Now')
  <1>1. ASSUME NEW b \in Arr, mrb_ary_new_from_values(b) PROVE Legal(Now, Now')
    BY <1>1, NewStep
  <1>2. ASSUME NEW a \in Live, mrb_ary_push(a) PROVE Legal(Now, Now')
    BY <1>2, PushStep
  <1>3. ASSUME NEW a \in Live, mrb_ary_pop(a) PROVE Legal(Now, Now')
    BY <1>3, PopStep
  <1>4. ASSUME NEW a \in Live, mrb_ary_shift(a) PROVE Legal(Now, Now')
    BY <1>4, ShiftStep
  <1>5. ASSUME NEW a \in Live, mrb_ary_unshift_values(a) PROVE Legal(Now, Now')
    BY <1>5, UnshiftStep
  <1>6. ASSUME NEW a \in Live, mrb_ary_set(a) PROVE Legal(Now, Now')
    BY <1>6, SetStep
  <1>7. ASSUME NEW a \in Live, mrb_ary_resize(a) PROVE Legal(Now, Now')
    BY <1>7, ResizeStep
  <1>8. ASSUME NEW a \in Live, mrb_ary_delete_at(a) PROVE Legal(Now, Now')
    BY <1>8, DeleteAtStep
  <1>9. ASSUME NEW a \in Live, mrb_ary_reverse_bang(a) PROVE Legal(Now, Now')
    BY <1>9, ReverseStep
  <1>10. ASSUME NEW a \in Live, mrb_ary_clear(a) PROVE Legal(Now, Now')
    BY <1>10, ClearStep
  <1>11. ASSUME NEW a \in Live, obj_free(a) PROVE Legal(Now, Now')
    BY <1>11, FreeStep
  <1>12. ASSUME NEW a \in Live, NEW b \in Live \cup {Gone}, mrb_ary_splice(a, b) PROVE Legal(Now, Now')
    BY <1>12, SpliceStep
  <1>13. ASSUME NEW a \in Live, NEW b \in Live, ary_concat(a, b) \/ mrb_ary_replace(a, b)
         PROVE  Legal(Now, Now')
    BY <1>13, ConcatStep, ReplaceStep
  <1>14. ASSUME NEW a \in Live, NEW b \in Arr, mrb_ary_shift_m(a, b) PROVE Legal(Now, Now')
    BY <1>14, ShiftManyStep
  <1>15. ASSUME NEW a \in Live, NEW b \in Arr, ary_dup(a, b) \/ mrb_ary_make_shared_copy(a, b)
         PROVE  Legal(Now, Now')
    BY <1>15, DupStep, SharedCopyStep
  <1>16. ASSUME NEW a \in Live, NEW b \in Arr, mrb_ary_aget(a, b) \/ mrb_ary_first(a, b)
         PROVE  Legal(Now, Now')
    BY <1>16, AgetStep, FirstStep
  <1>. QED BY <1>1, <1>2, <1>3, <1>4, <1>5, <1>6, <1>7, <1>8, <1>9, <1>10, <1>11, <1>12, <1>13,
              <1>14, <1>15, <1>16, Zenon DEF Next

\* No array and no buffer is a good heap.
LEMMA InitGood ==
    ASSUME Init
    PROVE  IInv /\ View(Now) = [a \in Arr |-> Gone]
  <1>1. Now = [ary |-> [a \in Arr |-> Gone], sh |-> [i \in Slot |-> Freed]]
    BY DEF Init, Now, Slot
  <1>2. Freed \in Buffer /\ Freed.refcnt = 0
    BY DEF Freed, Buffer
  <1>3. Now \in HeapType
    BY <1>1, <1>2 DEF HeapType
  <1>4. ASSUME NEW i \in Slot PROVE Now.sh[i].refcnt = Cardinality(Holders(Now.ary, i))
    <2>1. Holders(Now.ary, i) = {}
      BY <1>1 DEF Holders, Holds
    <2>. QED BY <1>1, <1>2, <2>1, FS_EmptySet
  <1>5. \A a \in Arr : Now.ary[a] = Gone
    BY <1>1
  <1>6. Good(Now)
    BY <1>3, <1>4, <1>5 DEF Good
  <1>7. View(Now) = [a \in Arr |-> Gone]
    BY <1>5 DEF View
  <1>. QED BY <1>6, <1>7 DEF IInv

\* The heap is good at all times.
LEMMA AlwaysGood == Spec => []IInv
  <1>1. Init => IInv
    BY InitGood
  <1>2. IInv /\ [Next]_aryVars => IInv'
    <2>1. CASE Next
      BY <2>1, StepLegal DEF Legal, IInv
    <2>2. CASE UNCHANGED aryVars
      BY <2>2 DEF aryVars, IInv, Now
    <2>. QED BY <2>1, <2>2
  <1>. QED BY <1>1, <1>2, PTL DEF Spec

\* For any number of arrays and any thresholds, the memory an array reads and
\* writes is there: it fits its structure or its buffer, and a window lies in
\* a buffer that has not been freed.
THEOREM Windows == Spec => []WindowsInside
  <1>1. IInv => WindowsInside
    <2>1. SUFFICES ASSUME IInv, NEW a \in Live
                   PROVE  LET x == ary[a]
                          IN  CASE x.kind = "embed" -> Len(x.cells) <= EmbedMax
                                [] x.kind = "heap" -> Len(x.cells) <= x.capa
                                [] x.kind = "shared" -> /\ shared[x.sh].refcnt > 0
                                                        /\ x.off >= 0 /\ x.len >= 0
                                                        /\ x.off + x.len <= Len(shared[x.sh].cells)
      BY DEF WindowsInside
    <2>. DEFINE x == ary[a]
    <2>2. x \in Own \cup Window /\ Fits(shared, x)
      <3>1. Good(Now) /\ a \in Arr /\ Now.ary[a] # Gone /\ Now.ary = ary /\ Now.sh = shared
        BY <2>1, LiveArray
      <3>. QED BY <2>1, <3>1, LiveArray DEF Good
    <2>. HIDE DEF x
    <2>3. CASE x \in Own
      <3>1. Len(x.cells) <= ARY_CAPA(x) /\ x.kind \in {"embed", "heap"}
        BY <2>2, <2>3, Forms DEF Fits
      <3>2. CASE x.kind = "embed"
        BY <3>1, <3>2 DEF ARY_CAPA, x
      <3>3. CASE x.kind = "heap"
        BY <3>1, <3>3 DEF ARY_CAPA, x
      <3>. QED BY <3>1, <3>2, <3>3
    <2>4. CASE x \in Window
      <3>1. x.kind = "shared" /\ x.off >= 0 /\ x.len >= 0 /\ SharedP(x)
        BY <2>4, Forms
      <3>. QED BY <2>2, <3>1 DEF Fits, x
    <2>. QED BY <2>2, <2>3, <2>4
  <1>. QED BY <1>1, AlwaysGood, PTL

\* For any number of arrays, the count of a shared buffer is the number of
\* arrays that hold it, so mrb_ary_decref() frees it with the last of them.
THEOREM Refcounts == Spec => []RefcntExact
  <1>1. IInv => RefcntExact
    <2>1. SUFFICES ASSUME IInv, NEW i \in DOMAIN shared
                   PROVE  shared[i].refcnt = Cardinality({a \in Live : SharedP(ary[a]) /\ ary[a].sh = i})
      BY DEF RefcntExact
    <2>2. Now.ary = ary /\ Now.sh = shared /\ Good(Now)
      BY <2>1 DEF IInv, Now
    <2>3. i \in Slot
      BY <2>1, <2>2, HeapParts DEF Good
    <2>4. {a \in Live : SharedP(ary[a]) /\ ary[a].sh = i} = Holders(ary, i)
      BY DEF Live, Holders, Holds
    <2>. QED BY <2>2, <2>3, <2>4 DEF Good
  <1>. QED BY <1>1, AlwaysGood, PTL

\* The values of a good heap are sequences of elements.
LEMMA ViewType ==
    ASSUME NEW s, Good(s)
    PROVE  View(s) \in [Arr -> Seq(Elem) \cup {Gone}]
  <1>1. ASSUME NEW a \in Arr PROVE View(s)[a] \in Seq(Elem) \cup {Gone}
    <2>1. CASE s.ary[a] = Gone
      BY <2>1 DEF View
    <2>2. CASE s.ary[a] # Gone
      BY <2>2, Shown
    <2>. QED BY <2>1, <2>2
  <1>. QED BY <1>1 DEF View

\* Sharing never shows: whatever the windows and buffers do, arrays behave as
\* ArrayValues says, each with a value of its own that only its operations change.
THEOREM Values == Spec => ImplementsValues
  <1>. DEFINE value == [a \in Arr |-> IF ary[a] = Gone THEN Gone ELSE Cells(shared, ary[a])]
  <1>1. value = View(Now)
    BY DEF View, Now
  <1>2. Init => values!ValuesInit
    <2>1. SUFFICES ASSUME Init PROVE values!ValuesInit
      OBVIOUS
    <2>2. value = [a \in Arr |-> Gone]
      BY <1>1, <2>1, InitGood
    <2>. QED BY <2>2 DEF values!ValuesInit
  <1>3. IInv /\ [Next]_aryVars => [values!ValuesNext]_value
    <2>1. SUFFICES ASSUME IInv, [Next]_aryVars
                   PROVE  values!ValuesNext \/ value' = value
      OBVIOUS
    <2>2. CASE UNCHANGED aryVars
      BY <2>2 DEF aryVars
    <2>3. CASE Next
      <3>1. Legal(Now, Now')
        BY <2>1, <2>3, StepLegal
      <3>2. value' = View(Now')
        BY DEF View, Now
      <3>3. CASE View(Now') = View(Now)
        BY <1>1, <3>2, <3>3
      <3>4. CASE values!Step(View(Now), View(Now'))
        <4>1. values!Step(value, value')
          BY <1>1, <3>2, <3>4
        <4>2. value' \in [Arr -> Seq(Val \cup {Nil}) \cup {Gone}]
          BY <3>1, <3>2, ViewType DEF Legal, Elem
        <4>. QED BY <4>1, <4>2 DEF values!ValuesNext
      <3>. QED BY <3>1, <3>3, <3>4 DEF Legal
    <2>. QED BY <2>1, <2>2, <2>3
  <1>. QED BY <1>2, <1>3, AlwaysGood, PTL DEF Spec, ImplementsValues, values!ValuesSpec

=============================================================================
