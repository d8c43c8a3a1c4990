----------------------------- MODULE SharedArray -----------------------------
(***************************************************************************)
(* Arrays and the memory they share (src/array.c).                         *)
(*                                                                         *)
(* An array keeps its elements in its own structure, in a buffer of its    *)
(* own, or in a window of a buffer it shares with others by reference      *)
(* count.  Taking a slice or shifting makes an array shared; whoever       *)
(* writes has to make it its own again, and may keep the buffer only if    *)
(* it is the last to hold it.                                              *)
(***************************************************************************)
EXTENDS Integers, Sequences, FiniteSets, SequencesExt

CONSTANTS
    Arr, Val, Nil, Gone,
    MaxSize,           \* ARY_MAX_SIZE
    EmbedMax,          \* MRB_ARY_EMBED_LEN_MAX (0: MRB_ARY_NO_EMBED)
    DefaultLen, ShrinkRatio,        \* ARY_DEFAULT_LEN, ARY_SHRINK_RATIO
    ShiftSharedMin, ReplaceSharedMin

\* What an array may hold, and the forms its structure takes
Elem == Val \cup {Nil}
Own == [kind : {"embed"}, cells : Seq(Elem)] \cup [kind : {"heap"}, cells : Seq(Elem), capa : Nat]
Window == [kind : {"shared"}, sh : 1 .. Cardinality(Arr), off : Nat, len : Nat]

\* ary_make_shared() does nothing for an embedded array, and its callers rely
\* on the thresholds to never bring one.
ASSUME ArrayAssumption ==
    /\ IsFiniteSet(Arr)
    /\ {MaxSize, EmbedMax, DefaultLen, ShrinkRatio, ShiftSharedMin, ReplaceSharedMin} \subseteq Nat
    /\ MaxSize > 0 /\ DefaultLen > 0 /\ ShrinkRatio > 1
    /\ EmbedMax <= ShiftSharedMin /\ EmbedMax <= ReplaceSharedMin
    /\ Nil \notin Val
    /\ Gone \notin Arr /\ Gone \notin Seq(Elem) /\ Gone \notin Own \cup Window

VARIABLES
    ary,       \* the RArray structures
    shared     \* the mrb_shared_array structures: reference count and buffer

aryVars == <<ary, shared>>

Embed(s) == [kind |-> "embed", cells |-> s]
Heap(s, capa) == [kind |-> "heap", cells |-> s, capa |-> capa]
Shared(i, off, len) == [kind |-> "shared", sh |-> i, off |-> off, len |-> len]
Freed == [refcnt |-> 0, cells |-> << >>]

Live == {a \in Arr : ary[a] # Gone}
SharedP(x) == x.kind = "shared"
ARY_LEN(x) == IF SharedP(x) THEN x.len ELSE Len(x.cells)
ARY_CAPA(x) == IF x.kind = "embed" THEN EmbedMax ELSE x.capa

\* The elements that x shows: its cells, or its window of the shared buffer sh
Cells(sh, x) == IF SharedP(x) THEN SubSeq(sh[x.sh].cells, x.off + 1, x.off + x.len) ELSE x.cells

\* A heap: both variables, as the helpers below pass them on
Now == [ary |-> ary, sh |-> shared]
Set(s, a, x) == [s EXCEPT !.ary[a] = x]
Go(s) == ary' = s.ary /\ shared' = s.sh

-----------------------------------------------------------------------------
(* Helpers.                                                                *)

mrb_ary_decref(sh, i) ==
    IF sh[i].refcnt = 1 THEN [sh EXCEPT ![i] = Freed] ELSE [sh EXCEPT ![i].refcnt = @ - 1]

\* The last holder of a buffer, at its start, takes it over; others copy.
ary_modify(s, a) ==
    LET x == s.ary[a]
        own == Heap(Cells(s.sh, x), x.len)
        last == s.sh[x.sh].refcnt = 1 /\ x.off = 0
    IN  IF ~SharedP(x) THEN s
        ELSE [Set(s, a, own) EXCEPT !.sh =
                  IF last THEN [@ EXCEPT ![x.sh] = Freed] ELSE mrb_ary_decref(@, x.sh)]

\* A buffer of its own becomes a shared one, cut to the length.
ary_make_shared(s, a) ==
    LET x == s.ary[a]
        i == CHOOSE j \in DOMAIN s.sh : s.sh[j].refcnt = 0 /\ \A k \in 1 .. j - 1 : s.sh[k].refcnt > 0
    IN  IF x.kind # "heap" THEN s
        ELSE [Set(s, a, Shared(i, 0, Len(x.cells))) EXCEPT !.sh[i] = [refcnt |-> 1, cells |-> x.cells]]

\* Mutant: the capacity doubles, whatever it was.
ExpandDoubles(capa, len) == capa * 2

\* The capacity doubles from ARY_DEFAULT_LEN as long as it does not hold len,
\* and is len itself where the next doubling would pass ARY_MAX_SIZE.
ary_expand_capa(capa, len) ==
    LET from == IF capa < DefaultLen THEN DefaultLen ELSE capa
        Doubles(n) == from * 2 ^ n < len /\ from * 2 ^ n <= MaxSize \div 2
        last == from * 2 ^ Max({n \in 0 .. len : \A m \in 0 .. n - 1 : Doubles(m)})
    IN  IF last < len THEN len ELSE last

\* x, not shared, with the elements c: it grows if it has to.
Store(x, c) ==
    IF Len(c) <= ARY_CAPA(x) THEN [x EXCEPT !.cells = c]
    ELSE Heap(c, ary_expand_capa(ARY_CAPA(x), Len(c)))

\* The capacity is halved while it is more than ShrinkRatio times the length.
ary_shrink_capa(x) ==
    LET Halved(n) == x.capa \div 2 ^ n
        enough == {n \in 1 .. x.capa : Halved(n) < DefaultLen \/ Halved(n) <= Len(x.cells) * ShrinkRatio}
        half == Halved(CHOOSE n \in enough : \A m \in enough : n <= m)
        capa == IF half < DefaultLen THEN DefaultLen ELSE half
    IN  IF x.kind = "embed" THEN x
        ELSE IF x.capa < DefaultLen * 2 \/ x.capa <= Len(x.cells) * ShrinkRatio THEN x
        ELSE IF capa \in Len(x.cells) + 1 .. x.capa - 1 THEN [x EXCEPT !.capa = capa] ELSE x

ary_new_from_values(c) == IF Len(c) <= EmbedMax THEN Embed(c) ELSE Heap(c, Len(c))

\* Mutant: the new holder is not counted.
ShareUncounted(s, a, b, beg, len) ==
    Set(s, b, Shared(s.ary[a].sh, s.ary[a].off + beg, len))

\* b becomes another holder of the buffer of a, with a window from beg on.
ShareWith(s, a, b, beg, len) ==
    LET x == s.ary[a]
    IN  [Set(s, b, Shared(x.sh, x.off + beg, len)) EXCEPT !.sh[x.sh].refcnt = @ + 1]

\* The first half of ary_replace(): a lets go of what it holds.
Released(s, a) ==
    LET x == s.ary[a]
    IN  IF ~SharedP(x) THEN s ELSE [Set(s, a, Heap(<< >>, 0)) EXCEPT !.sh = mrb_ary_decref(@, x.sh)]

ary_replace(s, a, b) ==
    LET t == Released(s, a)
        c == Cells(t.sh, t.ary[b])
    IN  IF a = b THEN s
        ELSE IF SharedP(t.ary[b]) \/ Len(c) > ReplaceSharedMin
        THEN ShareWith(ary_make_shared(t, b), b, a, 0, Len(c))
        ELSE Set(t, a, Store(t.ary[a], c))

ary_subseq(s, a, b, beg, len) ==
    IF ~SharedP(s.ary[a]) /\ len <= ShiftSharedMin
    THEN Set(s, b, ary_new_from_values(SubSeq(s.ary[a].cells, beg + 1, beg + len)))
    ELSE ShareWith(ary_make_shared(s, a), a, b, beg, len)

-----------------------------------------------------------------------------
(* Operations.                                                             *)

mrb_ary_new_from_values(b) ==
    /\ ary[b] = Gone
    /\ \E v \in Val, n \in 0 .. MaxSize : Go(Set(Now, b, ary_new_from_values([i \in 1 .. n |-> v])))

mrb_ary_push(a) ==
    LET s == ary_modify(Now, a)
    IN  /\ ARY_LEN(ary[a]) < MaxSize
        /\ \E v \in Val : Go(Set(s, a, Store(s.ary[a], Append(s.ary[a].cells, v))))

\* A shared array only gets a shorter window.
mrb_ary_pop(a) ==
    LET x == ary[a]
    IN  /\ ARY_LEN(x) > 0
        /\ Go(Set(Now, a, IF SharedP(x) THEN [x EXCEPT !.len = @ - 1]
                          ELSE [x EXCEPT !.cells = Front(@)]))

\* mrb_ary_shift(), and mrb_ary_shift_m() for n
Shifted(s, a, n) ==
    LET x == s.ary[a]
        t == ary_make_shared(s, a)
    IN  IF SharedP(x) \/ Len(x.cells) > ShiftSharedMin
        THEN Set(t, a, [t.ary[a] EXCEPT !.off = @ + n, !.len = @ - n])
        ELSE Set(s, a, [x EXCEPT !.cells = SubSeq(@, n + 1, Len(@))])

mrb_ary_shift(a) == ARY_LEN(ary[a]) > 0 /\ Go(Shifted(Now, a, 1))

mrb_ary_shift_m(a, b) ==
    /\ ary[b] = Gone
    /\ \E n \in 1 .. ARY_LEN(ary[a]) :
          LET taken == ary_new_from_values(SubSeq(Cells(shared, ary[a]), 1, n))
          IN  Go(Shifted(Set(Now, b, taken), a, n))

\* Mutant: the room before the window is taken to be nobody else's.
RoomBefore(x) == SharedP(x) /\ x.off >= 1

\* The only holder may put the element into the room before its window.
InPlace(x) == SharedP(x) /\ shared[x.sh].refcnt = 1 /\ x.off >= 1

mrb_ary_unshift_values(a) ==
    LET x == ary[a]
        s == ary_modify(Now, a)
    IN  /\ ARY_LEN(x) < MaxSize
        /\ \E v \in Val :
              IF InPlace(x)
              THEN Go([Set(Now, a, [x EXCEPT !.off = @ - 1, !.len = @ + 1])
                          EXCEPT !.sh[x.sh].cells[x.off] = v])
              ELSE Go(Set(s, a, Store(s.ary[a], <<v>> \o s.ary[a].cells)))

\* c filled with nil up to n elements
Filled(c, n) == c \o [i \in 1 .. n - Len(c) |-> Nil]

\* An index before the first element raises, after ary_modify().
mrb_ary_set(a) ==
    LET s == ary_modify(Now, a)
        c == s.ary[a].cells
    IN  \E n \in {-MaxSize, -1} \cup 0 .. MaxSize - 1, v \in Val :
            LET i == IF n < 0 THEN n + Len(c) ELSE n
            IN  IF i < 0 THEN Go(s)
                ELSE Go(Set(s, a, Store(s.ary[a], [Filled(c, i + 1) EXCEPT ![i + 1] = v])))

mrb_ary_resize(a) ==
    LET s == ary_modify(Now, a)
        x == s.ary[a]
    IN  \E n \in 0 .. MaxSize :
            Go(Set(s, a, IF n < Len(x.cells) THEN [ary_shrink_capa(x) EXCEPT !.cells = SubSeq(@, 1, n)]
                         ELSE Store(x, Filled(x.cells, n))))

ary_concat(a, b) ==
    LET s == ary_modify(Now, a)
        c == Cells(s.sh, s.ary[b])
    IN  IF ARY_LEN(ary[a]) = 0 THEN Go(ary_replace(Now, a, b))
        ELSE ARY_LEN(ary[a]) + Len(c) <= MaxSize /\ Go(Set(s, a, Store(s.ary[a], s.ary[a].cells \o c)))

mrb_ary_replace(a, b) == Go(ary_replace(Now, a, b))

ary_dup(a, b) == ary[b] = Gone /\ Go(ary_replace(Set(Now, b, Embed(<< >>)), b, a))

mrb_ary_make_shared_copy(a, b) ==
    /\ ary[b] = Gone
    /\ IF ary[a].kind = "embed" THEN ary_dup(a, b)
       ELSE Go(ShareWith(ary_make_shared(Now, a), a, b, 0, ARY_LEN(ary[a])))

\* ary[start, length], and last(n) for the end of the array: the length is cut to
\* what is there, and nothing is shared from the end on.
mrb_ary_aget(a, b) ==
    /\ ary[b] = Gone
    /\ \/ Go(Set(Now, b, Embed(<< >>)))
       \/ \E i \in 0 .. ARY_LEN(ary[a]) - 1 : \E len \in 0 .. ARY_LEN(ary[a]) - i :
             Go(ary_subseq(Now, a, b, i, len))

mrb_ary_first(a, b) ==
    /\ ary[b] = Gone
    /\ \E n \in 0 .. ARY_LEN(ary[a]) :
          IF SharedP(ary[a]) THEN Go(ary_subseq(Now, a, b, 0, n))
          ELSE Go(Set(Now, b, ary_new_from_values(SubSeq(ary[a].cells, 1, n))))

\* The elements r replace len elements of x from head on.
Splice(x, head, len, r) ==
    LET c == x.cells
        cut == IF Len(c) < head + len THEN Len(c) - head ELSE len
    IN  IF head >= Len(c) THEN Store(x, Filled(c, head) \o r)
        ELSE Store(x, SubSeq(c, 1, head) \o r \o SubSeq(c, head + cut + 1, Len(c)))

\* mrb_ary_splice() with an array, or without elements (b = Gone).  An array
\* spliced into itself is duplicated first, which may make it shared again.
mrb_ary_splice(a, b) ==
    LET s == ary_modify(Now, a)
        r == IF b = Gone THEN << >> ELSE Cells(s.sh, s.ary[b])
        x == IF b = a /\ Len(r) > ReplaceSharedMin THEN Heap(r, Len(r)) ELSE s.ary[a]
    IN  \E y \in {Splice(x, head, len, r) : head, len \in 0 .. MaxSize - 1} :
            Len(y.cells) <= MaxSize /\ Go(Set(s, a, y))

mrb_ary_delete_at(a) ==
    LET s == ary_modify(Now, a)
    IN  \E i \in 1 .. ARY_LEN(ary[a]) :
            Go(Set(s, a, ary_shrink_capa([s.ary[a] EXCEPT !.cells = RemoveAt(@, i)])))

mrb_ary_reverse_bang(a) ==
    LET s == ary_modify(Now, a)
    IN  ARY_LEN(ary[a]) > 1 /\ Go(Set(s, a, [s.ary[a] EXCEPT !.cells = Reverse(@)]))

mrb_ary_clear(a) == Go(Set(ary_modify(Now, a), a, Embed(<< >>)))

\* The collector frees a: the buffer goes with its last holder.
obj_free(a) ==
    /\ ary' = [ary EXCEPT ![a] = Gone]
    /\ shared' = IF SharedP(ary[a]) THEN mrb_ary_decref(shared, ary[a].sh) ELSE shared

-----------------------------------------------------------------------------

Init ==
    /\ ary = [a \in Arr |-> Gone]
    /\ shared = [i \in 1 .. Cardinality(Arr) |-> Freed]

Next ==
    \/ \E b \in Arr : mrb_ary_new_from_values(b)
    \/ \E a \in Live :
          \/ mrb_ary_push(a)
          \/ mrb_ary_pop(a)
          \/ mrb_ary_shift(a)
          \/ mrb_ary_unshift_values(a)
          \/ mrb_ary_set(a)
          \/ mrb_ary_resize(a)
          \/ mrb_ary_delete_at(a)
          \/ mrb_ary_reverse_bang(a)
          \/ mrb_ary_clear(a)
          \/ obj_free(a)
          \/ \E b \in Live \cup {Gone} : mrb_ary_splice(a, b)
          \/ \E b \in Live : ary_concat(a, b)
          \/ \E b \in Live : mrb_ary_replace(a, b)
          \/ \E b \in Arr : mrb_ary_shift_m(a, b)
          \/ \E b \in Arr : ary_dup(a, b)
          \/ \E b \in Arr : mrb_ary_make_shared_copy(a, b)
          \/ \E b \in Arr : mrb_ary_aget(a, b)
          \/ \E b \in Arr : mrb_ary_first(a, b)

Spec == Init /\ [][Next]_aryVars

-----------------------------------------------------------------------------
(* Properties.                                                             *)

\* The memory an array reads and writes is there and is its own to use: an
\* embedded array fits its structure, a buffer holds the length, and a window
\* lies inside a buffer that has not been freed.
\* (ARY_PTR, ARY_LEN, ary_expand_capa(), ary_shrink_capa())
WindowsInside == \A a \in Live :
    LET x == ary[a]
    IN  CASE x.kind = "embed" -> Len(x.cells) <= EmbedMax
          [] x.kind = "heap" -> Len(x.cells) <= x.capa
          [] x.kind = "shared" -> /\ shared[x.sh].refcnt > 0
                                  /\ x.off >= 0 /\ x.len >= 0
                                  /\ x.off + x.len <= Len(shared[x.sh].cells)

\* The count of a shared buffer is the number of arrays that hold it: it is
\* freed with the last of them, and not before or twice (mrb_ary_decref()).
RefcntExact == \A i \in DOMAIN shared :
    shared[i].refcnt = Cardinality({a \in Live : SharedP(ary[a]) /\ ary[a].sh = i})

\* Sharing never shows: seen through their windows, arrays are values, and an
\* operation changes its receiver only.
values == INSTANCE ArrayValues WITH
    value <- [a \in Arr |-> IF ary[a] = Gone THEN Gone ELSE Cells(shared, ary[a])]
ImplementsValues == values!ValuesSpec
=============================================================================
