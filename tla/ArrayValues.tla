---------------------------- MODULE ArrayValues ----------------------------
(***************************************************************************)
(* What Array promises: every array object has a value of its own.  An     *)
(* operation changes the value of its receiver alone, or makes a new       *)
(* array; what arrays share in memory never shows.                         *)
(***************************************************************************)
EXTENDS Integers, Sequences, SequencesExt

CONSTANTS Arr, Val, Nil,
          Gone,       \* an object that is not there
          MaxSize     \* ARY_MAX_SIZE

VARIABLE value

Live(now) == {a \in Arr : now[a] # Gone}
Index == 1 .. MaxSize
Filled(s, n) == s \o [i \in 1 .. n - Len(s) |-> Nil]

ValuesInit == value = [a \in Arr |-> Gone]

\* s with the n elements from i on replaced by r; nil up to i if s is shorter
Spliced(s, i, n, r) ==
    SubSeq(Filled(s, i - 1), 1, i - 1) \o r \o SubSeq(s, i + n, Len(s))

\* t is what one operation on an array of value s may make of it, with a value
\* of `others`
Result(s, t, others) ==
    \/ \E v \in Val : t = Append(s, v) \/ t = <<v>> \o s
    \/ Len(t) <= Len(s) /\ t \in {SubSeq(s, 1, Len(t)), SubSeq(s, Len(s) - Len(t) + 1, Len(s)), Reverse(s)}
    \/ t = Filled(s, Len(t))
    \/ \E i \in 1 .. Len(t), v \in Val : t = Spliced(s, i, 1, <<v>>)
    \/ \E r \in {<< >>} \cup others :
          \/ t = s \o r
          \/ t = r
          \/ \E i \in Index, n \in 0 .. Len(s) : t = Spliced(s, i, n, r)

\* t is a new array, of one value or with a part of another array
Made(t, others) ==
    \/ \E v \in Val : t = [i \in 1 .. Len(t) |-> v]
    \/ \E s \in others : \E i \in 1 .. Len(s) - Len(t) + 1 : t = SubSeq(s, i, i + Len(t) - 1)

\* shift(n), which makes an array t2 of what it takes away
Split(s, t, t2) == \E n \in 1 .. Len(s) : t = SubSeq(s, n + 1, Len(s)) /\ t2 = SubSeq(s, 1, n)

\* One operation takes the values `now` to the values `then`.
Step(now, then) ==
    LET changed == {a \in Arr : then[a] # now[a]}
        others == {now[a] : a \in Live(now)}
    IN  \/ \E a \in Live(now) : changed = {a} /\ (then[a] = Gone \/ Result(now[a], then[a], others))
        \/ \E b \in Arr \ Live(now) : changed = {b} /\ Made(then[b], others)
        \/ \E a \in Live(now), b \in Arr \ Live(now) :
              changed = {a, b} /\ Live(then) = Live(now) \cup {b} /\ Split(now[a], then[a], then[b])

ValuesNext ==
    /\ value' \in [Arr -> Seq(Val \cup {Nil}) \cup {Gone}]
    /\ \E now \in {value}, then \in {value'} : Step(now, then)

ValuesSpec == ValuesInit /\ [][ValuesNext]_value
=============================================================================
