----------------------------- MODULE OrderedMap -----------------------------
(***************************************************************************)
(* What a Hash promises: pairs in insertion order, at most one for each    *)
(* key content.  A key may change its content while it is stored; until    *)
(* rehash the map is stale, and a store or a delete may then miss a pair.  *)
(***************************************************************************)
EXTENDS Integers, Sequences, FiniteSets

CONSTANTS
    Key, Content, Val, Nil,
    Others      \* contents of the hashes this one may be replaced with

VARIABLES
    pairs,      \* sequence of [key, val]
    content,    \* the present content of every key object
    stale       \* a stored key has changed since its place was computed

mapVars == <<pairs, content, stale>>

Pair == [key : Key, val : Val]
Same(k) == {i \in DOMAIN pairs : content[pairs[i].key] = content[k]}
Without(i) == [j \in 1..Len(pairs) - 1 |-> IF j < i THEN pairs[j] ELSE pairs[j + 1]]

\* The n-th of the positions I
Nth(I, n) == CHOOSE i \in I : Cardinality({j \in I : j < i}) = n - 1

Kept == LET I == {i \in DOMAIN pairs : pairs[i].val # Nil}
        IN  [n \in 1 .. Cardinality(I) |-> pairs[Nth(I, n)]]

\* Pairs of one content among the first n become one: the first gives key and
\* place, the last the value.
Merged(n) ==
    LET Twins(i) == {j \in 1..n : content[pairs[j].key] = content[pairs[i].key]}
        Heads == {i \in 1..n : \A j \in Twins(i) : i <= j}
        Last(i) == CHOOSE j \in Twins(i) : \A l \in Twins(i) : l <= j
    IN  [m \in 1..Cardinality(Heads) |-> [key |-> pairs[Nth(Heads, m)].key,
                                          val |-> pairs[Last(Nth(Heads, m))].val]]
        \o SubSeq(pairs, n + 1, Len(pairs))

MapInit ==
    /\ pairs \in Seq(Pair) /\ content \in [Key -> Content] /\ stale = FALSE
    /\ \A i, j \in DOMAIN pairs :
          content[pairs[i].key] = content[pairs[j].key] => i = j

Store(k, v) ==
    /\ \/ \E i \in Same(k) : pairs' = [pairs EXCEPT ![i].val = v]
       \/ /\ Same(k) = {} \/ stale
          /\ pairs' = Append(pairs, [key |-> k, val |-> v])
    /\ UNCHANGED <<content, stale>>

Remove(k) ==
    /\ \E i \in Same(k) : pairs' = Without(i)
    /\ UNCHANGED <<content, stale>>

Shift ==
    /\ pairs # <<>> /\ pairs' = Tail(pairs)
    /\ UNCHANGED <<content, stale>>

Compact == pairs' = Kept /\ UNCHANGED <<content, stale>>

Rehash == pairs' = Merged(Len(pairs)) /\ stale' = FALSE /\ UNCHANGED content

\* A rehash that a key's hash or eql? ends with an exception.
RehashPart == \E n \in 0..Len(pairs) :
    pairs' = Merged(n) /\ UNCHANGED <<content, stale>>

\* replace, and clear with the empty hash
Replace(q) ==
    /\ pairs' = q
    /\ stale' \in {stale, FALSE}
    /\ UNCHANGED content

Change(k) ==
    /\ \E c \in Content : content' = [content EXCEPT ![k] = c]
    /\ stale' = (stale \/ \E i \in DOMAIN pairs : pairs[i].key = k)
    /\ UNCHANGED pairs

MapNext ==
    \/ \E k \in Key : Remove(k) \/ Change(k) \/ \E v \in Val : Store(k, v)
    \/ Shift \/ Compact \/ Rehash \/ RehashPart
    \/ \E q \in Others : Replace(q)

MapSpec == MapInit /\ [][MapNext]_mapVars
=============================================================================
