------------------------------ MODULE HashTable ------------------------------
(***************************************************************************)
(* The Hash of src/hash.c: an entry array (EA) in insertion order, searched*)
(* linearly while it is small (AR) and through index buckets (IB) with open*)
(* addressing when it is large (HT).  A bucket holds an EA index; the two  *)
(* largest values of its width mean empty and deleted.                     *)
(*                                                                         *)
(* Keys are objects with a content: eql? and hash depend on the content,   *)
(* which a mutable key may change while it is stored.  An iteration calls  *)
(* Ruby code between two entries, and that code may do anything to the     *)
(* hash; the iterator's only defence is H_CHECK_MODIFIED.                  *)
(***************************************************************************)
EXTENDS Integers, Sequences, FiniteSetsExt

CONSTANTS
    Key, Mutable,         \* keys, and those whose content may change
    Val, Nil,             \* values; Nil is what compact! removes
    HashOf,               \* hash code of each content (a content is a key)
    Addr,                 \* addresses realloc may return
    NULL,
    AR_DEFAULT_CAPA, AR_MAX_SIZE, IB_INIT_BIT, EA_INCREASE, EA_MAX_INCREASE, EA_MAX_CAPA,
    Stored, Deleted,      \* bounds: keys the program stores, and deletes
    ChangedTo,            \* bound: contents a mutable key may take
    MaxSize, MaxStale,    \* bounds: entries of a hash, of a stale one
    MaxUsed,              \* bound: slots of the EA in use
    MaxEachSize, MaxEachCapa, \* bounds: hashes that are iterated over
    MaxCalls,             \* bound: changes made by one callback
    Fills,                \* distinct keys a hash may start or be replaced with
    Capas,                \* capacities a hash may be created with
    RaiseIn               \* what a raising hash or eql? may interrupt: "ar", "ht",
                          \* the rehash of such a table; "index", ib_init()

\* A shift to the left
ib_bit_to_capa[bit \in Nat] == IF bit = 0 THEN 1 ELSE 2 * ib_bit_to_capa[bit - 1]

ASSUME HashAssumption ==
    /\ Mutable \subseteq Key /\ Stored \cup Deleted \cup ChangedTo \subseteq Key /\ Nil \in Val
    /\ HashOf \in [Key -> Nat]
    /\ NULL \notin Addr \cup Key /\ Addr # {} /\ Val # {Nil}
    /\ {AR_DEFAULT_CAPA, AR_MAX_SIZE, IB_INIT_BIT, EA_INCREASE, EA_MAX_INCREASE, EA_MAX_CAPA}
         \subseteq Nat \ {0}
    /\ AR_DEFAULT_CAPA <= AR_MAX_SIZE /\ AR_MAX_SIZE >= 3
    /\ IB_INIT_BIT >= 3 /\ AR_MAX_SIZE < (3 * ib_bit_to_capa[IB_INIT_BIT]) \div 4
    /\ EA_MAX_CAPA \div 2 < ib_bit_to_capa[30]
    /\ MaxUsed \in Nat /\ MaxUsed <= EA_MAX_CAPA    \* no hash gets too big
    /\ \A n \in Capas : n <= EA_MAX_CAPA
    /\ \A keys \in Fills : Len(keys) <= EA_MAX_CAPA
    /\ Fills \subseteq Seq(Key \ Mutable) /\ Capas \subseteq Nat \ {0}
    /\ \A keys \in Fills : \A i, j \in DOMAIN keys : keys[i] = keys[j] => i = j
    /\ RaiseIn \subseteq {"ar", "ht", "index"}

VARIABLES
    h,          \* struct RHash with its table
    content,    \* content of every key object
    stale,      \* a stored key changed its content since the last rehash
    it          \* the running iteration, or NoIter

hashVars == <<h, content, stale, it>>

Home == CHOOSE a \in Addr : TRUE
Vacant == [key |-> NULL, val |-> Nil]   \* a slot whose key is undef
NoIter == [on |-> FALSE]

-----------------------------------------------------------------------------
(* The entry array: a function on 0..capa-1.                               *)

Slots(t) == 0 .. t.capa - 1
Active(t) == {i \in Slots(t) : t.ea[i] # Vacant}

\* How many members of A are less than i, and A as a list in their order
Rank(A, i) == Cardinality({j \in A : j < i})
InOrder(A) == [n \in 1 .. Cardinality(A) |-> CHOOSE i \in A : Rank(A, i) = n - 1]
ActiveList(t) == InOrder(Active(t))

\* EA_EACH: the first `size` active entries.
Visited(t, size) == LET A == Active(t)
                    IN  IF Cardinality(A) <= size THEN A ELSE {i \in A : Rank(A, i) < size}

Eql(k, slot) == slot # Vacant /\ content[k] = content[slot.key]

ea_get_by_key(t, size, k) == {i \in Visited(t, size) : Eql(k, t.ea[i])}

ea_next_capa_for(size, max) ==
    IF size < AR_DEFAULT_CAPA THEN AR_DEFAULT_CAPA
    ELSE LET wanted == (size * 6) \div 5 + EA_INCREASE
             capa == IF EA_MAX_INCREASE < wanted - size THEN size + EA_MAX_INCREASE ELSE wanted
         IN  IF capa <= max THEN capa ELSE max

ea_resize(t, capa, a) ==
    [t EXCEPT !.capa = capa, !.ea_at = a,
              !.ea = [i \in 0 .. capa - 1 |-> IF i < t.capa THEN t.ea[i] ELSE Vacant]]

\* ea_adjust() with the fields ar_adjust_ea() or ht_adjust_ea() then stores
adjust_ea(t, size, max, a) ==
    LET r == ea_resize(t, ea_next_capa_for(size, max), a)
    IN  IF t.ht THEN r ELSE [r EXCEPT !.tbl = a]

\* Mutant: the vacated slots keep their stale copies.
CompressLeavesCopies(t) ==
    LET A == ActiveList(t)
        kept == Rank(Active(t), t.used)
    IN  [t EXCEPT !.ea = [i \in Slots(t) |-> IF i < kept THEN t.ea[A[i + 1]] ELSE t.ea[i]]]

ea_compress(t) ==
    LET A == ActiveList(t)
        kept == Rank(Active(t), t.used)
    IN  [t EXCEPT !.ea = [i \in Slots(t) |-> IF i < kept THEN t.ea[A[i + 1]]
                                             ELSE IF i < t.used THEN Vacant
                                             ELSE t.ea[i]]]

-----------------------------------------------------------------------------
(* Index buckets.                                                          *)

ib_capa(t) == ib_bit_to_capa[t.bit]
ib_upper_bound_for(capa) == (3 * capa) \div 4
EmptyValue(t) == ib_capa(t) - 1
DeletedValue(t) == ib_capa(t) - 2

\* The test for IB_MAX_CAPA is for sizes beyond 3/4 of it, which no run meets.
ib_bit_for(size) ==
    LET b == CHOOSE n \in 0 .. 31 : /\ ib_bit_to_capa[n] > size
                                    /\ n = 0 \/ ib_bit_to_capa[n - 1] <= size
    IN  IF ib_upper_bound_for(ib_bit_to_capa[b]) < size THEN b + 1 ELSE b

\* The bucket the probe of key k looks at in step s (triangular numbers).
Probe(t, k, s) == (HashOf[content[k]] + (s * s + s) \div 2) % ib_capa(t)
Steps(t) == 0 .. ib_capa(t) - 1
Bucket(t, k, s) == t.ib[Probe(t, k, s)]

\* Steps at which the probe meets the entry of k, or an empty bucket.
Hits(t, k) == {s \in Steps(t) : /\ Bucket(t, k, s) < DeletedValue(t)
                                /\ Eql(k, t.ea[Bucket(t, k, s)])}
Gaps(t, k) == {s \in Steps(t) : Bucket(t, k, s) = EmptyValue(t)}
Found(t, k) == \E s \in Hits(t, k) : \A g \in Gaps(t, k) : s < g

\* Put index i into the first empty bucket on the probe of its key.
IndexEntry(t, i) ==
    [t EXCEPT !.ib[Probe(t, t.ea[i].key, Min(Gaps(t, t.ea[i].key)))] = i]

\* A new index of which the loop of ib_init() has filled in n entries.  Every
\* turn asks a key for its hash, which may be a method that raises.
IndexUpTo(t, n) ==
    LET fresh == [t EXCEPT !.ib = [p \in 0 .. ib_capa(t) - 1 |-> EmptyValue(t)]]
        done[m \in 0 .. n] == IF m = 0 THEN fresh ELSE IndexEntry(done[m - 1], m - 1)
    IN  done[n]

ib_init(t) == IndexUpTo(t, t.used)

\* ht_init() makes the table an HT of `size` packed entries before it calls
\* ib_init().
Switched(t, size, bit, a) ==
    [t EXCEPT !.ht = TRUE, !.tbl = a, !.size = size, !.used = size, !.bit = bit]

ht_init(t, size, bit, a) == ib_init(Switched(t, size, bit, a))

ht_to_ar(t, a) ==
    LET r == ea_resize(ea_compress(t), ea_next_capa_for(t.size, AR_MAX_SIZE), a)
    IN  [r EXCEPT !.ht = FALSE, !.tbl = a, !.used = t.size, !.ib = << >>]

-----------------------------------------------------------------------------
(* Get, set and delete.                                                    *)

ar_get(t, k) == LET S == ea_get_by_key(t, t.size, k)
                IN  IF S = {} THEN Vacant ELSE t.ea[Min(S)]
ht_get(t, k) == IF Found(t, k) THEN t.ea[Bucket(t, k, Min(Hits(t, k)))] ELSE Vacant
h_get(t, k) == IF t.ht THEN ht_get(t, k) ELSE ar_get(t, k)

AppendEntry(t, k, v) ==
    [t EXCEPT !.ea[t.used] = [key |-> k, val |-> v], !.size = @ + 1, !.used = @ + 1]

ar_compress(t, a) ==
    adjust_ea([ea_compress(t) EXCEPT !.used = t.size], t.size,
              IF t.capa < AR_MAX_SIZE THEN t.capa ELSE AR_MAX_SIZE, a)

\* The loop at the end of ht_set(): overwrite, or take the first empty bucket.
HtStore(t, k, v, a) ==
    IF Found(t, k)
    THEN [t EXCEPT !.ea[Bucket(t, k, Min(Hits(t, k)))].val = v]
    ELSE LET room == IF t.used = t.capa THEN adjust_ea(t, t.used, EA_MAX_CAPA, a) ELSE t
         IN  [AppendEntry(room, k, v) EXCEPT
                 !.ib[Probe(t, k, Min(Gaps(t, k)))] = t.used]

\* A store of k has to turn the AR into an HT.
Promotes(t, k) ==
    ea_get_by_key(t, t.size, k) = {} /\ {t.capa, t.used, t.size} = {AR_MAX_SIZE}

\* A table that ht_init() has just built of AR_MAX_SIZE entries is below its
\* upper bound and has no deleted entry: ht_set() goes straight to its loop.
ar_set(t, k, v, a) ==
    LET S == ea_get_by_key(t, t.size, k)
        room == CASE t.capa # t.used -> t
                  [] t.capa = t.used /\ t.size = t.used -> adjust_ea(t, t.size, AR_MAX_SIZE, a)
                  [] t.capa = t.used /\ t.size # t.used -> ar_compress(t, a)
    IN  CASE S # {} -> [t EXCEPT !.ea[Min(S)].val = v]
          [] S = {} /\ {t.capa, t.used, t.size} = {AR_MAX_SIZE} ->
                HtStore(ht_init(t, t.size, IB_INIT_BIT, a), k, v, a)
          [] S = {} /\ {t.capa, t.used, t.size} # {AR_MAX_SIZE} -> AppendEntry(room, k, v)

\* Mutant: used slots are not counted, only live entries, so that the buckets
\* of deleted entries eat up the empty ones.
SetIgnoresTombstones(t, k, v, a) ==
    IF ib_upper_bound_for(ib_capa(t)) <= t.size
    THEN HtStore(ht_init(ea_compress(t), t.size, t.bit + 1, a), k, v, a)
    ELSE HtStore(t, k, v, a)

\* What ht_set() does to the table before it stores: a larger index, a
\* compressed EA with a new index, or an AR.
Grows(t) == ib_upper_bound_for(ib_capa(t)) <= t.size
Tight(t) == ib_capa(t) - 2 <= t.used
Demotes(t) ==
    /\ ~Grows(t) /\ t.size # t.used /\ ~Tight(t)
    /\ t.capa = t.used /\ t.size <= AR_MAX_SIZE
Compresses(t) ==
    /\ ~Grows(t) /\ t.size # t.used
    /\ Tight(t) \/ (/\ t.capa = t.used /\ t.size > AR_MAX_SIZE
                     /\ ea_next_capa_for(t.size, EA_MAX_CAPA) <= t.capa)
Fitted(t, a) == adjust_ea(ea_compress(t), t.size, t.capa, a)

ht_set(t, k, v, a) ==
    CASE Grows(t)      -> HtStore(ht_init(ea_compress(t), t.size, t.bit + 1, a), k, v, a)
      [] Demotes(t)    -> ar_set(ht_to_ar(t, a), k, v, a)
      [] Compresses(t) -> HtStore(ht_init(Fitted(t, a), t.size, t.bit, a), k, v, a)
      [] OTHER         -> HtStore(t, k, v, a)

h_set(t, k, v, a) == IF t.ht THEN ht_set(t, k, v, a) ELSE ar_set(t, k, v, a)

Drop(t, i) == [t EXCEPT !.ea[i] = Vacant, !.size = @ - 1]

ar_delete(t, k) == Drop(t, Min(ea_get_by_key(t, t.size, k)))
ht_delete(t, k) ==
    LET p == Probe(t, k, Min(Hits(t, k)))
    IN  [Drop(t, t.ib[p]) EXCEPT !.ib[p] = DeletedValue(t)]
h_delete(t, k) == IF t.ht THEN ht_delete(t, k) ELSE ar_delete(t, k)

ar_shift(t) == Drop(t, Min(Active(t)))
\* the probe of the entry's own key ends at the bucket that holds its index
ht_shift(t) ==
    LET i == Min(Active(t))
        s == Min({n \in Steps(t) : Bucket(t, t.ea[i].key, n) = i})
    IN  [Drop(t, i) EXCEPT !.ib[Probe(t, t.ea[i].key, s)] = DeletedValue(t)]
h_shift(t) == IF t.ht THEN ht_shift(t) ELSE ar_shift(t)

h_init == [ht |-> FALSE, size |-> 0, used |-> 0, capa |-> 0, bit |-> 0,
           ea |-> << >>, ib |-> << >>, tbl |-> NULL, ea_at |-> NULL]

-----------------------------------------------------------------------------
(* Rehash.  Entries are written back one by one over the front of the EA;  *)
(* w entries have been written after the walk has read n of them.          *)

\* Mutant: the walk keeps the value of the first of two equal keys.
WalkKeepsFirst(r, i, w, twin) == Drop(r, i)

\* One turn of the loop: merge entry i into its twin, or move it to slot w.
WalkEntry(r, i, w, twin) ==
    IF twin # {} THEN Drop([r EXCEPT !.ea[Min(twin)].val = r.ea[i].val], i)
    ELSE LET moved == [r.ea EXCEPT ![i] = Vacant, ![w] = r.ea[i]]
         IN  [r EXCEPT !.ea = moved,
                       !.ib = IF r.ht THEN IndexEntry([r EXCEPT !.ea = moved], w).ib
                              ELSE r.ib]

Walk(t, n) ==
    LET list == ActiveList(t)
        Twin(r, i, w) == IF ~r.ht THEN ea_get_by_key(r, w, r.ea[i].key)
                         ELSE IF Found(r, r.ea[i].key)
                         THEN {Bucket(r, r.ea[i].key, Min(Hits(r, r.ea[i].key)))}
                         ELSE {}
        done[m \in 0 .. n] ==
            IF m = 0 THEN [t |-> t, w |-> 0]
            ELSE LET d == done[m - 1]
                     twin == Twin(d.t, list[m], d.w)
                 IN  [t |-> WalkEntry(d.t, list[m], d.w, twin),
                      w |-> IF twin = {} THEN d.w + 1 ELSE d.w]
    IN  done[n].t

ar_rehash(t, n, a) ==
    LET r == Walk(t, n)
    IN  IF n < t.size THEN r
        ELSE adjust_ea([r EXCEPT !.used = r.size], r.size, t.capa, a)

\* The index is emptied and ea_n_used set to 0 before the walk, and given
\* its final value after it.
ht_rehash(t, n, a) ==
    LET r == Walk([ht_init(t, 0, ib_bit_for(t.size), a) EXCEPT !.size = t.size], n)
        u == [r EXCEPT !.used = r.size]
    IN  CASE t.size <= AR_MAX_SIZE -> ar_rehash(ht_to_ar(t, a), n, a)
          [] t.size > AR_MAX_SIZE /\ n < t.size -> r
          [] t.size > AR_MAX_SIZE /\ n = t.size ->
                IF u.size <= AR_MAX_SIZE THEN ht_to_ar(u, a)
                ELSE adjust_ea(u, u.size, t.capa, a)

\* Rehash that ends after n entries; it is complete if n is the size.
h_rehash(t, n, a) ==
    IF t.size = 0 THEN h_init
    ELSE IF t.ht THEN ht_rehash(t, n, a) ELSE ar_rehash(t, n, a)

-----------------------------------------------------------------------------
(* Methods of Hash.  hash_modify() raises for a frozen hash and changes    *)
(* nothing; the key that is stored is frozen if it is a String, which is   *)
(* why it is not Mutable.                                                  *)

\* The pairs in the order of the EA
PairsOf(t) ==
    LET upto[n \in 0 .. t.capa] ==
            IF n = 0 THEN << >>
            ELSE IF t.ea[n - 1] = Vacant THEN upto[n - 1] ELSE Append(upto[n - 1], t.ea[n - 1])
    IN  upto[t.capa]

Given == CHOOSE v \in Val : v # Nil
Filled(keys, a) ==
    LET put[n \in 0 .. Len(keys)] ==
            IF n = 0 THEN h_init ELSE h_set(put[n - 1], keys[n], Given, a)
    IN  put[Len(keys)]

mrb_hash_new_capa(n, a) ==
    LET t == ea_resize(h_init, n, a)
    IN  IF n <= AR_MAX_SIZE THEN [t EXCEPT !.tbl = a] ELSE ht_init(t, 0, ib_bit_for(n), a)

HashInit ==
    /\ content = [k \in Key |-> k]
    /\ stale = FALSE
    /\ it = NoIter
    /\ \/ \E keys \in Fills : h = Filled(keys, Home)
       \/ \E n \in Capas : h = mrb_hash_new_capa(n, Home)

\* An address matters while an iteration remembers one; otherwise the table
\* is at Home.  A callback makes at most MaxCalls changes.
Addresses == IF it.on THEN Addr ELSE {Home}
Settled(t) == [t EXCEPT !.tbl = IF @ = NULL THEN NULL ELSE Home,
                        !.ea_at = IF @ = NULL THEN NULL ELSE Home]
Count == IF it.on THEN it.calls < MaxCalls /\ it' = [it EXCEPT !.calls = @ + 1]
         ELSE UNCHANGED it

mrb_hash_set(k, v) ==
    /\ h.size < IF stale THEN MaxStale ELSE MaxSize
    /\ h.used < MaxUsed
    /\ \E a \in Addresses : h' = h_set(h, k, v, a)
    /\ Count /\ UNCHANGED <<content, stale>>

\* The index of table t is built, wholly or until a key's hash raises.
Indexes(t) == \E n \in (IF "index" \in RaiseIn THEN 0 ELSE t.used) .. t.used : h' = IndexUpTo(t, n)

\* hash or eql? raises in a store that has begun to change the table.  With a
\* whole index it is the hash of k itself, or an eql? on its probe.
StoreRaises(k) ==
    /\ h.size < IF stale THEN MaxStale ELSE MaxSize
    /\ h.used < MaxUsed
    /\ \E a \in Addresses :
          \/ ~h.ht /\ Promotes(h, k) /\ Indexes(Switched(h, h.size, IB_INIT_BIT, a))
          \/ h.ht /\ Grows(h) /\ Indexes(Switched(ea_compress(h), h.size, h.bit + 1, a))
          \/ h.ht /\ Compresses(h) /\ Indexes(Switched(Fitted(h, a), h.size, h.bit, a))
          \/ h.ht /\ Demotes(h) /\ h' = ht_to_ar(h, a)
          \/ LET ar == ht_to_ar(h, a)
             IN  /\ h.ht /\ Demotes(h) /\ Promotes(ar, k)
                 /\ Indexes(Switched(ar, ar.size, IB_INIT_BIT, a))
    /\ Count /\ UNCHANGED <<content, stale>>

mrb_hash_delete_key(k) ==
    /\ h_get(h, k) # Vacant
    /\ h' = h_delete(h, k)
    /\ Count /\ UNCHANGED <<content, stale>>

\* The loop of ht_shift() over the buckets would not end for an entry that an
\* interrupted ib_init() has left out of the index.
mrb_hash_shift ==
    /\ h.size # 0
    /\ h.ht => \E p \in DOMAIN h.ib : h.ib[p] = Min(Active(h))
    /\ h' = h_shift(h)
    /\ Count /\ UNCHANGED <<content, stale>>

mrb_hash_clear ==
    /\ h' = h_init /\ stale' = FALSE
    /\ Count /\ UNCHANGED content

\* Both tables are copied whole, the index with its deleted buckets included.
h_replace(keys) ==
    /\ \E a \in Addresses : h' = Filled(keys, a)
    /\ stale' = FALSE
    /\ Count /\ UNCHANGED content

\* compact! deletes entries and leaves their buckets as they are.
mrb_hash_compact ==
    LET dead == {i \in Visited(h, h.size) : h.ea[i].val = Nil}
    IN  /\ dead # {}
        /\ h' = [h EXCEPT !.ea = [i \in Slots(h) |-> IF i \in dead THEN Vacant ELSE h.ea[i]],
                          !.size = @ - Cardinality(dead)]
        /\ Count /\ UNCHANGED <<content, stale>>

mrb_hash_rehash ==
    /\ \E a \in Addresses : h' = h_rehash(h, h.size, a)
    /\ stale' = FALSE
    /\ Count /\ UNCHANGED content

\* hash or eql? of a key raises in the middle of the walk.
RehashRaises ==
    /\ (IF h.ht /\ h.size > AR_MAX_SIZE THEN "ht" ELSE "ar") \in RaiseIn
    /\ \E a \in Addresses, n \in 0 .. h.size - 1 : h' = h_rehash(h, n, a)
    /\ Count /\ UNCHANGED <<content, stale>>

\* The program changes a key object, stored or not.  Bound: not while an
\* iteration runs, nor is a table with changed keys iterated over.
ChangeKey(k) ==
    /\ ~it.on
    /\ \E c \in ChangedTo : content' = [content EXCEPT ![k] = c]
    /\ stale' = (stale \/ \E i \in Active(h) : h.ea[i].key = k)
    /\ UNCHANGED <<h, it>>

-----------------------------------------------------------------------------
(* Iteration: H_EACH around a callback that H_CHECK_MODIFIED watches.      *)

\* h_check_modified_init().  For an AR the word read as ht_ea is the key of
\* the first entry.
Snapshot(t) ==
    <<t.ht, t.bit, t.tbl, t.capa, t.size,
      IF t.ht THEN t.ea_at
      ELSE IF t.capa = 0 \/ t.ea[0] = Vacant THEN NULL ELSE t.ea[0].key>>

\* entry_skip_deleted_bounded() over the array at address `at`: where that is
\* no longer the table's array, or beyond its end, any garbage looks alive.
Skip(e, end, at) ==
    LET S == {p \in e .. end - 1 :
                 at # h.ea_at \/ p \notin Slots(h) \/ h.ea[p] # Vacant}
    IN  IF S = {} THEN end ELSE Min(S)

EachEnd == it' = NoIter /\ h' = Settled(h)

Visit(p, end, left, at) ==
    IF left = 0 \/ p = end THEN EachEnd
    ELSE LET k == IF at = h.ea_at /\ p \in Slots(h) /\ h.ea[p] # Vacant
                  THEN h.ea[p].key ELSE NULL
         IN  /\ it' = [on |-> TRUE, pos |-> p, end |-> end, left |-> left, at |-> at,
                       key |-> k, got |-> k, chk |-> Snapshot(h), calls |-> 0]
             /\ UNCHANGED h

EachStart ==
    /\ ~it.on /\ ~stale /\ h.size \in 1 .. MaxEachSize /\ h.capa <= MaxEachCapa
    /\ Visit(Skip(0, h.capa, h.ea_at), h.capa, h.size, h.ea_at)
    /\ UNCHANGED <<content, stale>>

\* The callback returns; go on if the hash looks the same.
EachNext ==
    /\ it.on
    /\ IF Snapshot(h) # it.chk THEN EachEnd
       ELSE Visit(Skip(it.pos + 1, it.end, it.at), it.end, it.left - 1, it.at)
    /\ UNCHANGED <<content, stale>>

\* The callback stops the iteration, or an exception does.
EachBreak == it.on /\ EachEnd /\ UNCHANGED <<content, stale>>

\* Mutant: the slot is taken to hold what it held before the callback.
VacatedNever(k) == FALSE

\* entry_check_vacated(): the slot no longer holds the key that was compared
Vacated(k) == h.ea[it.pos] = Vacant \/ h.ea[it.pos].key # k

\* inspect, ==, eql?, assoc and except read the entry once more after a first
\* callback.
EachReread ==
    /\ it.on
    /\ IF Snapshot(h) # it.chk \/ Vacated(it.key) THEN EachEnd
       ELSE it' = [it EXCEPT !.got = h.ea[it.pos].key] /\ UNCHANGED h
    /\ UNCHANGED <<content, stale>>

HashNext ==
    \/ \E k \in Stored, v \in Val : mrb_hash_set(k, v)
    \/ \E k \in Stored : StoreRaises(k)
    \/ \E k \in Deleted : mrb_hash_delete_key(k)
    \/ mrb_hash_shift \/ mrb_hash_clear \/ mrb_hash_compact
    \/ \E keys \in Fills : h_replace(keys)
    \/ mrb_hash_rehash \/ RehashRaises
    \/ \E k \in Mutable : ChangeKey(k)
    \/ EachStart \/ EachNext \/ EachBreak \/ EachReread

HashSpec == HashInit /\ [][HashNext]_hashVars

-----------------------------------------------------------------------------
(* Properties.                                                             *)

\* The EA is not broken: the count is that of the active entries, and none is
\* where the next store would write.  A rehash that an exception ends in the
\* middle is meant to leave it so (the comment in h_rehash()).
EntriesCounted ==
    /\ h.size = Cardinality(Active(h))
    /\ \A i \in Active(h) : i < h.used
    /\ h.used <= h.capa

\* The table is well formed: the count and the used range cover exactly the
\* active entries, everything behind is marked deleted, and in an HT every
\* active entry is in exactly one bucket, an index can be told from the two
\* reserved values, and a probe for a key that is not there comes to an end
\* (ea_compress, ht_set and compact! each maintain a part of this).
TableWellFormed ==
    /\ EntriesCounted
    /\ h.ht => /\ \A i \in Active(h) :
                     Cardinality({p \in DOMAIN h.ib : h.ib[p] = i}) = 1
               /\ h.used <= DeletedValue(h)
               /\ \E p \in DOMAIN h.ib : h.ib[p] = EmptyValue(h)
    /\ ~h.ht => h.capa <= AR_MAX_SIZE /\ h.tbl = h.ea_at

\* Unless a stored key has changed, h_get() finds an entry exactly when the map
\* holds a pair with that content, and finds that pair.
LookupAgrees ==
    ~stale => \A k \in Key : LET S == {i \in Active(h) : Eql(k, h.ea[i])}
                             IN  /\ Cardinality(S) <= 1
                                 /\ h_get(h, k) = IF S = {} THEN Vacant
                                                  ELSE h.ea[CHOOSE i \in S : TRUE]

Map == INSTANCE OrderedMap
       WITH pairs <- PairsOf(h), Content <- Key,
            Others <- {<< >>} \cup {[n \in DOMAIN keys |-> [key |-> keys[n], val |-> Given]]
                                      : keys \in Fills}

\* Every method does to the ordered pairs what it promises, whichever of the
\* two tables holds them and whatever conversion or compression it causes.
ImplementsOrderedMap == Map!MapSpec

\* An iteration whose callback changed the hash either raises, or goes on with a
\* live entry of the array that is the table's now; and an entry read a second
\* time still holds the key it held (H_CHECK_MODIFIED, entry_check_vacated).
EachReadsLive ==
    [][it'.on /\ it' # it /\ (it.on => it'.calls # it.calls + 1) =>
         /\ it'.at = h.ea_at /\ it'.pos \in Slots(h)
         /\ h.ea[it'.pos] # Vacant /\ it'.got = it'.key]_hashVars
=============================================================================
