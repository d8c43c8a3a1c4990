------------------------------ MODULE ClassTree ------------------------------
(***************************************************************************)
(* Classes, modules and method lookup (src/class.c).                       *)
(*                                                                         *)
(* A class finds its methods along the chain of its super pointers.        *)
(* Including a module puts an ICLASS on the chain that shares the module's *)
(* method table; prepending one moves the class's own table into an ICLASS *)
(* of its own, the origin, and puts the module's ICLASS before that.  Three*)
(* things are derived from the chains and kept beside them: the method     *)
(* cache, the slots that let an opcode answer for a builtin operator, and  *)
(* the flag that says a class may not be compared by identity.             *)
(***************************************************************************)
EXTENDS Integers, Sequences, FiniteSetsExt, SequencesExt

CONSTANTS
    Class, Module,     \* the classes and modules of the program
    Singleton,         \* the singleton classes among the classes
    SuperOf,           \* the superclass of every class
    Guarded,           \* the class whose == the opcode answers for
    Sym, Eq,           \* method names, == among them
    Body,              \* what a def may define, beside the builtin
    NULL,
    MaxIclass, MaxDefs, \* bounds: ICLASSes, entries of method tables
    Reopened,          \* the classes and modules programs change
    Programs           \* {"cyclic"}: programs rescue a cyclic include
                       \* {"late"}: they prepend to a module already included, or
                       \* include in one that was prepended to and included

Named == Class \cup Module
Root == CHOOSE c \in Class : SuperOf[c] = NULL

ASSUME ClassAssumption ==
    /\ IsFiniteSet(Named) /\ Class \cap Module = {} /\ (Named \cup {NULL}) \cap Nat = {}
    /\ SuperOf \in [Class -> (Class \ Singleton) \cup {NULL}] /\ NULL \notin Named
    \* one root, which every class descends from
    /\ \E c \in Class : \A k \in Class : SuperOf[k] = NULL <=> k = c
    /\ \E depth \in [Class -> 0 .. Cardinality(Class)] :
           \A c \in Class : SuperOf[c] # NULL => depth[SuperOf[c]] < depth[c]
    /\ Singleton \subseteq Class /\ Guarded \in Class \ Singleton /\ SuperOf[Guarded] # NULL
    /\ Eq \in Sym /\ {"none", "undef", "builtin"} \cap Body = {} /\ {MaxIclass, MaxDefs} \subseteq Nat
    /\ NULL \notin [c : Class, mid : Sym, c0 : Class, m : [body : Body \cup {"builtin"}, private : BOOLEAN]]
    /\ Programs \subseteq {"cyclic", "late"}

VARIABLES
    h,       \* the RClass structures, field by field: see Init
    tbl,     \* method tables, named after the class they were made for
    cache,   \* one set, of two ways, of mrb->cache
    armed    \* the opcode answers for == of Guarded

classVars == <<h, tbl, cache, armed>>

Method(b, private) == [body |-> b, private |-> private]
None == Method("none", FALSE)      \* no entry
Undef == Method("undef", FALSE)    \* an entry without a proc: the search ends here
Builtin == Method("builtin", FALSE)
Empty == [s \in Sym |-> None]

\* f, and y at x
With(f, x, y) == [z \in DOMAIN f \cup {x} |-> IF z = x THEN y ELSE f[z]]

\* An ICLASS is a number, and `of` the class or module it stands for.
Iclasses(g) == DOMAIN g.of
Real(g, x) == IF x \in Iclasses(g) THEN g.of[x] ELSE x
Live == DOMAIN h.super \ Iclasses(h)

-----------------------------------------------------------------------------
(* Chains and lookup.                                                      *)

\* A walk along the super pointers makes its next step.
Onward(g, x, up) ==
    LET next == IF up = << >> THEN x ELSE g.super[up[Len(up)]]
    IN  IF next = NULL THEN up ELSE Append(up, next)

\* x and all that follows it: no walk passes more structures than there are.
Chain(g, x) ==
    LET all == Cardinality(DOMAIN g.super)
        at[n \in 0 .. all] == IF n = 0 THEN << >> ELSE Onward(g, x, at[n - 1])
    IN  at[all]

\* The first place of up where an element of X stands, or 0
FirstOf(up, X) ==
    LET places == {i \in DOMAIN up : up[i] \in X} IN IF places = {} THEN 0 ELSE Min(places)

\* Mutant: the walk to the origin is one step long.
OriginIsNext(g, c) == IF c \notin g.prepended THEN c ELSE g.super[c]

\* MRB_CLASS_ORIGIN
Origin(g, c) ==
    IF c \notin g.prepended THEN c ELSE LET up == Chain(g, c) IN up[FirstOf(up, g.origin)]

\* A method table with the layers it is chained to: what it answers, a change.
mt_get(t, mt, s) == IF mt = NULL THEN None ELSE t[mt][s]
mt_put(t, mt, s, entry) == [t EXCEPT ![mt][s] = entry]
mt_del(t, mt, s) == mt_put(t, mt, s, None)

\* The first of x and what follows it on the chain whose table has an entry
Holder(g, t, x, s) ==
    LET up == Chain(g, x)
        i == FirstOf(up, {y \in DOMAIN g.mt : mt_get(t, g.mt[y], s) # None})
    IN  IF i = 0 THEN NULL ELSE up[i]

\* The cache entry for the method that a search from c finds in the tables
Find(g, t, c, s) ==
    LET c0 == Holder(g, t, c, s)
        entry == mt_get(t, g.mt[c0], s)
    IN  IF c0 = NULL THEN NULL ELSE IF entry = Undef THEN NULL ELSE [c |-> c, mid |-> s, c0 |-> c0, m |-> entry]

Hit(e, c, s) == e # NULL /\ e.c = c /\ e.mid = s

\* What the search answers, and the cache after it.  A miss that finds a
\* method takes way 2 if only that is empty.
mrb_vm_find_method(k, g, t, c, s) ==
    LET found == Find(g, t, c, s)
        way == IF k[1] # NULL /\ k[2] = NULL THEN 2 ELSE 1
    IN  IF Hit(k[1], c, s) THEN [m |-> k[1], cache |-> k]
        ELSE IF Hit(k[2], c, s) THEN [m |-> k[2], cache |-> k]
        ELSE [m |-> found, cache |-> IF found = NULL THEN k ELSE [k EXCEPT ![way] = found]]

mrb_method_cache_clear(k) == [w \in DOMAIN k |-> NULL]

\* Mutant: an entry is dropped for the class it leads to, not for its own.
ClearTargetOnly(k, c) == [w \in DOMAIN k |-> IF k[w] # NULL /\ c = k[w].c0 THEN NULL ELSE k[w]]

mrb_mc_clear_by_class(k, c) ==
    [w \in DOMAIN k |-> IF k[w] # NULL /\ c \in {k[w].c, k[w].c0} THEN NULL ELSE k[w]]

mc_clear_by_id(k, s) == [w \in DOMAIN k |-> IF k[w] # NULL /\ k[w].mid = s THEN NULL ELSE k[w]]

\* Mutant: the visibility is not compared.
SameFunction(m) == m # NULL /\ m.m.body = Builtin.body

\* bop_refresh(), idx_op_refresh(): the operator is looked up again, and the
\* slot is on if the search answers the method recorded at startup.
bop_refresh(m) == m # NULL /\ m.m = Builtin

mrb_builtin_op_update(k, g, t) ==
    \E found \in {mrb_vm_find_method(k, g, t, Guarded, Eq)} :
        /\ armed' = bop_refresh(found.m)
        /\ cache' = found.cache

-----------------------------------------------------------------------------
(* Including and prepending.                                               *)

\* Mutant: the flag of the ICLASS is read, not the one of its module.
WalkIclasses(g, marked, k) == \E x \in ToSet(Tail(Chain(g, k))) : x \in marked

\* eq_defined_walk(): a class or module with a marked one among its ancestors
eq_defined_walk(g, marked, k) == \E x \in ToSet(Tail(Chain(g, k))) : Real(g, x) \in marked

\* eq_defined_mark(): c and all that have it among their ancestors.
eq_defined_mark(g, c) ==
    LET marked == g.eq \cup {c}
        Heads == DOMAIN g.super \ Iclasses(g)
        walked == IF c \in g.inherited \cup Module
                  THEN {k \in Heads : eq_defined_walk(g, marked, k)} ELSE {}
    IN  IF c \in g.eq THEN g ELSE [g EXCEPT !.eq = marked \cup walked]

\* A new ICLASS for `of` that shares the table `mt`, put behind p
NextIclass(g) == Min((1 .. Cardinality(Iclasses(g)) + 1) \ Iclasses(g))
Put(g, p, of, mt) ==
    LET n == NextIclass(g)
    IN  [g EXCEPT !.super = With([@ EXCEPT ![p] = n], n, g.super[p]),
                  !.mt = With(@, n, mt), !.of = With(@, n, of)]

include_class_new(g, m, p) == Put(g, p, Real(g, m), g.mt[Origin(g, Real(g, m))])

\* The loop of include_module_at() for one m of the chain.  `a` holds the heap,
\* the position behind which to insert, and whether the loop has given up.
IncludeOne(a, m, c, klass_mt, search_super) ==
    LET g == a.g
        up == Tail(Chain(g, c))
        class == FirstOf(up, Class \ Singleton)
        i == FirstOf(up, {p \in Iclasses(g) : g.mt[p] = g.mt[m]})
        before == class = 0 \/ i < class
    IN  IF a.cyclic \/ m \in g.prepended THEN a
        ELSE IF klass_mt # NULL /\ klass_mt = g.mt[m] THEN [a EXCEPT !.cyclic = TRUE]
        ELSE IF i > 0 /\ (search_super \/ before)
        THEN IF before /\ c = a.pos THEN [a EXCEPT !.pos = up[i]] ELSE a
        ELSE [a EXCEPT !.g = [include_class_new(g, m, a.pos) EXCEPT !.inherited = @ \cup {m}],
                       !.pos = NextIclass(g)]

include_module_at(g, c, pos, m, search_super) ==
    LET up == Chain(g, m)
        at[i \in 0 .. Len(up)] ==
            IF i = 0 THEN [g |-> g, pos |-> pos, cyclic |-> FALSE]
            ELSE IncludeOne(at[i - 1], up[i], c, g.mt[Origin(g, c)], search_super)
        done == at[Len(up)]
    IN  [g |-> IF ~done.cyclic /\ m \in g.eq THEN eq_defined_mark(done.g, c) ELSE done.g,
         cyclic |-> done.cyclic]

\* m is included behind every member of X, one after the other.
IncludeEach(g, X, m, search_super) ==
    LET xs == SetToSeq(X)
        at[i \in 0 .. Len(xs)] ==
            IF i = 0 THEN g ELSE include_module_at(at[i - 1], xs[i], xs[i], m, search_super).g
    IN  at[Len(xs)]

\* Mutant: only the origin, which had been taken care of, gets m.
FixOrigins(g, c, m) == IncludeEach(g, {ic \in g.origin : g.of[ic] = c}, m, TRUE)

\* Every ICLASS of c that is not its origin gets m, too.
fix_include_module(g, c, m) == IncludeEach(g, {ic \in Iclasses(g) \ g.origin : g.of[ic] = c}, m, TRUE)

\* Every class or module that has an ICLASS of c before its superclass gets m
\* right behind itself.  A singleton class is passed over.
fix_prepend_module(g, c, m) ==
    LET Own(k) == LET up == Tail(Chain(g, k))
                      class == FirstOf(up, Class \ Singleton)
                  IN  IF class = 0 THEN up ELSE SubSeq(up, 1, class - 1)
        Has(k) == \E x \in ToSet(Own(k)) : x \in Iclasses(g) /\ g.of[x] = c
    IN  IncludeEach(g, {k \in Live \ (Singleton \cup {c}) : Has(k)}, m, FALSE)

\* c is a module, and has been included or prepended
Included(c) == \E ic \in Iclasses(h) \ h.origin : h.of[ic] = c

\* mrb_include_module().  A cyclic include raises and leaves behind what the
\* loop had put on the chain; the cache and the slots are not touched.
mrb_include_module(c, m) ==
    LET done == include_module_at(h, c, Origin(h, c), m, TRUE)
    IN  /\ tbl' = tbl /\ Cardinality(Iclasses(done.g)) <= MaxIclass
        /\ c \in h.prepended /\ Included(c) => "late" \in Programs
        /\ IF done.cyclic THEN "cyclic" \in Programs /\ h' = done.g /\ UNCHANGED <<cache, armed>>
           ELSE /\ h' = IF c \in Module \cap done.g.inherited
                        THEN fix_include_module(done.g, c, m) ELSE done.g
                /\ mrb_builtin_op_update(mrb_method_cache_clear(cache), h', tbl)

\* The first half of mrb_prepend_module(): the class's table moves to its origin.
MakeOrigin(g, c) ==
    LET n == NextIclass(g)
        made == [Put(g, c, c, g.mt[c]) EXCEPT !.mt[c] = NULL]
    IN  IF c \in g.prepended THEN g
        ELSE [made EXCEPT !.origin = @ \cup {n}, !.inherited = @ \cup {n},
                          !.prepended = @ \cup {c}]

mrb_prepend_module(c, m) ==
    LET done == include_module_at(MakeOrigin(h, c), c, c, m, FALSE)
    IN  /\ tbl' = tbl /\ Cardinality(Iclasses(done.g)) <= MaxIclass
        /\ Included(c) => "late" \in Programs
        /\ IF done.cyclic THEN "cyclic" \in Programs /\ h' = done.g /\ UNCHANGED <<cache, armed>>
           ELSE /\ h' = IF c \in Module THEN fix_prepend_module(done.g, c, m) ELSE done.g
                /\ mrb_builtin_op_update(mrb_method_cache_clear(cache), h', tbl)

-----------------------------------------------------------------------------
(* Methods.                                                                *)

\* mt_writable(): the table of the origin of c, made if there is none yet
mt_writable(g, c) ==
    LET o == Origin(g, c) IN IF g.mt[o] = NULL THEN [g EXCEPT !.mt[o] = c] ELSE g

\* The tables change to t at s: the cache k and the slots follow.
Change(g, t, s, k) ==
    /\ tbl' = t /\ Cardinality({x \in Named \X Sym : t[x[1]][x[2]] # None}) <= MaxDefs
    /\ IF s = Eq THEN mrb_builtin_op_update(mc_clear_by_id(k, s), g, tbl')
       ELSE cache' = mc_clear_by_id(k, s) /\ UNCHANGED armed

mrb_define_method_raw(c, s, entry, k) ==
    LET g == mt_writable(h, c)
    IN  /\ Change(g, mt_put(tbl, g.mt[Origin(g, c)], s, entry), s, k)
        /\ h' = IF s = Eq THEN eq_defined_mark(g, c) ELSE g

\* `def`; one in a private scope is as good as `private` after it
Def(c, s) == \E b \in Body : mrb_define_method_raw(c, s, Method(b, FALSE), cache)

mrb_undef_method_id(c, s) ==
    LET found == mrb_vm_find_method(cache, h, tbl, c, s)
    IN  found.m # NULL /\ mrb_define_method_raw(c, s, Undef, found.cache)

mrb_remove_method(c, s) ==
    LET t == h.mt[Origin(h, c)]
    IN  /\ mt_get(tbl, t, s) # None
        /\ Change(h, mt_del(tbl, t, s), s, cache)
        /\ UNCHANGED h

\* public and private with a name: the method found from c is put in the
\* table of its origin with the new visibility.
mrb_mod_visibility(c, s) ==
    LET found == mrb_vm_find_method(cache, h, tbl, c, s)
        g == mt_writable(h, c)
    IN  \E private \in BOOLEAN :
            /\ found.m # NULL
            /\ Change(g, mt_put(tbl, g.mt[Origin(g, c)], s, [found.m.m EXCEPT !.private = private]),
                      s, found.cache)
            /\ h' = g

\* A call, which searches from the receiver's class
Call(c, s) ==
    /\ cache' = mrb_vm_find_method(cache, h, tbl, c, s).cache
    /\ UNCHANGED <<h, tbl, armed>>

-----------------------------------------------------------------------------
(* Singleton classes come and go with their objects.                       *)

\* prepare_singleton_class(): no table yet, and the mark of its superclass
prepare_singleton_class(c) ==
    /\ c \in Singleton \ Live
    /\ h' = [h EXCEPT !.super = With(@, c, SuperOf[c]), !.mt = With(@, c, NULL),
                      !.inherited = @ \cup {c},
                      !.eq = IF SuperOf[c] \in @ THEN @ \cup {c} ELSE @]
    /\ UNCHANGED <<tbl, cache, armed>>

\* obj_free() of a class and of the ICLASSes nothing else reaches; a table is
\* freed with the class or the origin that holds it.
obj_free(c) ==
    LET own == ToSet(Chain(h, c)) \ UNION {ToSet(Chain(h, k)) : k \in Live \ {c}}
        Less(f) == [x \in DOMAIN f \ own |-> f[x]]
    IN  /\ c \in Singleton \cap Live
        /\ h' = [super |-> Less(h.super), mt |-> Less(h.mt), of |-> Less(h.of),
                 origin |-> h.origin \ own, prepended |-> h.prepended \ own,
                 inherited |-> h.inherited \ own, eq |-> h.eq \ own]
        /\ tbl' = [tbl EXCEPT ![c] = Empty]
        /\ cache' = [w \in DOMAIN cache |->
                      IF \E x \in own : mrb_mc_clear_by_class(cache, x)[w] = NULL THEN NULL ELSE cache[w]]
        /\ UNCHANGED armed

-----------------------------------------------------------------------------
(* Classes made by boot_defclass() and modules by boot_initmod() have a    *)
(* table; the builtin == is the root's.                                    *)

Init ==
    LET Made == Named \ Singleton
        inherits == {c \in Class \ Singleton : SuperOf[c] # NULL}
    IN  /\ h = [super |-> [c \in Made |-> IF c \in Class THEN SuperOf[c] ELSE NULL],
                mt |-> [c \in Made |-> c], of |-> << >>, origin |-> {}, prepended |-> {},
                inherited |-> inherits \cup {SuperOf[c] : c \in inherits}, eq |-> {}]
        /\ tbl = [c \in Named |-> IF c = Root THEN [Empty EXCEPT ![Eq] = Builtin] ELSE Empty]
        /\ cache = <<NULL, NULL>>
        /\ armed = TRUE

Next ==
    /\ \/ \E c \in Live \cap Reopened, m \in Module : mrb_include_module(c, m)
       \/ \E c \in Live \cap Reopened, m \in Module : mrb_prepend_module(c, m)
       \/ \E c \in Live \cap Reopened, s \in Sym : Def(c, s)
       \/ \E c \in Live \cap Reopened, s \in Sym : mrb_undef_method_id(c, s)
       \/ \E c \in Live \cap Reopened, s \in Sym : mrb_remove_method(c, s)
       \/ \E c \in Live \cap Reopened, s \in Sym : mrb_mod_visibility(c, s)
       \/ \E c \in Live \cap Reopened \cap Class, s \in Sym : Call(c, s)
       \/ \E c \in Singleton : prepare_singleton_class(c)
       \/ \E c \in Singleton : obj_free(c)
    /\ Cardinality(Iclasses(h')) <= MaxIclass

Spec == Init /\ [][Next]_classVars

-----------------------------------------------------------------------------
(* Properties.                                                             *)

\* The structure every walk relies on: the chain of a class reaches
\* the root; an ICLASS shares the table of the origin of what it
\* stands for; and a prepended class has one origin before its superclass, and
\* no table itself.
\* (include_class_new(), mrb_prepend_module(), MRB_CLASS_ORIGIN)
ChainsSound ==
    /\ \A x \in DOMAIN h.super : h.super[x] \in DOMAIN h.super \cup {NULL}
    /\ \A c \in Live \cap Class : Root \in ToSet(Chain(h, c))
    /\ \A ic \in Iclasses(h) : h.mt[ic] = h.mt[Origin(h, h.of[ic])]
    /\ \A c \in Live : LET up == Chain(h, c)
                           class == FirstOf(Tail(up), Class)
                           own == IF class = 0 THEN up ELSE SubSeq(up, 1, class)
                           hides == {i \in DOMAIN own : own[i] \in h.origin}
                       IN  /\ Cardinality(hides) = IF c \in h.prepended THEN 1 ELSE 0
                           /\ c \in h.prepended => h.mt[c] = NULL

\* Whatever was redefined, removed, included, prepended or freed, a cached
\* answer is the one the search would give.
CacheCoherent == \A w \in DOMAIN cache : cache[w] # NULL =>
    cache[w].c \in Live /\ cache[w] = Find(h, tbl, cache[w].c, cache[w].mid)

\* The opcode answers for == of Guarded exactly while the search finds the
\* builtin, with the visibility it had.
ArmedCoherent == armed <=> LET found == Find(h, tbl, Guarded, Eq) IN found # NULL /\ found.m = Builtin

\* OP_EQ answers by identity for a class without the mark: no class that has
\* a == other than the builtin goes without it.
EqSound == \A c \in (Live \cap Class) \ h.eq :
    LET found == Find(h, tbl, c, Eq) IN found # NULL => found.m.body = "builtin"

\* What is included in a module reaches everything the module is included in.
Ancestors(g, c) == {Real(g, x) : x \in ToSet(Chain(g, c))}
AncestorsClosed == \A c \in Live : \A m \in Ancestors(h, c) \cap Module :
    Ancestors(h, m) \subseteq Ancestors(h, c)
=============================================================================
