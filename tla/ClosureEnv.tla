----------------------------- MODULE ClosureEnv -----------------------------
(***************************************************************************)
(* Scopes that outlive their frames (src/vm.c, src/proc.c, src/gc.c).      *)
(*                                                                         *)
(* A frame that makes a block gets an environment, which lies on the stack *)
(* while the frame stands and is closed, with a copy of the locals, when   *)
(* the frame goes: by a return, with the end of a fiber or a task, or by   *)
(* the sweep of a fiber that nobody can resume.  Beside its locals a scope *)
(* has special variables ($~), in a container made at the first write.  A  *)
(* block shares them with the scope it was written in, and so does a nested*)
(* load (mrb_load_string() in a C function) with the scope it runs over.   *)
(* Where the container of a scope is depends on where the scope is: beside *)
(* its frame, in a slot behind the locals of its closed environment, or one*)
(* forward further.  The collector is incremental: it marks object by      *)
(* object and sweeps page by page between the steps of the program, which  *)
(* reuses the cells that a page sweep has freed.                           *)
(***************************************************************************)
EXTENDS Integers, Sequences, FiniteSetsExt, SequencesExt

CONSTANTS
    Root, Fib,              \* the root context, and that of a fiber or a task
    Block, Env, Svar,       \* heap objects: procs with an env, envs, containers
    Scope,                  \* names of scopes with special variables of their own
    Top, Method, Load,      \* procs without an env: the program, a def, a load
    NULL,
    MaxDepth,               \* bound: frames of a context
    MaxCalls, MaxCycles,    \* bounds: calls, and collections, of a behaviour
    MarkNext(_),            \* bound: the gray objects that may be marked next
    Kinds,                  \* what Fib may be: "fiber", "task"
    SvarUsed,               \* a special variable has been written before
    Oom,                    \* allocations may fail
    Pages,                  \* the cells of each page of the heap
    StaleReuse,             \* a cell may be reused that a frame of a dead fiber,
                            \* on a page the sweep has yet to come to, still names
    UnmarkedEnd,            \* a fiber may end while its env is yet to be marked
    LateWrite               \* blocks of a load write special variables of a scope
                            \* without an env on a fiber that is being collected

ASSUME ClosureAssumption ==
    /\ Root # Fib /\ Block \cup Env \cup Svar \cup Scope \subseteq Nat \ {0}
    /\ {MaxDepth[Root], MaxDepth[Fib], MaxCalls, MaxCycles} \subseteq Nat \ {0} /\ Kinds \subseteq {"fiber", "task"}
    /\ {SvarUsed, Oom, StaleReuse, UnmarkedEnd, LateWrite} \subseteq BOOLEAN
    /\ IsFiniteSet(Block) /\ IsFiniteSet(Env) /\ IsFiniteSet(Svar)
    /\ NULL \notin {Root, Fib} /\ NULL \notin Env /\ NULL \notin {"env"} \X Env

VARIABLES
    fr,      \* call frames of every context
    blk,     \* procs: env, upper, and whether the program holds it
    env,     \* struct REnv
    sv,      \* struct RSvar
    c,       \* mrb->c, and what is known of Fib: see Init
    gc,      \* phase; the black and the gray objects while marking; and the white
             \* ones, which the sweep frees (an object made since the root scan
             \* has the other white and is in none of the three)
    first    \* history: the container of the first write to a scope

closureVars == <<fr, blk, env, sv, c, gc, first>>

Context == {Root, Fib}
FiberScope == 0                 \* the scope of a fiber's root block
TopScope == 1

\* References to objects
B(i) == <<"blk", i>>
E(i) == <<"env", i>>
S(i) == <<"svar", i>>
F == <<"fib", 1>>
Refs(X) == X \ {NULL}
EnvRef(e) == IF e = NULL THEN NULL ELSE E(e)

Cell == {B(b) : b \in Block} \cup {E(e) : e \in Env} \cup {S(v) : v \in Svar} \cup {F}

ASSUME PageAssumption == UNION Pages = Cell

\* A cell on the free list of its page
Free == [is |-> "free"]

\* A state, as the operators below pass it on
Now == [fr |-> fr, blk |-> blk, env |-> env, sv |-> sv, c |-> c, gc |-> gc, first |-> first]

Frame(proc, sc, inLoad) == [proc |-> proc, env |-> NULL, sv |-> NULL, sc |-> sc, load |-> inLoad]
Least(X) == CHOOSE x \in X : \A y \in X : x <= y
Unused(f) == {x \in DOMAIN f : f[x] = Free}
InUse(f) == {x \in DOMAIN f : f[x] # Free}
IsBlock(p) == p \in Block
TopOf(s, x) == Last(s.fr[x])
Cur(s) == s.c.cur

-----------------------------------------------------------------------------
(* Whose special variables a frame sees.                                   *)

Onstack(s, e) == s.env[e].cxt # NULL

\* The loops of the code are functions of the number of turns, as many as there
\* are objects to visit; one that has come to its end stays there.
svar_scope_env(s, b) ==
    LET up[n \in 0 .. Cardinality(Block)] ==
            IF n = 0 THEN b
            ELSE LET p == up[n - 1] IN IF IsBlock(s.blk[p].upper) THEN s.blk[p].upper ELSE p
    IN  s.blk[up[Cardinality(Block)]].env

OnFrame(x, i) == [at |-> "frame", cxt |-> x, i |-> i]
InEnv(e) == [at |-> "env", e |-> e]
Nowhere == [at |-> "none"]         \* no such frame
Lost == [at |-> "lost"]            \* closed out of memory: nothing is left

\* x's own root block was written in the scope of e
RootBlockOf(s, x, e) == s.fr[x] # << >> /\ IsBlock(s.fr[x][1].proc)
                        /\ svar_scope_env(s, s.fr[x][1].proc) = e

\* An env on the stack, the first that is no longer a forward, or NULL
Forwarded(s, x, e) ==
    LET fwd[n \in 0 .. Cardinality(Env)] ==
            IF n = 0 THEN e
            ELSE LET g == fwd[n - 1]
                 IN  IF RootBlockOf(s, x, g) \/ Onstack(s, g) \/ s.env[g].slot = NULL THEN g
                     ELSE IF s.env[g].slot[1] = "env" THEN s.env[g].slot[2]
                     ELSE g
    IN  fwd[Cardinality(Env)]

\* Where the scope of env e is, for a block on the frame `at` that x asks about;
\* frame 0 if the env is on no frame
ScopeAt(s, x, at, e) ==
    LET oc == s.env[e].cxt
        from == IF oc = at.cxt THEN at.i - 1 ELSE Len(s.fr[oc])
    IN  IF RootBlockOf(s, x, e) THEN OnFrame(x, 1)
        ELSE IF ~Onstack(s, e) THEN IF s.env[e].stack THEN InEnv(e) ELSE Lost
        ELSE OnFrame(oc, Max({0} \cup {n \in 1 .. from : s.fr[oc][n].env = e}))

\* A load sends the walk to the frame below, a block to where its scope is.
NextOwner(s, x, at, proc) ==
    IF proc = Load THEN OnFrame(at.cxt, at.i - 1)
    ELSE ScopeAt(s, x, at, Forwarded(s, x, svar_scope_env(s, proc)))

\* svar_owner_from(): x is the context that asks, `from` where the walk begins
svar_owner_from(s, x, from) ==
    LET turns == Len(s.fr[Root]) + Len(s.fr[Fib]) + 1
        walk[n \in 0 .. turns] ==
            IF n = 0 THEN from
            ELSE LET at == walk[n - 1]
                 IN  IF at.at # "frame" THEN at
                     ELSE IF at.i = 0 THEN Nowhere
                     ELSE IF at.i = 1 \/ s.fr[at.cxt][at.i].proc = Method THEN at
                     ELSE NextOwner(s, x, at, s.fr[at.cxt][at.i].proc)
    IN  walk[turns]

svar_owner(s) == svar_owner_from(s, Cur(s), OnFrame(Cur(s), Len(s.fr[Cur(s)])))

\* What the owner holds: a container or nothing
svar_owner_container(s, o) ==
    CASE o.at = "frame" -> s.fr[o.cxt][o.i].sv
      [] o.at = "env" -> s.env[o.e].slot
      [] OTHER -> NULL

\* The container of owner o, or a forward to its env, for the env `own` of a load
CarriedByLoad(s, x, own, o) ==
    LET fwd == CASE o.at = "frame" -> s.fr[o.cxt][o.i].env
                 [] o.at = "env" -> o.e
                 [] OTHER -> NULL
    IN  IF o = OnFrame(x, 1) THEN NULL
        ELSE IF svar_owner_container(s, o) # NULL THEN svar_owner_container(s, o)
        ELSE IF fwd \in {NULL, own} THEN NULL ELSE E(fwd)

\* What the env of frame i of x carries when x is torn down
mrb_svar_frame_container(s, x, i) ==
    LET f == s.fr[x][i]
    IN  IF f.sv # NULL \/ f.proc # Load THEN f.sv
        ELSE CarriedByLoad(s, x, f.env, svar_owner_from(s, x, OnFrame(x, i)))

-----------------------------------------------------------------------------
(* The collector: what it reaches, its marking, its sweep.                 *)

\* Frames whose env is e, on the context it says it is on
FrameOf(s, e) == {i \in DOMAIN s.fr[s.env[e].cxt] : s.fr[s.env[e].cxt][i].env = e}

FrameRefs(s, x) == UNION {LET f == s.fr[x][i]
                          IN  Refs({IF IsBlock(f.proc) THEN B(f.proc) ELSE NULL, EnvRef(f.env), f.sv})
                            : i \in DOMAIN s.fr[x]}

\* Mutant: an env on the stack marks its locals only
EnvRefsLocalsOnly(s, e) == IF ~Onstack(s, e) THEN {s.env[e].slot} ELSE {}

\* gc_mark_children() of an env: the slot of a closed one; for one on the stack
\* of a fiber what its frame carries, except for the root frame's
EnvRefs(s, e) ==
    IF ~Onstack(s, e) THEN {s.env[e].slot}
    ELSE IF s.env[e].cxt = Root THEN {}
    ELSE {IF i = 1 THEN s.fr[Fib][i].sv ELSE mrb_svar_frame_container(s, Fib, i) : i \in FrameOf(s, e)}

Children(s, r) ==
    CASE r[1] = "blk" -> Refs({E(s.blk[r[2]].env), IF IsBlock(s.blk[r[2]].upper) THEN B(s.blk[r[2]].upper) ELSE NULL})
      [] r[1] = "env" -> Refs(EnvRefs(s, r[2]))
      [] r[1] = "fib" -> FrameRefs(s, Fib)
      [] OTHER -> {}

\* The stacks of the root and of the running context and of tasks, and what the
\* program holds.  A suspended fiber is marked as an object.
GcRoots(s) ==
    LET there == s.fr[Fib] # << >>
        scanned == Cur(s) = Fib \/ s.c.kind = "task"
    IN  FrameRefs(s, Root) \cup {B(b) : b \in {x \in InUse(s.blk) : s.blk[x].held}}
        \cup (IF there /\ (scanned \/ s.c.held) THEN {F} ELSE {})
        \cup (IF there /\ scanned THEN FrameRefs(s, Fib) ELSE {})

Allocated(s) == {B(b) : b \in InUse(s.blk)} \cup {E(e) : e \in InUse(s.env)}
                \cup {S(v) : v \in InUse(s.sv)} \cup (IF s.fr[Fib] = << >> THEN {} ELSE {F})

\* The roots and what they reach through objects of `white`
Reach(s, roots, white) ==
    LET mark[n \in 0 .. Cardinality(white) + 1] ==
            IF n = 0 THEN [seen |-> {}, more |-> roots]
            ELSE LET m == mark[n - 1]
                     seen == m.seen \cup m.more
                 IN  [seen |-> seen, more |-> (UNION {Children(s, r) : r \in m.more \cap white}) \ seen]
    IN  mark[Cardinality(white) + 1].seen

-----------------------------------------------------------------------------
\* Scopes a frame or a block belongs to; the history of the others is dropped.
Known(s) == {TopScope} \cup (UNION {{s.fr[x][i].sc : i \in DOMAIN s.fr[x]} : x \in Context})
            \cup {s.blk[b].sc : b \in InUse(s.blk)}
            \cup (IF s.fr[Fib] = << >> THEN {} ELSE {FiberScope})

Go(s) == \E t \in {s} : \E known \in {Known(t)} :
    /\ fr' = t.fr /\ blk' = t.blk /\ env' = t.env /\ sv' = t.sv /\ c' = t.c /\ gc' = t.gc
    /\ first' = [x \in DOMAIN first |-> IF x \in known THEN t.first[x] ELSE NULL]

mrb_free_context(s) == [s EXCEPT !.fr[Fib] = << >>, !.c.svars = FALSE, !.c.held = FALSE]

\* Marking an env on the stack of Fib records what its frame carries.
Stashed(s, scanned) ==
    [s EXCEPT !.fr[Fib] = [i \in DOMAIN @ |->
        IF s.c.svars /\ i > 1 /\ @[i].env # NULL /\ EnvRef(@[i].env) \in scanned
        THEN [@[i] EXCEPT !.sv = mrb_svar_frame_container(s, Fib, i)] ELSE @[i]]]

\* A container has no children in the model and is black as soon as it is found.
Leaf == {S(v) : v \in Svar}

\* root_scan_phase() and the flip: what is not marked from here on will die,
\* except for what is made from here on.
RootScan(s) ==
    [s EXCEPT !.c.cycles = IF @ < MaxCycles THEN @ + 1 ELSE @,
              !.gc = [phase |-> "mark", black |-> GcRoots(s) \cap Leaf, gray |-> GcRoots(s) \ Leaf,
                      white |-> Allocated(s) \ GcRoots(s)]]

\* gc_mark_children() of the gray object r
MarkOne(s, r) ==
    LET found == Children(s, r) \ (s.gc.black \cup s.gc.gray)
    IN  [Stashed(s, {r}) EXCEPT !.gc.black = @ \cup {r} \cup (found \cap Leaf),
                                !.gc.gray = (@ \ {r}) \cup (found \ Leaf), !.gc.white = @ \ found]

\* final_marking_phase(): what is gray, and the roots once more
FinalMark(s) ==
    LET Marked(reached) == [Stashed(s, reached \ s.gc.black) EXCEPT
            !.gc = [phase |-> "sweep", black |-> {}, gray |-> {}, white |-> @.white \ reached]]
    IN  Marked(Reach(s, GcRoots(s) \cup s.gc.gray, Allocated(s) \ s.gc.black))

mrb_write_barrier(s, r) ==
    IF s.gc.phase = "mark" /\ r \in s.gc.black
    THEN [s EXCEPT !.gc.black = @ \ {r}, !.gc.gray = @ \cup {r}] ELSE s

-----------------------------------------------------------------------------
(* Closing an env.                                                         *)

\* mrb_env_detach(): `carried` goes to the slot.  It may fail for lack of memory.
mrb_env_detach(s, e, carried, fails) ==
    mrb_write_barrier(
        [s EXCEPT !.env[e] = [cxt |-> NULL, stack |-> ~fails, slot |-> IF fails THEN NULL ELSE carried]],
        E(e))

Failures == IF Oom THEN BOOLEAN ELSE {FALSE}

\* The walk of mrb_env_detach_all(), from the top frame to cibase.  Mutant: it
\* stops before cibase
DownAboveBase(n) == [k \in 1 .. n - 1 |-> n + 1 - k]
DownToBase(n) == [k \in 1 .. n |-> n + 1 - k]

\* is_dead(): of an env that the marking has yet to reach it is true as well
mrb_object_dead_p(s, e) == s.env[e] = Free \/ E(e) \in s.gc.white

\* Every env on the stack of Fib that is not dead, judged by what is in the cell
\* now; a task resolves what a load carries here, a fiber relies on what the
\* marking recorded.
mrb_env_detach_all(s, resolve, fails) ==
    LET Alive(r) == IF r \in {E(e) : e \in Env} \cap s.gc.white THEN NULL ELSE r
        Carried(t, i) == IF i = 1 THEN NULL
                         ELSE IF resolve THEN Alive(mrb_svar_frame_container(t, Fib, i))
                         ELSE t.fr[Fib][i].sv
        Detach(t, i) == LET e == t.fr[Fib][i].env
                        IN  IF e = NULL \/ mrb_object_dead_p(t, e) \/ ~Onstack(t, e) THEN t
                            ELSE mrb_env_detach(t, e, Carried(t, i), fails)
        walk == DownToBase(Len(s.fr[Fib]))
        done[k \in 0 .. Len(walk)] == IF k = 0 THEN s ELSE Detach(done[k - 1], walk[k])
    IN  done[Len(walk)]

\* The sweep of a page frees the dead on it, and Fib's context with it if Fib is
\* one of them.
SweepPage(s, page, fails) ==
    LET freed == s.gc.white \cap page
        Swept(f, Ref(_)) == [x \in DOMAIN f |-> IF Ref(x) \in freed THEN Free ELSE f[x]]
    IN  [(IF F \in freed THEN mrb_free_context(mrb_env_detach_all(s, FALSE, fails)) ELSE s)
            EXCEPT !.blk = Swept(@, B), !.env = Swept(@, E), !.sv = Swept(@, S),
                   !.gc.white = @ \ page,
                   !.gc.phase = IF s.gc.white \subseteq page THEN "idle" ELSE "sweep"]

\* The collector runs to the end of its cycle; nothing is made in between.
Finished(s) == SweepPage(IF s.gc.phase = "sweep" THEN s ELSE FinalMark(s), Cell, FALSE)

\* A collection inside an allocation: what is under way is finished, and a whole
\* cycle follows.
mrb_full_gc(s) == Finished(RootScan(IF s.gc.phase = "idle" THEN s ELSE Finished(s)))

MaybeCollected(s) == {s} \cup (IF s.gc.phase # "idle" \/ s.c.cycles < MaxCycles THEN {mrb_full_gc(s)} ELSE {})

-----------------------------------------------------------------------------
(* Special variables.                                                      *)

\* mrb_ci_svar_set(), with the array beside the frames made if there is none
SetOnFrame(s, x, i, ref) ==
    [s EXCEPT !.fr[x][i].sv = ref, !.c.used = TRUE, !.c.svars = @ \/ x = Fib]

\* The second half of svar_owner_force(), after svar_new(): the owner is resolved
\* again and given the container if it still has none.
Install(s, o) ==
    LET ref == S(Least(Unused(s.sv)))
        made == [s EXCEPT !.sv[ref[2]] = [is |-> "svar"]]
        framed == SetOnFrame(made, o.cxt, o.i, ref)
    IN  IF svar_owner_container(s, o) # NULL \/ o.at \in {"none", "lost"} THEN s
        ELSE IF o.at = "env" THEN mrb_write_barrier([made EXCEPT !.env[o.e].slot = ref], E(o.e))
        ELSE IF o.cxt \notin {Cur(s), Root} /\ s.c.kind = "fiber" THEN mrb_write_barrier(framed, F)
        ELSE framed

\* The scope the code on top of s sees, as a fiber keeps its own to itself
ScopeOf(s) ==
    LET f == TopOf(s, Cur(s))
        root == s.fr[Cur(s)][1]
    IN  IF IsBlock(root.proc) /\ IsBlock(f.proc) /\ f.sc = root.sc /\ f.load = root.load
        THEN FiberScope ELSE f.sc

\* svar_owner_force(): what follows if the owner has a container, and else after
\* an allocation that may collect; it, or the one for the container's place, may
\* fail and raise
svar_owner_force(s) ==
    LET Noted(t) == [t EXCEPT !.first[ScopeOf(s)] =
                         IF @ = NULL THEN svar_owner_container(t, svar_owner(t)) ELSE @]
    IN  IF svar_owner_container(s, svar_owner(s)) # NULL THEN {s}
        ELSE {Noted(Install(t, svar_owner(t))) : t \in {u \in MaybeCollected(s) : Unused(u.sv) # {}}}
             \cup (IF Oom THEN MaybeCollected(s) ELSE {})

\* With block b called on top of what runs; NULL: with no call
Calling(s, b) == IF b = NULL THEN s
                 ELSE [s EXCEPT !.fr[Cur(s)] = Append(@, Frame(b, s.blk[b].sc, s.blk[b].load))]
Callable(s) == {NULL} \cup {b \in InUse(s.blk) : s.blk[b].held}
CallDone(s, b) == IF b = NULL THEN s ELSE [s EXCEPT !.fr[Cur(s)] = Front(@)]

\* Is the owner a frame without an env, of a fiber that the marking has not
\* reached?  What the load's env carries may have been recorded already.
Late(s) == /\ F \in s.gc.white /\ Cur(s) # Fib
           /\ LET o == svar_owner(s) IN o.at = "frame" /\ o.cxt = Fib /\ s.fr[Fib][o.i].env = NULL

\* mrb_vm_svar_set(): the code that runs, or a block it calls, sets $~.
mrb_vm_svar_set == \E b \in Callable(Now) :
    LET s == Calling(Now, b)
    IN  /\ LateWrite \/ ~Late(s)
        /\ \E t \in svar_owner_force(s) : Go(CallDone(t, b))

-----------------------------------------------------------------------------
(* Frames.                                                                 *)

\* Programs of the instance make nothing new after their last collection, and
\* the call of a block counts as two.
Going == c.cycles < MaxCycles \/ gc.phase # "idle"
Push(f, n) == /\ Going /\ Len(fr[c.cur]) < MaxDepth[c.cur] /\ c.calls + n <= MaxCalls
              /\ Go([Now EXCEPT !.fr[c.cur] = Append(@, f), !.c.calls = @ + n])

CallMethod == Scope \ Known(Now) # {} /\ Push(Frame(Method, Least(Scope \ Known(Now)), FALSE), 1)

\* A block does not call itself in the programs of the instance.
CallBlock == \E b \in Callable(Now) \ {NULL, TopOf(Now, c.cur).proc} :
    Push(Frame(b, blk[b].sc, blk[b].load), 2)

\* A C function loads code.  Programs of the instance do so in a method or at
\* the top level, or in a load.
RunLoad == LET f == TopOf(Now, c.cur)
           IN  ~IsBlock(f.proc) /\ Push(Frame(Load, f.sc, TRUE), 1)

\* mrb_closure_new(): the frame gets its env now.  Programs of the instance write
\* one block in every scope; another would share its env.
MakeBlock ==
    LET f == TopOf(Now, c.cur)
        n == Len(fr[c.cur])
        cells == {e \in Unused(env) : StaleReuse \/ \A i \in DOMAIN fr[Fib] : fr[Fib][i].env # e}
    IN  /\ Going /\ f.env = NULL /\ Unused(blk) # {} /\ cells # {}
        /\ \E b \in {Least(Unused(blk))}, e \in {Least(cells)} :
              Go([Now EXCEPT
                    !.blk[b] = [env |-> e, upper |-> f.proc, held |-> TRUE, sc |-> f.sc, load |-> f.load],
                    !.env[e] = [cxt |-> c.cur, stack |-> TRUE, slot |-> NULL],
                    !.fr[c.cur][n].env = e,
                    !.c.svars = @ \/ (c.cur = Fib /\ c.used)])

\* The program lets go of a block.  During a collection it does not: the block
\* would either be kept or be freed as if it had been dropped before.
DropBlock == \E b \in Callable(Now) \ {NULL} :
    gc.phase = "idle" /\ c.cycles < MaxCycles /\ Go([Now EXCEPT !.blk[b].held = FALSE])

\* Mutant: a load's env is closed with what its own frame holds
AdoptedNone(s) == {[s |-> s, sv |-> TopOf(s, Cur(s)).sv]}

\* What the env of the top frame is closed with: its container, or for a load
\* that of the scope below, made now if there is none (svar_owner_adopt()).
\* An allocation that fails there leaves the slot empty and is raised once the
\* frame is gone: in the caller, which may return in turn.
Adopted(s) ==
    LET f == TopOf(s, Cur(s))
    IN  IF f.sv = NULL /\ f.proc = Load
        THEN {[s |-> t, sv |-> svar_owner_container(t, svar_owner(t))] : t \in svar_owner_force(s)}
        ELSE {[s |-> s, sv |-> f.sv]}

\* cipop(): the frame keeps the env through the allocations that close it.
cipop ==
    LET s == Now
        e == TopOf(s, c.cur).env
        Popped(t) == [t EXCEPT !.fr[c.cur] = Front(@)]
    IN  /\ Len(fr[c.cur]) > 1
        /\ IF e = NULL THEN Go(Popped(s))
           ELSE \E a \in Adopted(s) : \E t \in MaybeCollected(a.s), fails \in Failures :
                    Go(Popped(mrb_env_detach(t, e, a.sv, fails)))

\* mrb_vm_ci_env_clear(): the next chunk of the program gets a fresh scope.  Out
\* of memory it raises to the host, which is not modelled.
mrb_vm_ci_env_clear ==
    LET f == TopOf(Now, Root)
        Cleared(t) == [t EXCEPT !.fr[Root][1] = Frame(Top, Least(Scope \ Known(Now)), FALSE)]
    IN  /\ c.cur = Root /\ Len(fr[Root]) = 1 /\ Scope \ Known(Now) # {}
        /\ IF f.env = NULL THEN Go(Cleared(Now))
           ELSE \E t \in MaybeCollected(Now) : Go(Cleared(mrb_env_detach(t, f.env, f.sv, FALSE)))

-----------------------------------------------------------------------------
(* Fibers and tasks.                                                       *)

\* Programs of the instance make one fiber or task, of a block that was not
\* written in a load.
NewFiber == \E b \in Callable(Now) \ {NULL} : \E kind \in Kinds :
    /\ Going /\ c.kind = "none" /\ ~blk[b].load /\ c.cur = Root
    /\ Go([Now EXCEPT !.fr[Fib] = <<Frame(b, blk[b].sc, FALSE)>>,
                      !.c = [@ EXCEPT !.kind = kind, !.held = TRUE]])

Resume == /\ c.cur = Root /\ fr[Fib] # << >> /\ (c.held \/ c.kind = "task")
          /\ Go([Now EXCEPT !.c.cur = Fib])

\* The context that is left pays a barrier, a task's is scanned again.
Yield == /\ c.cur = Fib
         /\ Go([mrb_write_barrier(Now, F) EXCEPT !.c.cur = Root])

DropFiber == /\ c.held /\ c.cur = Root /\ gc.phase = "idle" /\ c.cycles < MaxCycles /\ c.kind = "fiber"
             /\ Go([Now EXCEPT !.c.held = FALSE])

\* The frames go first; a collection then finds the env only through a block.
fiber_terminate ==
    LET e == fr[Fib][1].env
        s == [mrb_free_context(Now) EXCEPT !.c.cur = Root]
    IN  /\ c.cur = Fib /\ Len(fr[Fib]) = 1 /\ c.kind = "fiber"
        /\ UnmarkedEnd \/ EnvRef(e) \notin gc.white
        /\ IF e = NULL THEN Go(s)
           ELSE \E t \in MaybeCollected(mrb_write_barrier(s, E(e))) :
                    Go(IF mrb_object_dead_p(t, e) THEN t ELSE mrb_env_detach(t, e, NULL, FALSE))

\* task_unshare_envs(): a task ends or is terminated.
EndTask ==
    /\ c.kind = "task" /\ fr[Fib] # << >> /\ (c.cur = Root \/ Len(fr[Fib]) = 1)
    /\ \E fails \in Failures :
          Go([mrb_free_context(mrb_env_detach_all(Now, TRUE, fails)) EXCEPT !.c.cur = Root])

-----------------------------------------------------------------------------

StartMark == gc.phase = "idle" /\ c.cycles < MaxCycles /\ Go(RootScan(Now))
Mark == gc.phase = "mark" /\ \E r \in gc.gray \cap MarkNext(gc.gray) : Go(MarkOne(Now, r))
FinishMark == gc.phase = "mark" /\ gc.gray = {} /\ Go(FinalMark(Now))
Sweep == gc.phase = "sweep" /\ \E page \in Pages, fails \in Failures :
    (gc.white # {} => page \cap gc.white # {}) /\ Go(SweepPage(Now, page, fails))

Init ==
    /\ fr = [x \in Context |-> IF x = Root THEN <<Frame(Top, TopScope, FALSE)>> ELSE << >>]
    /\ blk = [b \in Block |-> Free] /\ env = [e \in Env |-> Free] /\ sv = [v \in Svar |-> Free]
    /\ c = [cur |-> Root, kind |-> "none", held |-> FALSE, svars |-> FALSE, used |-> SvarUsed,
           calls |-> 0, cycles |-> 0]
    /\ gc = [phase |-> "idle", black |-> {}, gray |-> {}, white |-> {}]
    /\ first = [x \in Scope \cup {FiberScope} |-> NULL]

Next ==
    \/ mrb_vm_svar_set
    \/ CallMethod \/ CallBlock \/ RunLoad \/ cipop \/ mrb_vm_ci_env_clear
    \/ MakeBlock \/ DropBlock
    \/ NewFiber \/ Resume \/ Yield \/ DropFiber \/ fiber_terminate \/ EndTask
    \/ StartMark \/ Mark \/ FinishMark \/ Sweep

Spec == Init /\ [][Next]_closureVars

-----------------------------------------------------------------------------
(* Properties.                                                             *)

\* What the sweep under way has yet to free
Dead == IF gc.phase = "sweep" THEN gc.white ELSE {}

\* An env that is not dead is in one of the three states of internal.h: on the
\* stack, the env of exactly one frame, of the context it names, and without a
\* slot; or closed, held by no frame, and with a slot only if it still has its
\* locals.  The frames of a dead fiber count for the envs that are on them.
EnvOwned == \A e \in {x \in InUse(env) : E(x) \notin Dead} :
    LET contexts == {Root, IF F \in Dead THEN env[e].cxt ELSE Fib} \ {NULL}
        at == UNION {{<<x, i>> : i \in {j \in DOMAIN fr[x] : fr[x][j].env = e}} : x \in contexts}
    IN  IF Onstack(Now, e) THEN /\ Cardinality(at) = 1 /\ \A y \in at : y[1] = env[e].cxt
                                /\ env[e].slot = NULL
        ELSE at = {} /\ (env[e].slot # NULL => env[e].stack)

\* Nothing the program can reach, what an escaped block will find after the
\* teardown of the fiber included, has been freed or is about to be.
NothingDangles == Reach(Now, GcRoots(Now), Allocated(Now)) \subseteq Allocated(Now) \ Dead

\* Code finds the special variables of its scope: the container that was made at
\* the first write to it, by the scope itself, by a load it ran or by any block
\* written in either, whichever of them is left and wherever it runs; and none
\* if none of them has written.
SvarsShared == \A b \in Callable(Now) :
    LET s == Calling(Now, b)
        o == svar_owner(s)
    IN  o # Lost => svar_owner_container(s, o) = first[ScopeOf(s)]
=============================================================================
