------------------------------- MODULE GcHeap -------------------------------
(***************************************************************************)
(* mruby's tri-colour, incremental and generational collector, src/gc.c.   *)
(*                                                                         *)
(* A slot of the heap is a member of Obj and lies on a page.  The mutator  *)
(* owns the reference graph (ref) and the roots; the collector owns the    *)
(* colours, the gray stack, the page flags and its own phase.  mruby runs  *)
(* both on one thread: the mutator moves only while op = "idle", and a     *)
(* call into the collector is a run of the steps below with op naming the  *)
(* entry point it came from.  How much one call does (gc_debt, step_ratio, *)
(* malloc pressure, disabled, iterating) is pacing; here a call may happen *)
(* at any idle moment and an incremental step may end after any unit.      *)
(***************************************************************************)
EXTENDS Naturals, FiniteSets

CONSTANTS
    Obj,                  \* object slots of the heap
    Page, PageOf,         \* heap pages and the page each slot lies on
    Leaf,                 \* slots used for leaf types (string, integer, cptr)
    Fiber,                \* slots used for Fiber objects
    NoFiber,              \* the root context runs
    MRB_GRAY_STACK_SIZE,  \* capacity of gc->gray_stack
    MaxRefs,              \* bound: references one object holds
    GenerationalBuild,    \* FALSE: MRB_GC_TURN_OFF_GENERATIONAL
    ModeSwitch,           \* TRUE: the program assigns GC.generational_mode
    SweepOom              \* TRUE: malloc may fail in a generational sweep

ASSUME HeapAssumption ==
    /\ PageOf \in [Obj -> Page]
    /\ Leaf \subseteq Obj
    /\ Fiber \subseteq Obj \ Leaf
    /\ NoFiber \notin Obj
    /\ MRB_GRAY_STACK_SIZE \in Nat \ {0}
    /\ MaxRefs \in Nat
    /\ GenerationalBuild \in BOOLEAN
    /\ ModeSwitch \in BOOLEAN
    /\ SweepOom \in BOOLEAN

VARIABLES
    ref,            \* object -> objects its fields (or fiber stack) hold
    roots,          \* arena, root context stack, globals, gc->root, task stacks
    cxt,            \* the running fiber (mrb->c->fib), or NoFiber
    color,          \* gc_color, with "free" for MRB_TT_FREE
    white,          \* gc->current_white_part
    state,          \* gc->state; "FINAL" is MARK inside final_marking_phase
    gray_stack,     \* objects on gc->gray_stack, in no order
    gray_overflow,
    generational,
    full,
    old,            \* pages with page->old set
    unswept,        \* pages after gc->sweeps, which this sweep still visits
    op              \* the collector entry point on the C stack, or "idle"

mutator == <<ref, roots, cxt>>
marking == <<color, gray_stack, gray_overflow>>
mode    == <<generational, full>>
vars == <<ref, roots, cxt, color, white, state, gray_stack, gray_overflow,
          generational, full, old, unswept, op>>

Whites == {"whiteA", "whiteB"}
Color  == Whites \cup {"gray", "black", "free"}

\* Calls that run to MRB_GC_STATE_ROOT, one name per call site of
\* incremental_gc_finish() and the bookkeeping that follows it.
Finishing == {"minor", "oom", "full.finish", "full.unold", "full.cycle",
              "grow.unold", "genoff.finish", "genoff.unold", "genon.finish"}
Op == Finishing \cup {"idle", "step"}

\* Mutant: the mask of other_white_part() names one white only.
OtherWithHalfMask == IF white = "whiteA" THEN "gray" ELSE "whiteA"

other == IF white = "whiteA" THEN "whiteB" ELSE "whiteA"
Dead  == {o \in Obj : color[o] \in {other, "free"}}
Minor == generational /\ ~full

\* What mark_context(), the arena loop, mrb_gc_mark_gv(), mark_gc_roots() and
\* mrb_task_mark_all() mark: none of it carries a write barrier.
Roots == roots \cup (IF cxt = NoFiber THEN {} ELSE {cxt} \cup ref[cxt])

\* The heap as the program sees it, and the objects it can still reach.
Heap == INSTANCE ManagedHeap
        WITH alloc <- {o \in Obj : color[o] # "free"}, roots <- Roots
Live == Heap!Live

-----------------------------------------------------------------------------
(* Marking.                                                                *)

\* Mutant: an object that finds the stack full is painted and forgotten.
PushWithoutOverflow(N, g, f) ==
    \E T \in SUBSET N :
        /\ gray_stack' = g \cup T
        /\ Cardinality(g) + Cardinality(T) <= MRB_GRAY_STACK_SIZE
        /\ gray_overflow' = f

\* add_gray_list() for the objects of N, from stack g and overflow flag f:
\* those that find the stack full are only painted, and set the flag.
Push(N, g, f) ==
    \E T \in SUBSET N :
        /\ gray_stack' = g \cup T
        /\ \/ /\ T = N
              /\ Cardinality(g) + Cardinality(N) <= MRB_GRAY_STACK_SIZE
              /\ gray_overflow' = f
           \/ /\ T # N
              /\ Cardinality(g) + Cardinality(T) = MRB_GRAY_STACK_SIZE
              /\ gray_overflow' = TRUE

\* mrb_gc_mark() on every object of S, from colours c, stack g and flag f.
\* White objects become gray, those of a leaf type black at once.
Mark(S, c, g, f) ==
    LET W == {o \in S : c[o] \in Whites}
    IN  /\ color' = [o \in Obj |-> IF o \in W \ Leaf THEN "gray"
                                   ELSE IF o \in W THEN "black" ELSE c[o]]
        /\ Push(W \ Leaf, g, f)

gc_mark_children(o) ==
    Mark(ref[o], [color EXCEPT ![o] = "black"], gray_stack \ {o}, gray_overflow)

\* Mutant: the rescan does not clear the overflow flag first.
RescanKeepsOverflow ==
    /\ gray_stack = {} /\ gray_overflow
    /\ Push({o \in Obj : color[o] = "gray"}, {}, TRUE)
    /\ UNCHANGED color

\* Refill the emptied stack with gray objects of the heap, as many as fit.
gc_gray_rescan ==
    LET G == {o \in Obj : color[o] = "gray"}
    IN  /\ gray_stack = {} /\ gray_overflow
        /\ Push(G, {}, FALSE)
        /\ UNCHANGED color

NothingGray == gray_stack = {} /\ ~gray_overflow

-----------------------------------------------------------------------------
(* The mutator.  Operands are values it holds, that is members of Roots.   *)

\* A value lands on the running context's stack, without a barrier.
PushValue(v) ==
    IF cxt = NoFiber
    THEN roots' = roots \cup {v} /\ UNCHANGED ref
    ELSE /\ Cardinality(ref[cxt] \cup {v}) <= MaxRefs
         /\ ref' = [ref EXCEPT ![cxt] = @ \cup {v}]
         /\ UNCHANGED roots

\* Mutant: the barrier forgets that a generational heap needs it between cycles.
BarrierOnlyWhileMarking(o, v) ==
    IF color[o] = "black" /\ color[v] \in Whites /\ state = "MARK"
    THEN /\ color' = [color EXCEPT ![v] = "gray"]
         /\ Push({v}, gray_stack, gray_overflow)
    ELSE UNCHANGED marking

\* Mutant: the barrier of a non-generational heap repaints the container also
\* while it is being marked, and leaves it off the gray stack.
BarrierRepaintsWhileMarking(o, v) ==
    /\ color' = IF color[o] = "black" /\ color[v] \in Whites
                THEN [color EXCEPT ![o] = white] ELSE color
    /\ UNCHANGED <<gray_stack, gray_overflow>>

mrb_field_write_barrier(o, v) ==
    IF color[o] # "black" \/ color[v] \notin Whites
    THEN UNCHANGED marking
    ELSE IF generational \/ state = "MARK"
         THEN /\ color' = [color EXCEPT ![v] = "gray"]
              /\ Push({v}, gray_stack, gray_overflow)
         ELSE /\ color' = [color EXCEPT ![o] = white]
              /\ UNCHANGED <<gray_stack, gray_overflow>>

\* Mutant: the container goes on the gray stack without being painted.
BarrierWithoutPaint(o) ==
    /\ UNCHANGED color
    /\ IF color[o] # "black" THEN UNCHANGED <<gray_stack, gray_overflow>>
                             ELSE Push({o}, gray_stack, gray_overflow)

mrb_write_barrier(o) ==
    IF color[o] # "black"
    THEN UNCHANGED marking
    ELSE /\ color' = [color EXCEPT ![o] = "gray"]
         /\ Push({o}, gray_stack, gray_overflow)

\* The slot handed out is put in the arena and painted with the current white.
mrb_obj_alloc(n) ==
    /\ op = "idle"
    /\ color[n] = "free"
    /\ color' = [color EXCEPT ![n] = white]
    /\ ref' = [ref EXCEPT ![n] = {}]
    /\ roots' = roots \cup {n}
    /\ UNCHANGED <<cxt, white, state, gray_stack, gray_overflow, mode, old,
                   unswept, op>>

\* Read a field of an object the program holds.
LoadField(o, v) ==
    /\ op = "idle"
    /\ o \in Roots /\ v \in ref[o]
    /\ PushValue(v)
    /\ UNCHANGED <<cxt, marking, white, state, mode, old, unswept, op>>

\* A register is overwritten or popped, the arena restored, a pin released.
DropValue(v) ==
    /\ op = "idle"
    /\ \/ /\ v \in roots
          /\ roots' = roots \ {v}
          /\ UNCHANGED ref
       \/ /\ cxt # NoFiber
          /\ v \in ref[cxt]
          /\ ref' = [ref EXCEPT ![cxt] = @ \ {v}]
          /\ UNCHANGED roots
    /\ UNCHANGED <<cxt, marking, white, state, mode, old, unswept, op>>

Container(o) == o \in Roots \ (Leaf \cup Fiber)

\* Store one reference, e.g. mrb_obj_iv_set, mrb_ary_push.
StoreField(o, v) ==
    /\ op = "idle"
    /\ Container(o) /\ v \in Roots
    /\ Cardinality(ref[o] \cup {v}) <= MaxRefs
    /\ ref' = [ref EXCEPT ![o] = @ \cup {v}]
    /\ mrb_field_write_barrier(o, v)
    /\ UNCHANGED <<roots, cxt, white, state, mode, old, unswept, op>>

\* Store through the container's own barrier, e.g. ary_concat, env writes.
StoreBulk(o, v) ==
    /\ op = "idle"
    /\ Container(o) /\ v \in Roots
    /\ Cardinality(ref[o] \cup {v}) <= MaxRefs
    /\ ref' = [ref EXCEPT ![o] = @ \cup {v}]
    /\ mrb_write_barrier(o)
    /\ UNCHANGED <<roots, cxt, white, state, mode, old, unswept, op>>

\* Overwriting or deleting a reference needs no barrier.
ClearField(o, v) ==
    /\ op = "idle"
    /\ Container(o) /\ v \in ref[o]
    /\ ref' = [ref EXCEPT ![o] = @ \ {v}]
    /\ UNCHANGED <<roots, cxt, marking, white, state, mode, old, unswept, op>>

\* fiber_switch_context() to a fiber from the root context, which has no fib to
\* bar.  A switch from fiber to fiber leaves the first with the barrier of
\* FiberYield and makes the second the context that runs, as this action does;
\* the two are separate steps here and the root context runs in between.
FiberResume(f) ==
    /\ op = "idle"
    /\ cxt = NoFiber
    /\ f \in Roots \cap Fiber
    /\ cxt' = f
    /\ UNCHANGED <<ref, roots, marking, white, state, mode, old, unswept, op>>

\* Mutant: a fiber is left without the write barrier.
YieldWithoutBarrier ==
    /\ op = "idle"
    /\ cxt # NoFiber
    /\ cxt' = NoFiber
    /\ UNCHANGED <<ref, roots, marking, white, state, mode, old, unswept, op>>

\* fiber_switch_context() back: the fiber being left takes the write barrier,
\* because its stack was written without one while it ran.
FiberYield ==
    /\ op = "idle"
    /\ cxt # NoFiber
    /\ mrb_write_barrier(cxt)
    /\ cxt' = NoFiber
    /\ UNCHANGED <<ref, roots, white, state, mode, old, unswept, op>>

Mutator ==
    \/ \E n \in Obj : mrb_obj_alloc(n) \/ DropValue(n) \/ FiberResume(n)
    \/ \E o, v \in Obj : \/ LoadField(o, v)  \/ StoreField(o, v)
                         \/ StoreBulk(o, v)  \/ ClearField(o, v)
    \/ FiberYield

-----------------------------------------------------------------------------
(* Entry points of the collector.                                          *)

prepare_incremental_sweep == state' = "SWEEP" /\ unswept' = Page

\* clear_all_old(): after the half-baked cycle a major one may be in, sweep
\* once as a non-generational collector so that every survivor turns white.
start_unold(unold) ==
    op' = unold /\ generational' = FALSE /\ prepare_incremental_sweep
clear_all_old(finish, unold) ==
    IF full THEN op' = finish /\ UNCHANGED <<state, unswept, generational>>
            ELSE start_unold(unold)

\* incremental_gc_run(), from an allocation, mrb_gc_step() or byte pressure:
\* a minor collection runs to its end, any other advances by one step.
IncrementalGc ==
    /\ op = "idle"
    /\ op' = IF Minor THEN "minor" ELSE "step"
    /\ UNCHANGED <<mutator, marking, white, state, mode, old, unswept>>

\* Mutant: the full collection starts on top of the cycle in progress.
FullGcWithoutFinish ==
    /\ op = "idle"
    /\ op' = "full.cycle"
    /\ UNCHANGED <<mutator, marking, white, state, mode, old, unswept>>

\* mrb_full_gc(): GC.start, a reclaim before the heap grows, and the
\* emergency collection of a failed malloc outside a sweep.
FullGc ==
    /\ op = "idle"
    /\ IF generational
       THEN clear_all_old("full.finish", "full.unold")
       ELSE /\ op' = IF state # "ROOT" THEN "full.finish" ELSE "full.cycle"
            /\ UNCHANGED <<state, unswept, generational>>
    /\ UNCHANGED <<mutator, marking, white, full, old>>

\* mrb_realloc_simple(): malloc failed while a sweep is parked.
EmergencySweep ==
    /\ op = "idle" /\ state = "SWEEP"
    /\ generational => SweepOom
    /\ op' = "oom"
    /\ UNCHANGED <<mutator, marking, white, state, mode, old, unswept>>

\* Mutant: generational mode is turned off in the middle of a cycle.
GenOffAtOnce ==
    /\ op = "idle" /\ ModeSwitch /\ generational
    /\ generational' = FALSE /\ full' = FALSE
    /\ UNCHANGED <<mutator, marking, white, state, old, unswept, op>>

\* change_gen_gc_mode(), from GC.generational_mode= and from
\* GC.scheduler_driven= (which only turns it off).
ChangeGenGcMode ==
    /\ op = "idle" /\ ModeSwitch
    /\ IF generational
       THEN clear_all_old("genoff.finish", "genoff.unold")
       ELSE op' = "genon.finish" /\ UNCHANGED <<state, unswept, generational>>
    /\ UNCHANGED <<mutator, marking, white, full, old>>

-----------------------------------------------------------------------------
(* Units of work of incremental_gc(), shared by all entry points.          *)

\* The work limit of an incremental step may be reached after this unit.
MayStop == op' \in {op} \cup (IF op = "step" THEN {"idle"} ELSE {})

\* Mutant: a minor collection also starts from an empty gray stack and so
\* forgets what the write barriers recorded since the last one.
RootScanForgetsBarriers ==
    /\ op # "idle" /\ state = "ROOT"
    /\ Mark(Roots, color, {}, FALSE)
    /\ state' = "MARK"
    /\ white' = other
    /\ UNCHANGED <<mutator, mode, old, unswept, op>>

root_scan_phase ==
    /\ op # "idle" /\ state = "ROOT"
    /\ IF Minor THEN Mark(Roots, color, gray_stack, gray_overflow)
                ELSE Mark(Roots, color, {}, FALSE)
    /\ state' = "MARK"
    /\ white' = other
    /\ UNCHANGED <<mutator, mode, old, unswept, op>>

incremental_marking_phase ==
    /\ op # "idle" /\ state = "MARK"
    /\ \/ \E o \in gray_stack : gc_mark_children(o) /\ MayStop
       \/ gc_gray_rescan /\ UNCHANGED op
    /\ UNCHANGED <<mutator, white, state, mode, old, unswept>>

\* Mutant: the stacks and the arena are not read again before the sweep.
FinalWithoutRoots ==
    /\ op # "idle" /\ state = "MARK" /\ NothingGray
    /\ state' = "FINAL"
    /\ UNCHANGED <<mutator, marking, white, mode, old, unswept, op>>

\* final_marking_phase() reads the unbarriered roots again ...
FinalRoots ==
    /\ op # "idle" /\ state = "MARK" /\ NothingGray
    /\ Mark(Roots, color, gray_stack, gray_overflow)
    /\ state' = "FINAL"
    /\ UNCHANGED <<mutator, white, mode, old, unswept, op>>

\* ... and gc_mark_gray_list() drains the gray objects without returning.
gc_mark_gray_list ==
    /\ state = "FINAL"
    /\ \/ \E o \in gray_stack : gc_mark_children(o)
       \/ gc_gray_rescan
    /\ UNCHANGED <<mutator, white, state, mode, old, unswept, op>>

FinalDone ==
    /\ state = "FINAL" /\ NothingGray
    /\ prepare_incremental_sweep
    /\ UNCHANGED <<mutator, marking, white, mode, old, op>>

\* Mutant: a page whose dead slots were all free already counts as old.
SweepIgnoresFreeSlots(p) ==
    LET here == {o \in Obj : PageOf[o] = p}
    IN  /\ op # "idle" /\ state = "SWEEP" /\ p \in unswept
        /\ unswept' = unswept \ {p}
        /\ color' = [o \in Obj |-> IF o \in here \cap Dead THEN "free" ELSE
                                   IF o \notin here \/ generational THEN color[o] ELSE white]
        /\ ref' = [o \in Obj |-> IF o \in here \cap Dead THEN {} ELSE ref[o]]
        /\ old' = IF Minor /\ \A o \in here : color[o] # other
                  THEN old \cup {p} ELSE old \ {p}
        /\ MayStop
        /\ UNCHANGED <<roots, cxt, white, state, gray_stack, gray_overflow, mode>>

\* Mutant: survivors of a non-generational sweep keep their mark.
SweepWithoutRepaint(p) ==
    LET here == {o \in Obj : PageOf[o] = p}
    IN  /\ op # "idle" /\ state = "SWEEP" /\ p \in unswept
        /\ unswept' = unswept \ {p}
        /\ color' = [o \in Obj |-> IF o \in here \cap Dead THEN "free" ELSE color[o]]
        /\ ref' = [o \in Obj |-> IF o \in here \cap Dead THEN {} ELSE ref[o]]
        /\ old' = old \ {p}
        /\ MayStop
        /\ UNCHANGED <<roots, cxt, white, state, gray_stack, gray_overflow, mode>>

\* One page: free what kept the other white; a survivor of a
\* non-generational sweep gets the current white, any other keeps its colour.
incremental_sweep_phase(p) ==
    LET here == {o \in Obj : PageOf[o] = p}
    IN  /\ op # "idle" /\ state = "SWEEP" /\ p \in unswept
        /\ unswept' = unswept \ {p}
        /\ IF Minor /\ p \in old
           THEN UNCHANGED <<color, ref, old>>
           ELSE /\ color' = [o \in Obj |->
                       IF o \notin here THEN color[o]
                       ELSE IF o \in Dead THEN "free"
                       ELSE IF generational THEN color[o] ELSE white]
                /\ ref' = [o \in Obj |-> IF o \in here /\ color[o] = other THEN {} ELSE ref[o]]
                /\ old' = IF Minor /\ here \cap Dead = {}
                          THEN old \cup {p} ELSE old \ {p}
        /\ MayStop
        /\ UNCHANGED <<roots, cxt, white, state, gray_stack, gray_overflow, mode>>

-----------------------------------------------------------------------------
(* The sweep has visited every page: the state returns to ROOT and the     *)
(* entry point does what follows its collection.                           *)

SweepEnd(o) == op = o /\ state = "SWEEP" /\ unswept = {}

\* incremental_gc_run(): a finished major cycle makes way for minor ones; a
\* heap that grew past MAJOR_GC_TOOMANY meanwhile gets a full collection.
StepDone ==
    /\ SweepEnd("step")
    /\ full' = IF generational THEN FALSE ELSE full
    /\ \/ /\ op' = "idle" /\ state' = "ROOT"
          /\ UNCHANGED <<unswept, generational>>
       \/ generational /\ start_unold("full.unold")
    /\ UNCHANGED <<mutator, marking, white, old>>

\* incremental_gc_run(): after a minor collection that left more objects
\* than oldgen_threshold, the old generation is given up.
MinorDone ==
    /\ SweepEnd("minor")
    /\ \/ /\ op' = "idle" /\ state' = "ROOT"
          /\ UNCHANGED <<unswept, generational>>
       \/ start_unold("grow.unold")
    /\ UNCHANGED <<mutator, marking, white, full, old>>

EmergencyDone ==
    /\ SweepEnd("oom")
    /\ op' = "idle" /\ state' = "ROOT"
    /\ UNCHANGED <<mutator, marking, white, mode, old, unswept>>

\* The first incremental_gc_finish() of mrb_full_gc() or change_gen_gc_mode().
HalfBakedDone ==
    /\ \/ /\ SweepEnd("full.finish")
          /\ IF generational
             THEN start_unold("full.unold")
             ELSE op' = "full.cycle" /\ state' = "ROOT" /\ UNCHANGED <<unswept, generational>>
       \/ SweepEnd("genoff.finish") /\ start_unold("genoff.unold")
    /\ UNCHANGED <<mutator, marking, white, full, old>>

\* The end of clear_all_old(), and what each of its callers does next.
ClearAllOldDone ==
    /\ \/ /\ SweepEnd("full.unold") /\ op' = "full.cycle"
          /\ full' = TRUE /\ generational' = TRUE
       \/ /\ SweepEnd("grow.unold") /\ op' = "idle"
          /\ full' = TRUE /\ generational' = TRUE
       \/ /\ SweepEnd("genoff.unold") /\ op' = "idle"
          /\ full' = FALSE /\ generational' = FALSE
    /\ state' = "ROOT"
    /\ gray_stack' = {} /\ gray_overflow' = FALSE
    /\ UNCHANGED <<mutator, color, white, old, unswept>>

FullGcDone ==
    /\ SweepEnd("full.cycle")
    /\ op' = "idle" /\ state' = "ROOT"
    /\ full' = IF generational THEN FALSE ELSE full
    /\ UNCHANGED <<mutator, marking, white, generational, old, unswept>>

GenOnDone ==
    /\ SweepEnd("genon.finish")
    /\ op' = "idle" /\ state' = "ROOT"
    /\ generational' = TRUE /\ full' = FALSE
    /\ UNCHANGED <<mutator, marking, white, old, unswept>>

Collector ==
    \/ root_scan_phase \/ incremental_marking_phase
    \/ FinalRoots \/ gc_mark_gray_list \/ FinalDone
    \/ \E p \in Page : incremental_sweep_phase(p)
    \/ StepDone \/ MinorDone \/ EmergencyDone \/ HalfBakedDone
    \/ ClearAllOldDone \/ FullGcDone \/ GenOnDone

-----------------------------------------------------------------------------

\* mrb_gc_init()
Init ==
    /\ ref = [o \in Obj |-> {}]
    /\ roots = {}
    /\ cxt = NoFiber
    /\ color = [o \in Obj |-> "free"]
    /\ white = "whiteA"
    /\ state = "ROOT"
    /\ gray_stack = {} /\ gray_overflow = FALSE
    /\ generational = GenerationalBuild
    /\ full = GenerationalBuild
    /\ old = {} /\ unswept = {}
    /\ op = "idle"

Next ==
    \/ Mutator
    \/ IncrementalGc \/ FullGc \/ EmergencySweep \/ ChangeGenGcMode
    \/ Collector

Spec == Init /\ [][Next]_vars

-----------------------------------------------------------------------------
(* Properties.                                                             *)

TypeOK ==
    /\ ref \in [Obj -> SUBSET Obj]
    /\ roots \subseteq Obj
    /\ cxt \in Fiber \cup {NoFiber}
    /\ color \in [Obj -> Color]
    /\ white \in Whites
    /\ state \in {"ROOT", "MARK", "FINAL", "SWEEP"}
    /\ gray_stack \subseteq Obj
    /\ gray_overflow \in BOOLEAN
    /\ generational \in BOOLEAN
    /\ full \in BOOLEAN
    /\ old \subseteq Page
    /\ unswept \subseteq Page
    /\ op \in Op

\* The collector's promise: no object the program can reach is ever freed,
\* in any phase, mode and interleaving of mutator and collector.
NoLiveFree == \A o \in Live : color[o] # "free"

\* is_dead() as mrb_object_dead_p() and the barriers' assertions use it: once
\* the sweep runs, a reachable object is not among those it will free.
NoLiveCondemned == state = "SWEEP" => Live \cap Dead = {}

\* The tri-colour invariant the write barriers maintain: while marking, and in
\* generational mode at all times, a black object refers to no white one.
\* The running fiber is exempt: its stack is read again, or it is bared when left.
TriColor ==
    generational \/ state \in {"MARK", "FINAL"} =>
        \A o \in Obj \ {cxt} : color[o] = "black" =>
            \A v \in ref[o] : color[v] \in {"gray", "black"}

\* Every gray object will be scanned: it is on the gray stack, or the overflow
\* flag sends the collector over the heap to find it.
GrayTracked ==
    generational \/ state \in {"MARK", "FINAL"} =>
        \A o \in Obj : color[o] = "gray" => o \in gray_stack \/ gray_overflow

\* mrb_assert(is_gray(obj)) of gc_mark_children(): what is popped is gray.
PoppedIsGray ==
    state \in {"MARK", "FINAL"} => \A o \in gray_stack : color[o] = "gray"

\* A minor sweep skips an old page without looking: nothing on it is white,
\* so it has neither garbage nor a free slot to offer.
OldPagesHoldNoWhite ==
    generational => \A o \in Obj : PageOf[o] \in old => color[o] \in {"gray", "black"}

\* mrb_assert(is_generational(gc) || gc->state != MRB_GC_STATE_ROOT) of the
\* barriers: between two non-generational cycles nothing is black.
NoBlackBetweenCycles ==
    ~generational /\ state = "ROOT" => \A o \in Obj : color[o] \notin {"gray", "black"}

\* A full collection is exact: when mrb_full_gc() returns, what is still
\* allocated is what the program can reach, which ObjectSpace relies on.
FullGcExact ==
    [][op = "full.cycle" /\ op' = "idle" =>
          \A o \in Obj : color'[o] # "free" <=> o \in Live']_vars

\* gc.c implements the managed heap: every step of mutator and collector is an
\* allocation, a move of references among reachable objects, a reclaim of
\* unreachable ones, or invisible to the program.
ImplementsManagedHeap == Heap!Spec

\* A call into the collector returns, rescans of an overflowed gray stack
\* included.
CallReturns == (op # "idle") ~> (op = "idle")

\* The collector runs on the caller's C stack: once called it keeps going.
FairSpec == Spec /\ WF_vars(Collector)

=============================================================================
