---------------------------- MODULE GcHeapProofs ----------------------------
(***************************************************************************)
(* Proofs about GcHeap, for every heap, page layout, gray stack size and   *)
(* build.  The one assumption beyond HeapAssumption is NoSweepOom: malloc  *)
(* does not fail while a generational sweep is parked (that case is the    *)
(* counterexample of run gc_emergency_sweep).                              *)
(***************************************************************************)
EXTENDS GcHeap, TLAPS

NoSweepOom == SweepOom = FALSE

Marked(o) == color[o] \in {"gray", "black"}

\* A set that holds everything the collector or the program may still follow:
\* closed under references, with no freed slot and, during a sweep, nothing
\* condemned.  It contains Live, and unlike Live each step keeps it by itself.
Shield(S) ==
    /\ Roots \subseteq S
    /\ gray_stack \subseteq S
    /\ \A o \in Obj : Marked(o) => o \in S
    /\ \A o \in S : ref[o] \subseteq S
    /\ \A o \in S : color[o] # "free" /\ (state = "SWEEP" => color[o] # other)
Shielded == \E S \in SUBSET Obj : Shield(S)

\* The roots read by final_marking_phase() stay marked until it returns.
FinalRootsMarked == state = "FINAL" => \A o \in Roots : Marked(o)

LeafHasNoRefs == \A o \in Leaf : ref[o] = {}

\* The sweep has freed every condemned object of the pages behind it.
SweptClean ==
    /\ state = "SWEEP" => \A o \in Obj : color[o] = other => PageOf[o] \in unswept
    /\ state = "ROOT"  => \A o \in Obj : color[o] # other

\* A non-generational sweep has whitened every object of the pages behind it.
SweptWhite ==
    ~generational /\ state = "SWEEP" =>
        /\ \A o \in Obj : Marked(o) => PageOf[o] \in unswept
        /\ old \subseteq unswept

\* A cycle that resets the gray stack starts with nothing marked.
FreshStart ==
    state = "ROOT" /\ (~generational \/ full) => \A o \in Obj : ~Marked(o)

\* Nothing is allocated during a minor collection.
MinorNoNew == op = "minor" /\ state # "ROOT" => \A o \in Obj : color[o] # white

NoOldOutsideGen == ~generational /\ state # "SWEEP" => old = {}

\* Which mode and phase each entry point finds.
OpMode ==
    /\ op = "minor" => generational /\ ~full
    /\ op \in {"full.unold", "grow.unold", "genoff.unold"} =>
           ~generational /\ state = "SWEEP"
    /\ op = "oom" => ~generational
    /\ op = "genon.finish" => ~generational
    /\ op = "genoff.finish" => generational
    /\ op \in {"step", "full.finish", "full.cycle", "genoff.finish"} /\ generational => full
    /\ op # "minor" /\ generational /\ ~full => state = "ROOT"
    /\ state = "FINAL" => op # "idle"

IInv ==
    /\ TypeOK /\ Shielded /\ TriColor /\ GrayTracked
    /\ FinalRootsMarked /\ LeafHasNoRefs /\ SweptClean /\ SweptWhite
    /\ FreshStart /\ OldPagesHoldNoWhite /\ MinorNoNew /\ NoOldOutsideGen
    /\ OpMode

-----------------------------------------------------------------------------
(* What the marking operators do, whatever the capacity of the stack.      *)

\* add_gray_list(): an object it grays is on the stack or the flag is set,
\* and what was on the stack before stays there.
LEMMA PushFacts ==
    ASSUME NEW N \in SUBSET Obj, NEW g \in SUBSET Obj, NEW f \in BOOLEAN,
           Push(N, g, f)
    PROVE  /\ gray_stack' \in SUBSET Obj /\ gray_overflow' \in BOOLEAN
           /\ g \subseteq gray_stack' /\ gray_stack' \subseteq g \cup N
           /\ f => gray_overflow'
           /\ \A o \in N : o \in gray_stack' \/ gray_overflow'
<1>1. PICK T \in SUBSET N :
          /\ gray_stack' = g \cup T
          /\ \/ T = N /\ gray_overflow' = f
             \/ gray_overflow' = TRUE
    BY DEF Push
<1>. QED BY <1>1

\* What mrb_gc_mark() on a set achieves: white objects become marked and
\* tracked, leaf types black at once, and no other object changes.
MarkPost(S, c, g, f) ==
    /\ color' \in [Obj -> Color]
    /\ gray_stack' \in SUBSET Obj /\ gray_overflow' \in BOOLEAN
    /\ g \subseteq gray_stack' /\ gray_stack' \subseteq g \cup S
    /\ f => gray_overflow'
    /\ \A o \in S : c[o] \in Whites => color'[o] \in {"gray", "black"}
    /\ \A o \in Obj : o \notin S \/ c[o] \notin Whites => color'[o] = c[o]
    /\ \A o \in Obj : color'[o] = "black" => c[o] = "black" \/ o \in Leaf
    /\ \A o \in Obj : color'[o] = "gray" =>
           c[o] = "gray" \/ o \in gray_stack' \/ gray_overflow'

\* Mark has that effect, whatever part of the set fits the gray stack.
LEMMA MarkFacts ==
    ASSUME NEW S \in SUBSET Obj, NEW c \in [Obj -> Color],
           NEW g \in SUBSET Obj, NEW f \in BOOLEAN,
           Mark(S, c, g, f)
    PROVE  MarkPost(S, c, g, f)
<1>. DEFINE W == {o \in S : c[o] \in Whites}
<1>1. /\ color' = [o \in Obj |-> IF o \in W \ Leaf THEN "gray"
                                 ELSE IF o \in W THEN "black" ELSE c[o]]
      /\ Push(W \ Leaf, g, f)
    BY DEF Mark
<1>2. W \ Leaf \in SUBSET Obj
    OBVIOUS
<1>3. /\ gray_stack' \in SUBSET Obj /\ gray_overflow' \in BOOLEAN
      /\ g \subseteq gray_stack' /\ gray_stack' \subseteq g \cup (W \ Leaf)
      /\ f => gray_overflow'
      /\ \A o \in W \ Leaf : o \in gray_stack' \/ gray_overflow'
    BY <1>1, <1>2, PushFacts
<1>4. color' \in [Obj -> Color]
    BY <1>1 DEF Color, Whites
<1>. QED BY <1>1, <1>3, <1>4 DEF MarkPost, Whites

\* mrb_obj_alloc_core() keeps the invariant: a fresh slot is no
\* condemned one, and it joins the shield with no references of its own.
LEMMA AllocStep ==
    ASSUME IInv, NEW n \in Obj, mrb_obj_alloc(n)
    PROVE  IInv'
<1>. USE HeapAssumption DEF IInv, mrb_obj_alloc, mutator, marking, mode
<1>1. TypeOK'
    BY DEF TypeOK, Color
<1>2. Shielded'
  <2>1. PICK S \in SUBSET Obj : Shield(S)
      BY DEF Shielded
  <2>2. Shield(S \cup {n})'
      BY <2>1 DEF TypeOK, Shield, Roots, Marked, other, Whites, Color
  <2>. QED BY <2>2 DEF Shielded
<1>3. TriColor' /\ GrayTracked'
    BY DEF TypeOK, TriColor, GrayTracked, Whites
<1>4. FinalRootsMarked' /\ OpMode' /\ NoOldOutsideGen' /\ MinorNoNew'
    BY DEF FinalRootsMarked, OpMode, NoOldOutsideGen, MinorNoNew
<1>5. LeafHasNoRefs'
    BY DEF TypeOK, LeafHasNoRefs
<1>6. SweptClean' /\ SweptWhite' /\ FreshStart' /\ OldPagesHoldNoWhite'
    BY DEF TypeOK, SweptClean, SweptWhite, FreshStart, OldPagesHoldNoWhite,
           other, Marked, Whites
<1>. QED BY <1>1, <1>2, <1>3, <1>4, <1>5, <1>6


\* Reading a field keeps the invariant: the value was reachable already.
LEMMA LoadStep ==
    ASSUME IInv, NEW o \in Obj, NEW v \in Obj, LoadField(o, v)
    PROVE  IInv'
<1>. USE HeapAssumption DEF IInv, LoadField, mutator, marking, mode
<1>1. TypeOK'
    BY DEF TypeOK, PushValue, Container
<1>2. Shielded'
  <2>1. PICK S \in SUBSET Obj : Shield(S)
      BY DEF Shielded
  <2>2. Shield(S)'
      BY <2>1 DEF TypeOK, Shield, Roots, Marked, other, PushValue, Container
  <2>. QED BY <2>2 DEF Shielded
<1>3. TriColor' /\ GrayTracked'
    BY DEF TypeOK, TriColor, GrayTracked, PushValue, Container
<1>4. FinalRootsMarked' /\ OpMode' /\ NoOldOutsideGen' /\ MinorNoNew'
    BY DEF FinalRootsMarked, OpMode, NoOldOutsideGen, MinorNoNew
<1>5. LeafHasNoRefs'
    BY DEF TypeOK, LeafHasNoRefs, PushValue, Container
<1>6. SweptClean' /\ SweptWhite' /\ FreshStart' /\ OldPagesHoldNoWhite'
    BY DEF SweptClean, SweptWhite, FreshStart, OldPagesHoldNoWhite, other, Marked
<1>. QED BY <1>1, <1>2, <1>3, <1>4, <1>5, <1>6


\* Popping a register or an arena entry only shrinks the roots.
LEMMA DropStep ==
    ASSUME IInv, NEW v \in Obj, DropValue(v)
    PROVE  IInv'
<1>. USE HeapAssumption DEF IInv, DropValue, mutator, marking, mode
<1>1. TypeOK'
    BY DEF TypeOK, PushValue, Container
<1>2. Shielded'
  <2>1. PICK S \in SUBSET Obj : Shield(S)
      BY DEF Shielded
  <2>2. Shield(S)'
      BY <2>1 DEF TypeOK, Shield, Roots, Marked, other, PushValue, Container
  <2>. QED BY <2>2 DEF Shielded
<1>3. TriColor' /\ GrayTracked'
    BY DEF TypeOK, TriColor, GrayTracked, PushValue, Container
<1>4. FinalRootsMarked' /\ OpMode' /\ NoOldOutsideGen' /\ MinorNoNew'
    BY DEF FinalRootsMarked, OpMode, NoOldOutsideGen, MinorNoNew
<1>5. LeafHasNoRefs'
    BY DEF TypeOK, LeafHasNoRefs, PushValue, Container
<1>6. SweptClean' /\ SweptWhite' /\ FreshStart' /\ OldPagesHoldNoWhite'
    BY DEF SweptClean, SweptWhite, FreshStart, OldPagesHoldNoWhite, other, Marked
<1>. QED BY <1>1, <1>2, <1>3, <1>4, <1>5, <1>6


\* Overwriting a reference, which takes no barrier, only shrinks the graph.
LEMMA ClearStep ==
    ASSUME IInv, NEW o \in Obj, NEW v \in Obj, ClearField(o, v)
    PROVE  IInv'
<1>. USE HeapAssumption DEF IInv, ClearField, mutator, marking, mode
<1>1. TypeOK'
    BY DEF TypeOK, PushValue, Container
<1>2. Shielded'
  <2>1. PICK S \in SUBSET Obj : Shield(S)
      BY DEF Shielded
  <2>2. Shield(S)'
      BY <2>1 DEF TypeOK, Shield, Roots, Marked, other, PushValue, Container
  <2>. QED BY <2>2 DEF Shielded
<1>3. TriColor' /\ GrayTracked'
    BY DEF TypeOK, TriColor, GrayTracked, PushValue, Container
<1>4. FinalRootsMarked' /\ OpMode' /\ NoOldOutsideGen' /\ MinorNoNew'
    BY DEF FinalRootsMarked, OpMode, NoOldOutsideGen, MinorNoNew
<1>5. LeafHasNoRefs'
    BY DEF TypeOK, LeafHasNoRefs, PushValue, Container
<1>6. SweptClean' /\ SweptWhite' /\ FreshStart' /\ OldPagesHoldNoWhite'
    BY DEF SweptClean, SweptWhite, FreshStart, OldPagesHoldNoWhite, other, Marked
<1>. QED BY <1>1, <1>2, <1>3, <1>4, <1>5, <1>6


\* Resuming a fiber makes its stack a root: the shield holds it already.
LEMMA ResumeStep ==
    ASSUME IInv, NEW f \in Obj, FiberResume(f)
    PROVE  IInv'
<1>. USE HeapAssumption DEF IInv, FiberResume, mutator, marking, mode
<1>1. TypeOK'
    BY DEF TypeOK, PushValue, Container
<1>2. Shielded'
  <2>1. PICK S \in SUBSET Obj : Shield(S)
      BY DEF Shielded
  <2>2. Shield(S)'
      BY <2>1 DEF TypeOK, Shield, Roots, Marked, other, PushValue, Container
  <2>. QED BY <2>2 DEF Shielded
<1>3. TriColor' /\ GrayTracked'
    BY DEF TypeOK, TriColor, GrayTracked, PushValue, Container
<1>4. FinalRootsMarked' /\ OpMode' /\ NoOldOutsideGen' /\ MinorNoNew'
    BY DEF FinalRootsMarked, OpMode, NoOldOutsideGen, MinorNoNew
<1>5. LeafHasNoRefs'
    BY DEF TypeOK, LeafHasNoRefs, PushValue, Container
<1>6. SweptClean' /\ SweptWhite' /\ FreshStart' /\ OldPagesHoldNoWhite'
    BY DEF SweptClean, SweptWhite, FreshStart, OldPagesHoldNoWhite, other, Marked
<1>. QED BY <1>1, <1>2, <1>3, <1>4, <1>5, <1>6

\* The field barrier does nothing, grays the value, or whitens the container.
LEMMA FieldBarrierFacts ==
    ASSUME TypeOK, NEW o \in Obj, NEW v \in Obj, mrb_field_write_barrier(o, v)
    PROVE  \/ /\ color' = color /\ gray_stack' = gray_stack
              /\ gray_overflow' = gray_overflow
              /\ color[o] # "black" \/ color[v] \notin Whites
           \/ /\ generational \/ state = "MARK"
              /\ color' = [color EXCEPT ![v] = "gray"]
              /\ color[v] \in Whites
              /\ gray_stack' \in SUBSET Obj /\ gray_overflow' \in BOOLEAN
              /\ gray_stack \subseteq gray_stack'
              /\ gray_stack' \subseteq gray_stack \cup {v}
              /\ gray_overflow => gray_overflow'
              /\ v \in gray_stack' \/ gray_overflow'
              /\ color[o] = "black"
           \/ /\ ~generational /\ state # "MARK"
              /\ color' = [color EXCEPT ![o] = white]
              /\ gray_stack' = gray_stack /\ gray_overflow' = gray_overflow
              /\ color[o] = "black"
<1>1. CASE color[o] = "black" /\ color[v] \in Whites /\ (generational \/ state = "MARK")
  <2>1. Push({v}, gray_stack, gray_overflow)
      BY <1>1 DEF mrb_field_write_barrier
  <2>2. {v} \in SUBSET Obj /\ gray_stack \in SUBSET Obj /\ gray_overflow \in BOOLEAN
      BY DEF TypeOK
  <2>3. /\ gray_stack' \in SUBSET Obj /\ gray_overflow' \in BOOLEAN
        /\ gray_stack \subseteq gray_stack'
        /\ gray_stack' \subseteq gray_stack \cup {v}
        /\ gray_overflow => gray_overflow'
        /\ v \in gray_stack' \/ gray_overflow'
      BY <2>1, <2>2, PushFacts
  <2>4. color' = [color EXCEPT ![v] = "gray"]
      BY <1>1 DEF mrb_field_write_barrier
  <2>. QED BY <1>1, <2>3, <2>4
<1>2. CASE ~(color[o] = "black" /\ color[v] \in Whites /\ (generational \/ state = "MARK"))
    BY <1>2 DEF mrb_field_write_barrier, marking
<1>. QED BY <1>1, <1>2

\* The container barrier grays a black container and tracks it.
LEMMA BarrierFacts ==
    ASSUME TypeOK, NEW o \in Obj, mrb_write_barrier(o)
    PROVE  \/ /\ color' = color /\ gray_stack' = gray_stack
              /\ gray_overflow' = gray_overflow
              /\ color[o] # "black"
           \/ /\ color[o] = "black"
              /\ color' = [color EXCEPT ![o] = "gray"]
              /\ gray_stack' \in SUBSET Obj /\ gray_overflow' \in BOOLEAN
              /\ gray_stack \subseteq gray_stack'
              /\ gray_stack' \subseteq gray_stack \cup {o}
              /\ gray_overflow => gray_overflow'
              /\ o \in gray_stack' \/ gray_overflow'
<1>1. CASE color[o] = "black"
  <2>1. Push({o}, gray_stack, gray_overflow)
      BY <1>1 DEF mrb_write_barrier
  <2>2. {o} \in SUBSET Obj /\ gray_stack \in SUBSET Obj /\ gray_overflow \in BOOLEAN
      BY DEF TypeOK
  <2>3. /\ gray_stack' \in SUBSET Obj /\ gray_overflow' \in BOOLEAN
        /\ gray_stack \subseteq gray_stack'
        /\ gray_stack' \subseteq gray_stack \cup {o}
        /\ gray_overflow => gray_overflow'
        /\ o \in gray_stack' \/ gray_overflow'
      BY <2>1, <2>2, PushFacts
  <2>4. color' = [color EXCEPT ![o] = "gray"]
      BY <1>1 DEF mrb_write_barrier
  <2>. QED BY <1>1, <2>3, <2>4
<1>2. CASE color[o] # "black"
    BY <1>2 DEF mrb_write_barrier, marking
<1>. QED BY <1>1, <1>2

\* A store behind mrb_field_write_barrier() keeps the invariant: a white
\* value of a black container is grayed, or the container is whitened.
LEMMA StoreFieldStep ==
    ASSUME IInv, NEW o \in Obj, NEW v \in Obj, StoreField(o, v)
    PROVE  IInv'
<1>. USE HeapAssumption DEF IInv, mode
<1>a. /\ op = "idle" /\ Container(o) /\ v \in Roots
      /\ ref' = [ref EXCEPT ![o] = @ \cup {v}]
      /\ UNCHANGED <<roots, cxt, white, state, mode, old, unswept, op>>
    BY DEF StoreField
<1>b. \/ /\ color' = color /\ gray_stack' = gray_stack
         /\ gray_overflow' = gray_overflow
         /\ color[o] # "black" \/ color[v] \notin Whites
      \/ /\ generational \/ state = "MARK"
         /\ color' = [color EXCEPT ![v] = "gray"]
         /\ color[v] \in Whites
         /\ gray_stack' \in SUBSET Obj /\ gray_overflow' \in BOOLEAN
         /\ gray_stack \subseteq gray_stack'
         /\ gray_stack' \subseteq gray_stack \cup {v}
         /\ gray_overflow => gray_overflow'
         /\ v \in gray_stack' \/ gray_overflow'
         /\ color[o] = "black"
      \/ /\ ~generational /\ state # "MARK"
         /\ color' = [color EXCEPT ![o] = white]
         /\ gray_stack' = gray_stack /\ gray_overflow' = gray_overflow
         /\ color[o] = "black"
    BY FieldBarrierFacts DEF StoreField
<1>1. TypeOK'
    BY <1>a, <1>b DEF TypeOK, Color, Container
<1>s. PICK S \in SUBSET Obj : Shield(S)
    BY DEF Shielded
<1>2. Shielded'
  <2>1. Shield(S)'
      BY <1>a, <1>b, <1>s DEF TypeOK, Shield, Roots, Marked, other, Container, Whites
  <2>. QED BY <2>1 DEF Shielded
<1>3. TriColor'
    BY <1>a, <1>b, <1>s DEF TypeOK, TriColor, Shield, OpMode, Color, Whites, Container
<1>4. GrayTracked'
    BY <1>a, <1>b DEF TypeOK, GrayTracked, OpMode, Whites
<1>5. FinalRootsMarked' /\ OpMode' /\ NoOldOutsideGen' /\ MinorNoNew'
    BY <1>a DEF FinalRootsMarked, OpMode, NoOldOutsideGen, MinorNoNew
<1>6. LeafHasNoRefs'
    BY <1>a DEF TypeOK, LeafHasNoRefs, Container
<1>7. SweptClean' /\ SweptWhite' /\ FreshStart' /\ OldPagesHoldNoWhite'
    BY <1>a, <1>b DEF TypeOK, SweptClean, SweptWhite, FreshStart, OpMode,
           OldPagesHoldNoWhite, other, Marked, Whites
<1>. QED BY <1>1, <1>2, <1>3, <1>4, <1>5, <1>6, <1>7

\* A store behind mrb_write_barrier() keeps the invariant: the container
\* will be scanned again.
LEMMA StoreBulkStep ==
    ASSUME IInv, NEW o \in Obj, NEW v \in Obj, StoreBulk(o, v)
    PROVE  IInv'
<1>. USE HeapAssumption DEF IInv, mode
<1>a. /\ op = "idle" /\ Container(o) /\ v \in Roots
      /\ ref' = [ref EXCEPT ![o] = @ \cup {v}]
      /\ UNCHANGED <<roots, cxt, white, state, mode, old, unswept, op>>
    BY DEF StoreBulk
<1>b. \/ /\ color' = color /\ gray_stack' = gray_stack
         /\ gray_overflow' = gray_overflow
         /\ color[o] # "black"
      \/ /\ color[o] = "black"
         /\ color' = [color EXCEPT ![o] = "gray"]
         /\ gray_stack' \in SUBSET Obj /\ gray_overflow' \in BOOLEAN
         /\ gray_stack \subseteq gray_stack'
         /\ gray_stack' \subseteq gray_stack \cup {o}
         /\ gray_overflow => gray_overflow'
         /\ o \in gray_stack' \/ gray_overflow'
    BY BarrierFacts DEF StoreBulk
<1>1. TypeOK'
    BY <1>a, <1>b DEF TypeOK, Color, Container
<1>s. PICK S \in SUBSET Obj : Shield(S)
    BY DEF Shielded
<1>2. Shielded'
  <2>1. Shield(S)'
      BY <1>a, <1>b, <1>s DEF TypeOK, Shield, Roots, Marked, other, Container, Whites
  <2>. QED BY <2>1 DEF Shielded
<1>3. TriColor'
    BY <1>a, <1>b, <1>s DEF TypeOK, TriColor, Shield, OpMode, Color, Whites, Container
<1>4. GrayTracked'
    BY <1>a, <1>b DEF TypeOK, GrayTracked, OpMode, Whites
<1>5. FinalRootsMarked' /\ OpMode' /\ NoOldOutsideGen' /\ MinorNoNew'
    BY <1>a DEF FinalRootsMarked, OpMode, NoOldOutsideGen, MinorNoNew
<1>6. LeafHasNoRefs'
    BY <1>a DEF TypeOK, LeafHasNoRefs, Container
<1>7. SweptClean' /\ SweptWhite' /\ FreshStart' /\ OldPagesHoldNoWhite'
    BY <1>a, <1>b DEF TypeOK, SweptClean, SweptWhite, FreshStart, OpMode,
           OldPagesHoldNoWhite, other, Marked, Whites
<1>. QED BY <1>1, <1>2, <1>3, <1>4, <1>5, <1>6, <1>7

\* Leaving a fiber keeps the invariant: its unbarriered stack may refer to
\* white objects, so the fiber takes the container barrier.
LEMMA YieldStep ==
    ASSUME IInv, FiberYield
    PROVE  IInv'
<1>. USE HeapAssumption DEF IInv, mode
<1>a. /\ op = "idle" /\ cxt \in Obj /\ cxt' = NoFiber
      /\ UNCHANGED <<ref, roots, white, state, mode, old, unswept, op>>
    BY DEF FiberYield, TypeOK
<1>b. \/ /\ color' = color /\ gray_stack' = gray_stack
         /\ gray_overflow' = gray_overflow
         /\ color[cxt] # "black"
      \/ /\ color[cxt] = "black"
         /\ color' = [color EXCEPT ![cxt] = "gray"]
         /\ gray_stack' \in SUBSET Obj /\ gray_overflow' \in BOOLEAN
         /\ gray_stack \subseteq gray_stack'
         /\ gray_stack' \subseteq gray_stack \cup {cxt}
         /\ gray_overflow => gray_overflow'
         /\ cxt \in gray_stack' \/ gray_overflow'
    BY <1>a, BarrierFacts DEF FiberYield
<1>1. TypeOK'
    BY <1>a, <1>b DEF TypeOK, Color
<1>s. PICK S \in SUBSET Obj : Shield(S)
    BY DEF Shielded
<1>2. Shielded'
  <2>1. Shield(S)'
      BY <1>a, <1>b, <1>s DEF TypeOK, Shield, Roots, Marked, other, Whites
  <2>. QED BY <2>1 DEF Shielded
<1>3. TriColor' /\ GrayTracked'
    BY <1>a, <1>b DEF TypeOK, TriColor, GrayTracked, OpMode, Color, Whites
<1>5. FinalRootsMarked' /\ OpMode' /\ NoOldOutsideGen' /\ MinorNoNew'
    BY <1>a DEF FinalRootsMarked, OpMode, NoOldOutsideGen, MinorNoNew
<1>6. LeafHasNoRefs'
    BY <1>a DEF LeafHasNoRefs
<1>7. SweptClean' /\ SweptWhite' /\ FreshStart' /\ OldPagesHoldNoWhite'
    BY <1>a, <1>b DEF TypeOK, SweptClean, SweptWhite, FreshStart, OpMode,
           OldPagesHoldNoWhite, other, Marked, Whites
<1>. QED BY <1>1, <1>2, <1>3, <1>5, <1>6, <1>7

-----------------------------------------------------------------------------
(* Entry points and units of work of the collector.                        *)

\* Calling the collector keeps the invariant: only the half-baked cycle of
\* clear_all_old() changes the phase, and it finds the heap between cycles.
LEMMA EntryStep ==
    ASSUME IInv, NoSweepOom,
           IncrementalGc \/ FullGc \/ EmergencySweep \/ ChangeGenGcMode
    PROVE  IInv'
<1>. USE HeapAssumption DEF IInv, mode, mutator, marking, Minor
<1>a. /\ op = "idle"
      /\ UNCHANGED <<mutator, marking, white, full, old>>
      /\ \/ /\ UNCHANGED <<state, unswept, generational>>
            /\ op' \in Op \ {"full.unold", "grow.unold", "genoff.unold"}
            /\ op' # "idle"
            /\ op' = "minor" => Minor
            /\ op' \in {"step", "full.finish", "full.cycle", "genoff.finish"}
                   /\ generational => full
            /\ op' \in {"oom", "genon.finish"} => ~generational
            /\ op' = "genoff.finish" => generational
            /\ op' = "minor" => state = "ROOT"
         \/ /\ Minor /\ state' = "SWEEP" /\ unswept' = Page /\ generational' = FALSE
            /\ op' \in {"full.unold", "genoff.unold"}
    BY DEF IncrementalGc, FullGc, EmergencySweep, ChangeGenGcMode, clear_all_old,
           start_unold, prepare_incremental_sweep, NoSweepOom, Op, Finishing,
           OpMode, TypeOK
<1>1. TypeOK'
    BY <1>a DEF TypeOK, Op, Finishing
<1>2. Shielded'
  <2>1. PICK S \in SUBSET Obj : Shield(S)
      BY DEF Shielded
  <2>2. Shield(S)'
      BY <1>a, <2>1 DEF Shield, Roots, Marked, other, OpMode, SweptClean, TypeOK
  <2>. QED BY <2>2 DEF Shielded
<1>3. TriColor' /\ GrayTracked'
    BY <1>a DEF TriColor, GrayTracked
<1>4. FinalRootsMarked' /\ LeafHasNoRefs'
    BY <1>a DEF FinalRootsMarked, LeafHasNoRefs, Roots, Marked
<1>5. SweptClean' /\ SweptWhite' /\ FreshStart' /\ OldPagesHoldNoWhite'
    BY <1>a DEF SweptClean, SweptWhite, FreshStart, OldPagesHoldNoWhite, TypeOK,
           OpMode, other, Marked
<1>6. NoOldOutsideGen' /\ MinorNoNew' /\ OpMode'
    BY <1>a DEF NoOldOutsideGen, MinorNoNew, OpMode
<1>. QED BY <1>1, <1>2, <1>3, <1>4, <1>5, <1>6

\* root_scan_phase() keeps the invariant: flipping the white part condemns
\* nothing marked, and the gray stack it may reset holds nothing then.
LEMMA RootScanStep ==
    ASSUME IInv, root_scan_phase
    PROVE  IInv'
<1>. USE HeapAssumption DEF IInv, mode, mutator, Minor
<1>. DEFINE g == IF Minor THEN gray_stack ELSE {}
            f == IF Minor THEN gray_overflow ELSE FALSE
<1>a. /\ op # "idle" /\ state = "ROOT" /\ state' = "MARK" /\ white' = other
      /\ UNCHANGED <<mutator, mode, old, unswept, op>>
      /\ Mark(Roots, color, g, f)
    BY DEF root_scan_phase
<1>b. /\ Roots \in SUBSET Obj /\ color \in [Obj -> Color]
      /\ g \in SUBSET Obj /\ f \in BOOLEAN
    BY DEF TypeOK, Roots
<1>d. /\ Minor => g = gray_stack /\ f = gray_overflow
      /\ ~Minor => g = {}
    OBVIOUS
<1>. HIDE DEF g, f
<1>c. MarkPost(Roots, color, g, f)
    BY <1>a, <1>b, MarkFacts
<1>1. TypeOK'
    BY <1>a, <1>c DEF MarkPost, TypeOK, other, Whites
<1>2. Shielded'
  <2>1. PICK S \in SUBSET Obj : Shield(S)
      BY DEF Shielded
  <2>2. Shield(S)'
      BY <1>a, <1>b, <1>c, <1>d, <2>1 DEF MarkPost, Shield, Roots, Marked, TypeOK, Color, Whites
  <2>. QED BY <2>2 DEF Shielded
<1>3. TriColor'
    BY <1>a, <1>b, <1>c DEF MarkPost, TriColor, FreshStart, Marked, LeafHasNoRefs, TypeOK, Color, Whites
<1>4. GrayTracked'
    BY <1>a, <1>c, <1>d DEF MarkPost, GrayTracked, FreshStart, Marked
<1>5. FinalRootsMarked' /\ LeafHasNoRefs' /\ OpMode' /\ NoOldOutsideGen'
    BY <1>a DEF FinalRootsMarked, LeafHasNoRefs, OpMode, NoOldOutsideGen,
                TypeOK, Op, Finishing
<1>6. MinorNoNew'
    BY <1>a, <1>b, <1>c DEF MarkPost, MinorNoNew, SweptClean, other, Whites, TypeOK
<1>7. SweptClean' /\ SweptWhite' /\ FreshStart'
    BY <1>a DEF SweptClean, SweptWhite, FreshStart
<1>8. OldPagesHoldNoWhite'
    BY <1>a, <1>b, <1>c DEF MarkPost, OldPagesHoldNoWhite, Whites
<1>. QED BY <1>1, <1>2, <1>3, <1>4, <1>5, <1>6, <1>7, <1>8

\* gc_mark_children() of an object on the stack: it turns black and its
\* children marked, so the invariant survives whatever its colour was.
LEMMA MarkChildrenStep ==
    ASSUME IInv, NEW x \in gray_stack, gc_mark_children(x),
           state \in {"MARK", "FINAL"}, op # "idle",
           UNCHANGED <<mutator, white, state, mode, old, unswept>>,
           op' \in Op, op' # op => op = "step" /\ op' = "idle" /\ state = "MARK"
    PROVE  IInv'
<1>. USE HeapAssumption DEF IInv, mode, mutator
<1>. DEFINE c == [color EXCEPT ![x] = "black"]
            g == gray_stack \ {x}
<1>a. /\ x \in Obj /\ ref[x] \in SUBSET Obj /\ c \in [Obj -> Color]
      /\ g \in SUBSET Obj /\ gray_overflow \in BOOLEAN
      /\ Mark(ref[x], c, g, gray_overflow)
    BY DEF TypeOK, Color, gc_mark_children
<1>d. /\ \A o \in Obj : c[o] = IF o = x THEN "black" ELSE color[o]
      /\ g = gray_stack \ {x}
    BY <1>a DEF TypeOK
<1>. HIDE DEF c, g
<1>c. MarkPost(ref[x], c, g, gray_overflow)
    BY <1>a, MarkFacts
<1>e. /\ color'[x] = "black"
      /\ \A o \in Obj : Marked(o) => color'[o] \in {"gray", "black"}
      /\ \A o \in ref[x] : color[o] # "free" => color'[o] \in {"gray", "black"}
      /\ \A o \in Obj \ {x} : color'[o] = color[o] \/ (o \in ref[x] /\ color[o] \in Whites)
      /\ \A o \in Obj \ {x} : color'[o] = "black" => color[o] = "black" \/ o \in Leaf
      /\ \A o \in Obj \ {x} : color'[o] = "gray" =>
             color[o] = "gray" \/ o \in gray_stack' \/ gray_overflow'
    BY <1>a, <1>c, <1>d DEF MarkPost, Whites, Color, TypeOK, Marked
<1>s. PICK S \in SUBSET Obj : Shield(S)
    BY DEF Shielded
<1>1. TypeOK'
    BY <1>c DEF MarkPost, TypeOK
<1>2. Shielded'
  <2>2. Shield(S)'
      BY <1>a, <1>c, <1>d, <1>e, <1>s DEF MarkPost, Shield, Roots, Marked, TypeOK, Color, Whites
  <2>. QED BY <2>2 DEF Shielded
<1>3. TriColor'
  <2>1. \A v \in ref[x] : color[v] # "free"
      BY <1>s DEF Shield
  <2>. QED BY <1>a, <1>e, <2>1 DEF TriColor, LeafHasNoRefs, TypeOK, Marked
<1>4. GrayTracked'
    BY <1>a, <1>c, <1>d, <1>e DEF MarkPost, GrayTracked
<1>5. FinalRootsMarked'
    BY <1>a, <1>e DEF FinalRootsMarked, Roots, Marked, TypeOK
<1>6. LeafHasNoRefs' /\ OpMode' /\ NoOldOutsideGen'
    BY DEF LeafHasNoRefs, OpMode, NoOldOutsideGen
<1>7. MinorNoNew'
    BY <1>a, <1>e, <1>c DEF MarkPost, MinorNoNew, Whites, TypeOK, Color
<1>8. SweptClean' /\ SweptWhite' /\ FreshStart'
    BY DEF SweptClean, SweptWhite, FreshStart
<1>9. OldPagesHoldNoWhite'
    BY <1>a, <1>e DEF OldPagesHoldNoWhite, Marked
<1>. QED BY <1>1, <1>2, <1>3, <1>4, <1>5, <1>6, <1>7, <1>8, <1>9

\* gc_gray_rescan() puts gray objects back on the stack; those that do not fit
\* keep the overflow flag up.
LEMMA RescanStep ==
    ASSUME IInv, gc_gray_rescan,
           UNCHANGED <<mutator, white, state, mode, old, unswept, op>>
    PROVE  IInv'
<1>. USE HeapAssumption DEF IInv, mode, mutator
<1>. DEFINE G == {o \in Obj : color[o] = "gray"}
<1>a. G \in SUBSET Obj /\ Push(G, {}, FALSE) /\ color' = color
    BY DEF gc_gray_rescan
<1>b. /\ gray_stack' \in SUBSET Obj /\ gray_overflow' \in BOOLEAN
      /\ gray_stack' \subseteq G
      /\ \A o \in G : o \in gray_stack' \/ gray_overflow'
  <2>1. {} \in SUBSET Obj /\ FALSE \in BOOLEAN
      OBVIOUS
  <2>. QED BY <1>a, <2>1, PushFacts
<1>1. TypeOK'
    BY <1>a, <1>b DEF TypeOK
<1>2. Shielded'
  <2>1. PICK S \in SUBSET Obj : Shield(S)
      BY DEF Shielded
  <2>2. Shield(S)'
      BY <1>a, <1>b, <2>1 DEF Shield, Roots, Marked, other
  <2>. QED BY <2>2 DEF Shielded
<1>3. TriColor' /\ GrayTracked'
    BY <1>a, <1>b DEF TriColor, GrayTracked
<1>4. FinalRootsMarked' /\ LeafHasNoRefs' /\ OpMode' /\ NoOldOutsideGen' /\ MinorNoNew'
    BY <1>a DEF FinalRootsMarked, LeafHasNoRefs, OpMode, NoOldOutsideGen, MinorNoNew,
                Roots, Marked
<1>5. SweptClean' /\ SweptWhite' /\ FreshStart' /\ OldPagesHoldNoWhite'
    BY <1>a DEF SweptClean, SweptWhite, FreshStart, OldPagesHoldNoWhite, other, Marked
<1>. QED BY <1>1, <1>2, <1>3, <1>4, <1>5

\* The second reading of the roots leaves every one of them marked.
LEMMA FinalRootsStep ==
    ASSUME IInv, FinalRoots
    PROVE  IInv'
<1>. USE HeapAssumption DEF IInv, mode, mutator
<1>a. /\ op # "idle" /\ state = "MARK" /\ state' = "FINAL"
      /\ UNCHANGED <<mutator, white, mode, old, unswept, op>>
      /\ Mark(Roots, color, gray_stack, gray_overflow)
    BY DEF FinalRoots
<1>b. /\ Roots \in SUBSET Obj /\ color \in [Obj -> Color]
      /\ gray_stack \in SUBSET Obj /\ gray_overflow \in BOOLEAN
    BY DEF TypeOK, Roots
<1>c. MarkPost(Roots, color, gray_stack, gray_overflow)
    BY <1>a, <1>b, MarkFacts
<1>s. PICK S \in SUBSET Obj : Shield(S)
    BY DEF Shielded
<1>1. TypeOK'
    BY <1>a, <1>c DEF MarkPost, TypeOK
<1>2. Shielded'
  <2>2. Shield(S)'
      BY <1>a, <1>b, <1>c, <1>s DEF MarkPost, Shield, Roots, Marked, TypeOK, Color, Whites
  <2>. QED BY <2>2 DEF Shielded
<1>3. TriColor'
    BY <1>a, <1>b, <1>c DEF MarkPost, TriColor, LeafHasNoRefs, TypeOK, Color, Whites
<1>4. GrayTracked'
    BY <1>a, <1>c DEF MarkPost, GrayTracked
<1>5. FinalRootsMarked'
  <2>1. \A o \in Roots : color[o] # "free"
      BY <1>s DEF Shield
  <2>. QED BY <1>a, <1>b, <1>c, <2>1
           DEF MarkPost, FinalRootsMarked, Roots, Marked, Color, Whites
<1>6. LeafHasNoRefs' /\ OpMode' /\ NoOldOutsideGen'
    BY <1>a DEF LeafHasNoRefs, OpMode, NoOldOutsideGen
<1>7. MinorNoNew'
    BY <1>a, <1>b, <1>c DEF MarkPost, MinorNoNew, Whites, TypeOK, Color
<1>8. SweptClean' /\ SweptWhite' /\ FreshStart'
    BY <1>a DEF SweptClean, SweptWhite, FreshStart
<1>9. OldPagesHoldNoWhite'
    BY <1>a, <1>b, <1>c DEF MarkPost, OldPagesHoldNoWhite, Whites
<1>. QED BY <1>1, <1>2, <1>3, <1>4, <1>5, <1>6, <1>7, <1>8, <1>9

\* The heart of the matter: when marking ends, nothing is gray, so the black
\* objects are closed under references and hold the roots.  They are a shield
\* that has nothing condemned in it.
LEMMA FinalDoneStep ==
    ASSUME IInv, FinalDone
    PROVE  IInv'
<1>. USE HeapAssumption DEF IInv, mode, mutator, marking
<1>a. /\ state = "FINAL" /\ gray_stack = {} /\ ~gray_overflow
      /\ state' = "SWEEP" /\ unswept' = Page
      /\ UNCHANGED <<mutator, marking, white, mode, old, op>>
    BY DEF FinalDone, NothingGray, prepare_incremental_sweep
<1>1. TypeOK'
    BY <1>a DEF TypeOK
<1>2. Shielded'
  <2>. DEFINE B == {o \in Obj : color[o] = "black"}
  <2>1. \A o \in Obj : color[o] # "gray"
      BY <1>a DEF GrayTracked
  <2>2. Roots \subseteq B
      BY <1>a, <2>1 DEF FinalRootsMarked, Roots, Marked, TypeOK
  <2>3. \A o \in B : ref[o] \subseteq B
    <3>1. CASE cxt = NoFiber
        BY <1>a, <2>1, <3>1 DEF TriColor, TypeOK
    <3>2. CASE cxt # NoFiber
        BY <1>a, <2>1, <2>2, <3>2 DEF TriColor, TypeOK, Roots
    <3>. QED BY <3>1, <3>2
  <2>4. Shield(B)'
      BY <1>a, <2>1, <2>2, <2>3 DEF Shield, Roots, Marked, other
  <2>. QED BY <2>4 DEF Shielded
<1>3. TriColor' /\ GrayTracked'
    BY <1>a DEF TriColor, GrayTracked
<1>4. FinalRootsMarked' /\ LeafHasNoRefs' /\ OpMode' /\ NoOldOutsideGen' /\ MinorNoNew'
    BY <1>a DEF FinalRootsMarked, LeafHasNoRefs, OpMode, NoOldOutsideGen, MinorNoNew
<1>5. SweptClean' /\ SweptWhite' /\ FreshStart' /\ OldPagesHoldNoWhite'
    BY <1>a DEF SweptClean, SweptWhite, FreshStart, OldPagesHoldNoWhite, TypeOK
<1>. QED BY <1>1, <1>2, <1>3, <1>4, <1>5

\* Sweeping a page frees only what lies outside the shield.
LEMMA SweepPageStep ==
    ASSUME IInv, NEW p \in Page, incremental_sweep_phase(p)
    PROVE  IInv'
<1>. USE HeapAssumption DEF IInv, mode
<1>. DEFINE here == {o \in Obj : PageOf[o] = p}
<1>a. /\ op # "idle" /\ state = "SWEEP" /\ p \in unswept
      /\ unswept' = unswept \ {p}
      /\ UNCHANGED <<roots, cxt, white, state, gray_stack, gray_overflow, mode>>
      /\ op' \in Op /\ (op' # op => op = "step" /\ op' = "idle")
    BY DEF incremental_sweep_phase, MayStop, TypeOK, Op
<1>b. CASE Minor /\ p \in old
  <2>a. UNCHANGED <<color, ref, old>>
      BY <1>b DEF incremental_sweep_phase
  <2>1. TypeOK'
      BY <1>a, <2>a DEF TypeOK
  <2>2. Shielded'
    <3>1. PICK S \in SUBSET Obj : Shield(S)
        BY DEF Shielded
    <3>2. Shield(S)'
        BY <1>a, <2>a, <3>1 DEF Shield, Roots, Marked, other
    <3>. QED BY <3>2 DEF Shielded
  <2>3. TriColor' /\ GrayTracked' /\ FinalRootsMarked' /\ LeafHasNoRefs'
      BY <1>a, <2>a DEF TriColor, GrayTracked, FinalRootsMarked, LeafHasNoRefs
  <2>4. SweptClean'
      BY <1>a, <1>b, <2>a DEF SweptClean, OldPagesHoldNoWhite, Minor, other
  <2>5. SweptWhite' /\ FreshStart' /\ OldPagesHoldNoWhite' /\ MinorNoNew' /\ NoOldOutsideGen'
      BY <1>a, <1>b, <2>a DEF SweptWhite, FreshStart, OldPagesHoldNoWhite, MinorNoNew,
             NoOldOutsideGen, Minor
  <2>6. OpMode'
      BY <1>a DEF OpMode, Op, Finishing
  <2>. QED BY <2>1, <2>2, <2>3, <2>4, <2>5, <2>6
<1>c. CASE ~(Minor /\ p \in old)
  <2>a. /\ color' = [o \in Obj |-> IF o \notin here THEN color[o]
                                   ELSE IF o \in Dead THEN "free"
                                   ELSE IF generational THEN color[o] ELSE white]
        /\ ref' = [o \in Obj |-> IF o \in here /\ color[o] = other THEN {} ELSE ref[o]]
        /\ old' = IF Minor /\ here \cap Dead = {} THEN old \cup {p} ELSE old \ {p}
      BY <1>c DEF incremental_sweep_phase
  <2>b. \A o \in Obj : o \in Dead <=> color[o] \in {other, "free"}
      BY DEF Dead
  <2>c. white # other /\ white \in Whites /\ other \in Whites /\ other' = other
      BY <1>a DEF TypeOK, other, Whites
  <2>1. TypeOK'
      BY <1>a, <2>a DEF TypeOK, Color
  <2>2. Shielded'
    <3>1. PICK S \in SUBSET Obj : Shield(S)
        BY DEF Shielded
    <3>2. \A o \in S : o \notin Dead
        BY <1>a, <2>b, <3>1 DEF Shield
    <3>3. \A o \in S : ref'[o] = ref[o]
        BY <2>a, <2>b, <3>2 DEF TypeOK
    <3>4. Roots' = Roots
        BY <1>a, <3>1, <3>3 DEF Shield, Roots
    <3>5. \A o \in Obj : Marked(o)' => Marked(o)
        BY <2>a, <2>c DEF Marked, Whites
    <3>6. \A o \in S : color'[o] # "free" /\ color'[o] # other
        BY <2>a, <2>b, <2>c, <3>2 DEF Whites
    <3>7. Shield(S)'
        BY <1>a, <2>c, <3>1, <3>3, <3>4, <3>5, <3>6 DEF Shield
    <3>. QED BY <3>7 DEF Shielded
  <2>3. TriColor' /\ GrayTracked'
    <3>1. CASE ~generational
        BY <1>a, <3>1 DEF TriColor, GrayTracked
    <3>2. CASE generational
      <4>1. \A o \in Obj : Marked(o) => o \notin Dead
          BY <2>b DEF Marked, other
      <4>2. \A o \in Obj : Marked(o) \/ Marked(o)' => color'[o] = color[o] /\ ref'[o] = ref[o]
          BY <2>a, <2>b, <3>2, <4>1 DEF Marked, TypeOK
      <4>. QED BY <1>a, <3>2, <4>2 DEF TriColor, GrayTracked, Marked, TypeOK
    <3>. QED BY <3>1, <3>2
  <2>4. FinalRootsMarked' /\ LeafHasNoRefs'
      BY <1>a, <2>a DEF FinalRootsMarked, LeafHasNoRefs
  <2>5. SweptClean'
      BY <1>a, <2>a, <2>b, <2>c DEF SweptClean, Whites, TypeOK
  <2>6. SweptWhite'
      BY <1>a, <2>a, <2>c DEF SweptWhite, Marked, Whites, Minor, TypeOK
  <2>7. FreshStart' /\ NoOldOutsideGen'
      BY <1>a DEF FreshStart, NoOldOutsideGen
  <2>8. MinorNoNew'
      BY <1>a, <2>a, <2>c DEF MinorNoNew, OpMode, Whites
  <2>9. OldPagesHoldNoWhite'
    <3>1. CASE Minor /\ here \cap Dead = {}
      <4>1. op = "minor"
          BY <1>a, <3>1 DEF OpMode, Minor
      <4>2. \A o \in here : color[o] \in {"gray", "black"}
          BY <1>a, <2>b, <3>1, <4>1 DEF MinorNoNew, TypeOK, Color, Whites, other
      <4>. QED BY <1>a, <2>a, <3>1, <4>2 DEF OldPagesHoldNoWhite, Minor
    <3>2. CASE ~(Minor /\ here \cap Dead = {})
        BY <1>a, <2>a, <2>b, <3>2 DEF OldPagesHoldNoWhite, other
    <3>. QED BY <3>1, <3>2
  <2>10. OpMode'
      BY <1>a DEF OpMode, Op, Finishing
  <2>. QED BY <2>1, <2>2, <2>3, <2>4, <2>5, <2>6, <2>7, <2>8, <2>9, <2>10
<1>. QED BY <1>b, <1>c

\* The sweep is over: nothing is condemned, and a non-generational sweep has
\* left nothing marked.  So the heap is ready for ROOT, or for the extra sweep
\* of clear_all_old(), whatever the entry point does next.
LEMMA SweepEndStep ==
    ASSUME IInv, NoSweepOom, state = "SWEEP", unswept = {},
           UNCHANGED <<mutator, color, white, old>>,
           \/ gray_stack' = gray_stack /\ gray_overflow' = gray_overflow
           \/ gray_stack' = {} /\ gray_overflow' = FALSE /\ ~generational,
           generational' \in BOOLEAN, full' \in BOOLEAN,
           \/ state' = "ROOT" /\ unswept' = {}
           \/ state' = "SWEEP" /\ unswept' = Page /\ ~generational',
           state' = "ROOT" /\ generational /\ generational' => ~full',
           state' = "ROOT" /\ generational => generational',
           op' \in Op,
           OpMode'
    PROVE  IInv'
<1>. USE HeapAssumption DEF IInv, mutator
<1>a. \A o \in Obj : color[o] # other
    BY DEF SweptClean
<1>b. ~generational => old = {} /\ \A o \in Obj : ~Marked(o)
    BY DEF SweptWhite
<1>1. TypeOK'
    BY DEF TypeOK
<1>2. Shielded'
  <2>1. PICK S \in SUBSET Obj : Shield(S)
      BY DEF Shielded
  <2>2. Shield(S)'
      BY <1>a, <2>1 DEF Shield, Roots, Marked, other
  <2>. QED BY <2>2 DEF Shielded
<1>3. TriColor' /\ GrayTracked'
    BY <1>b DEF TriColor, GrayTracked, Marked
<1>4. FinalRootsMarked' /\ LeafHasNoRefs' /\ NoOldOutsideGen' /\ MinorNoNew'
    BY <1>b DEF FinalRootsMarked, LeafHasNoRefs, NoOldOutsideGen, MinorNoNew, OpMode
<1>5. SweptClean'
    BY <1>a DEF SweptClean, other
<1>6. SweptWhite' /\ OldPagesHoldNoWhite'
    BY <1>b DEF SweptWhite, OldPagesHoldNoWhite, TypeOK
<1>7. FreshStart'
    BY <1>b DEF FreshStart, Marked
<1>. QED BY <1>1, <1>2, <1>3, <1>4, <1>5, <1>6, <1>7

\* Each way an entry point goes on after its sweep is covered by SweepEndStep.
LEMMA CompletionStep ==
    ASSUME IInv, NoSweepOom,
           \/ StepDone \/ MinorDone \/ EmergencyDone \/ HalfBakedDone
           \/ ClearAllOldDone \/ FullGcDone \/ GenOnDone
    PROVE  IInv'
<1>. USE DEF IInv, mutator, marking, mode, SweepEnd, start_unold,
             prepare_incremental_sweep
<1>1. /\ state = "SWEEP" /\ unswept = {}
      /\ UNCHANGED <<mutator, color, white, old>>
      /\ \/ state' = "ROOT" /\ unswept' = {}
         \/ state' = "SWEEP" /\ unswept' = Page /\ ~generational'
    BY DEF StepDone, MinorDone, EmergencyDone, HalfBakedDone, ClearAllOldDone,
           FullGcDone, GenOnDone
<1>2. \/ gray_stack' = gray_stack /\ gray_overflow' = gray_overflow
      \/ gray_stack' = {} /\ gray_overflow' = FALSE /\ ~generational
    BY DEF StepDone, MinorDone, EmergencyDone, HalfBakedDone, ClearAllOldDone,
           FullGcDone, GenOnDone, OpMode
<1>3. /\ generational' \in BOOLEAN /\ full' \in BOOLEAN /\ op' \in Op
      /\ state' = "ROOT" /\ generational /\ generational' => ~full'
      /\ state' = "ROOT" /\ generational => generational'
      /\ OpMode'
  <2>. USE DEF TypeOK, OpMode, Op, Finishing
  <2>1. CASE StepDone
      BY <2>1 DEF StepDone
  <2>2. CASE MinorDone
      BY <2>2 DEF MinorDone
  <2>3. CASE EmergencyDone
      BY <2>3 DEF EmergencyDone
  <2>4. CASE HalfBakedDone
      BY <2>4 DEF HalfBakedDone
  <2>5. CASE ClearAllOldDone
      BY <2>5 DEF ClearAllOldDone
  <2>6. CASE FullGcDone
      BY <2>6 DEF FullGcDone
  <2>7. CASE GenOnDone
      BY <2>7 DEF GenOnDone
  <2>. QED BY <2>1, <2>2, <2>3, <2>4, <2>5, <2>6, <2>7
<1>. QED BY <1>1, <1>2, <1>3, SweepEndStep

-----------------------------------------------------------------------------
(* The theorems.                                                           *)

\* The heap of mrb_gc_init() satisfies the invariant.
LEMMA InitIInv == Init => IInv
<1>. SUFFICES ASSUME Init PROVE IInv
    OBVIOUS
<1>. USE HeapAssumption DEF Init
<1>1. TypeOK
    BY DEF TypeOK, Whites, Color, Op
<1>2. Shielded
  <2>1. {} \in SUBSET Obj /\ Shield({})
      BY DEF Shield, Roots, Marked
  <2>. QED BY <2>1 DEF Shielded
<1>3. TriColor /\ GrayTracked /\ FinalRootsMarked /\ LeafHasNoRefs
    BY DEF TriColor, GrayTracked, FinalRootsMarked, LeafHasNoRefs
<1>4. SweptClean /\ SweptWhite /\ FreshStart
    BY DEF SweptClean, SweptWhite, FreshStart, Marked, other
<1>5. OldPagesHoldNoWhite /\ MinorNoNew /\ NoOldOutsideGen /\ OpMode
    BY DEF OldPagesHoldNoWhite, MinorNoNew, NoOldOutsideGen, OpMode
<1>. QED BY <1>1, <1>2, <1>3, <1>4, <1>5 DEF IInv

\* Steps that leave every variable alone keep the invariant.
LEMMA StutterIInv == IInv /\ UNCHANGED vars => IInv'
<1>. SUFFICES ASSUME IInv, UNCHANGED vars PROVE IInv'
    OBVIOUS
<1>. USE DEF IInv, vars
<1>1. Shielded'
  <2>1. PICK S \in SUBSET Obj : Shield(S)
      BY DEF Shielded
  <2>2. Shield(S)'
      BY <2>1 DEF Shield, Roots, Marked, other
  <2>. QED BY <2>2 DEF Shielded
<1>2. TypeOK' /\ TriColor' /\ GrayTracked' /\ FinalRootsMarked' /\ LeafHasNoRefs'
    BY DEF TypeOK, TriColor, GrayTracked, FinalRootsMarked, LeafHasNoRefs, Roots, Marked
<1>3. /\ SweptClean' /\ SweptWhite' /\ FreshStart' /\ OldPagesHoldNoWhite'
      /\ MinorNoNew' /\ NoOldOutsideGen' /\ OpMode'
    BY DEF SweptClean, SweptWhite, FreshStart, OldPagesHoldNoWhite, MinorNoNew,
           NoOldOutsideGen, OpMode, other, Marked
<1>. QED BY <1>1, <1>2, <1>3

\* Every action of mutator and collector keeps the invariant.
LEMMA NextIInv ==
    ASSUME IInv, NoSweepOom, Next
    PROVE  IInv'
<1>1. CASE Mutator
    BY <1>1, AllocStep, LoadStep, DropStep, ClearStep, ResumeStep, StoreFieldStep,
       StoreBulkStep, YieldStep DEF Mutator
<1>2. CASE IncrementalGc \/ FullGc \/ EmergencySweep \/ ChangeGenGcMode
    BY <1>2, EntryStep
<1>3. CASE root_scan_phase
    BY <1>3, RootScanStep
<1>4. CASE incremental_marking_phase
  <2>1. CASE gc_gray_rescan /\ UNCHANGED op
      BY <1>4, <2>1, RescanStep DEF incremental_marking_phase, mutator, mode
  <2>2. CASE \E o \in gray_stack : gc_mark_children(o) /\ MayStop
    <3>1. PICK o \in gray_stack : gc_mark_children(o) /\ MayStop
        BY <2>2
    <3>2. op' \in Op /\ (op' # op => op = "step" /\ op' = "idle" /\ state = "MARK")
        BY <1>4, <3>1 DEF MayStop, IInv, TypeOK, Op, incremental_marking_phase
    <3>. QED BY <1>4, <3>1, <3>2, MarkChildrenStep DEF incremental_marking_phase
  <2>. QED BY <1>4, <2>1, <2>2 DEF incremental_marking_phase
<1>5. CASE gc_mark_gray_list
  <2>1. CASE gc_gray_rescan
      BY <1>5, <2>1, RescanStep DEF gc_mark_gray_list
  <2>2. CASE \E o \in gray_stack : gc_mark_children(o)
    <3>1. PICK o \in gray_stack : gc_mark_children(o)
        BY <2>2
    <3>2. /\ state = "FINAL" /\ op # "idle" /\ op' = op /\ op' \in Op
          /\ UNCHANGED <<mutator, white, state, mode, old, unswept>>
        BY <1>5 DEF gc_mark_gray_list, IInv, OpMode, TypeOK
    <3>. QED BY <3>1, <3>2, MarkChildrenStep
  <2>. QED BY <1>5, <2>1, <2>2 DEF gc_mark_gray_list
<1>6. CASE FinalRoots
    BY <1>6, FinalRootsStep
<1>7. CASE FinalDone
    BY <1>7, FinalDoneStep
<1>8. CASE \E p \in Page : incremental_sweep_phase(p)
    BY <1>8, SweepPageStep
<1>9. CASE \/ StepDone \/ MinorDone \/ EmergencyDone \/ HalfBakedDone
           \/ ClearAllOldDone \/ FullGcDone \/ GenOnDone
    BY <1>9, CompletionStep
<1>. QED BY <1>1, <1>2, <1>3, <1>4, <1>5, <1>6, <1>7, <1>8, <1>9 DEF Next, Collector

\* The inductive invariant of the collector holds of every behaviour.
THEOREM Invariance == ASSUME NoSweepOom PROVE Spec => []IInv
<1>1. IInv /\ [Next]_vars => IInv'
    BY NextIInv, StutterIInv
<1>. QED BY <1>1, InitIInv, PTL DEF Spec

\* The colours, the gray stack, the phase and the flags keep their types.
THEOREM TypeCorrect == ASSUME NoSweepOom PROVE Spec => []TypeOK
<1>1. IInv => TypeOK
    BY DEF IInv
<1>. QED BY <1>1, Invariance, PTL

\* A shield holds every reachable object, for Live is the least closed set.
LEMMA LiveInShield ==
    ASSUME NEW S \in SUBSET Obj, Shield(S)
    PROVE  Live \subseteq S
    BY DEF Shield, Live, Heap!Live, Heap!Closed

\* No object the program can reach is ever freed: for every heap, page layout,
\* gray stack capacity, build and interleaving of mutator and collector.
THEOREM Safety == ASSUME NoSweepOom PROVE Spec => []NoLiveFree
<1>1. IInv => NoLiveFree
    BY LiveInShield DEF IInv, Shielded, Shield, NoLiveFree
<1>. QED BY <1>1, Invariance, PTL

\* Once the sweep runs, no reachable object is among the condemned ones.
THEOREM CondemnedUnreachable == ASSUME NoSweepOom PROVE Spec => []NoLiveCondemned
<1>1. IInv => NoLiveCondemned
    BY LiveInShield DEF IInv, Shielded, Shield, NoLiveCondemned, Dead
<1>. QED BY <1>1, Invariance, PTL

\* The write barriers keep black objects from referring to white ones.
THEOREM Barriers == ASSUME NoSweepOom PROVE Spec => []TriColor
<1>1. IInv => TriColor
    BY DEF IInv
<1>. QED BY <1>1, Invariance, PTL

\* The gray stack may overflow, and still no gray object is lost: it is on the
\* stack, or the flag sends gc_gray_rescan() over the heap to find it.
THEOREM GrayIsTracked == ASSUME NoSweepOom PROVE Spec => []GrayTracked
<1>1. IInv => GrayTracked
    BY DEF IInv
<1>. QED BY <1>1, Invariance, PTL

\* Skipping an old page in a minor sweep skips no garbage.
THEOREM OldPages == ASSUME NoSweepOom PROVE Spec => []OldPagesHoldNoWhite
<1>1. IInv => OldPagesHoldNoWhite
    BY DEF IInv
<1>. QED BY <1>1, Invariance, PTL

\* Between two non-generational cycles nothing is black, as the barriers assert.
THEOREM BetweenCycles == ASSUME NoSweepOom PROVE Spec => []NoBlackBetweenCycles
<1>1. IInv => NoBlackBetweenCycles
    BY DEF IInv, FreshStart, Marked, NoBlackBetweenCycles
<1>. QED BY <1>1, Invariance, PTL

-----------------------------------------------------------------------------
(* gc.c implements the managed heap.                                       *)

\* Live is itself closed: it holds the roots and what its members refer to.
LEMMA LiveClosed ==
    ASSUME TypeOK
    PROVE  /\ Roots \subseteq Live /\ Live \subseteq Obj
           /\ \A o \in Live : ref[o] \subseteq Live
<1>1. Roots \subseteq Obj
    BY HeapAssumption DEF TypeOK, Roots
<1>. QED BY <1>1 DEF TypeOK, Live, Heap!Live, Heap!Closed

\* Marking and painting among the allocated colours is invisible.
LEMMA Invisible ==
    ASSUME UNCHANGED mutator,
           \A o \in Obj : color'[o] = "free" <=> color[o] = "free"
    PROVE  UNCHANGED Heap!heapVars
    BY DEF mutator, Heap!heapVars, Roots

\* A mutator step that frees nothing moves references among live objects.
LEMMA MutatorMutates ==
    ASSUME TypeOK, Roots' \subseteq Live,
           ref' \in [Obj -> SUBSET Obj],
           \A o \in Obj : ref'[o] \subseteq ref[o] \cup Live,
           \A o \in Obj : color'[o] = "free" <=> color[o] = "free"
    PROVE  Heap!Mutate
    BY DEF Live, Heap!Mutate

\* Neither barrier frees or allocates a slot.
LEMMA BarrierKeepsAllocated ==
    ASSUME IInv, NEW o \in Obj, NEW v \in Obj,
           mrb_field_write_barrier(o, v) \/ mrb_write_barrier(o)
    PROVE  \A x \in Obj : color'[x] = "free" <=> color[x] = "free"
<1>1. CASE mrb_field_write_barrier(o, v)
    BY <1>1, FieldBarrierFacts DEF IInv, TypeOK, Whites
<1>2. CASE mrb_write_barrier(o)
    BY <1>2, BarrierFacts DEF IInv, TypeOK
<1>. QED BY <1>1, <1>2

\* Every mutator step allocates a slot or moves references among live objects.
LEMMA MutatorRefines ==
    ASSUME IInv, Mutator
    PROVE  Heap!Next \/ UNCHANGED Heap!heapVars
<1>. USE HeapAssumption
<1>t. TypeOK
    BY DEF IInv
<1>l. /\ Roots \subseteq Live /\ Live \subseteq Obj
      /\ \A o \in Live : ref[o] \subseteq Live
    BY <1>t, LiveClosed
<1>1. ASSUME NEW n \in Obj, mrb_obj_alloc(n)
      PROVE  Heap!Next
  <2>1. n \notin {o \in Obj : color[o] # "free"}
      BY <1>1 DEF mrb_obj_alloc
  <2>2. {o \in Obj : color'[o] # "free"} = {o \in Obj : color[o] # "free"} \cup {n}
      BY <1>1, <1>t DEF mrb_obj_alloc, TypeOK, Whites
  <2>3. n \notin Roots
      BY <1>1 DEF IInv, Shielded, Shield, mrb_obj_alloc
  <2>4. Roots' = Roots \cup {n}
      BY <1>1, <1>t, <2>3 DEF mrb_obj_alloc, Roots, TypeOK
  <2>5. ref' = [ref EXCEPT ![n] = {}]
      BY <1>1 DEF mrb_obj_alloc
  <2>. QED BY <2>1, <2>2, <2>4, <2>5 DEF Heap!Next, Heap!Allocate
<1>2. ASSUME NEW o \in Obj, NEW v \in Obj,
             LoadField(o, v) \/ DropValue(v) \/ ClearField(o, v) \/ FiberResume(o)
      PROVE  Heap!Next
  <2>1. color' = color
      BY <1>2 DEF LoadField, DropValue, ClearField, FiberResume, marking
  <2>2. ref' \in [Obj -> SUBSET Obj]
      BY <1>2, <1>t DEF LoadField, DropValue, ClearField, FiberResume, PushValue,
                        Container, TypeOK
  <2>3. \A x \in Obj : ref'[x] \subseteq ref[x] \cup Live
      BY <1>2, <1>t, <1>l DEF LoadField, DropValue, ClearField, FiberResume, PushValue,
                        Container, TypeOK
  <2>4. Roots' \subseteq Live
    <3>1. CASE LoadField(o, v)
        BY <3>1, <1>t, <1>l DEF LoadField, PushValue, TypeOK, Roots
    <3>2. CASE DropValue(v)
        BY <3>2, <1>t, <1>l DEF DropValue, TypeOK, Roots
    <3>3. CASE ClearField(o, v)
        BY <3>3, <1>t, <1>l DEF ClearField, Container, TypeOK, Roots
    <3>4. CASE FiberResume(o)
        BY <3>4, <1>t, <1>l DEF FiberResume, TypeOK, Roots
    <3>. QED BY <1>2, <3>1, <3>2, <3>3, <3>4
  <2>. QED BY <1>t, <2>1, <2>2, <2>3, <2>4, MutatorMutates DEF Heap!Next
<1>3. ASSUME NEW o \in Obj, NEW v \in Obj, StoreField(o, v) \/ StoreBulk(o, v)
      PROVE  Heap!Next
  <2>a. /\ o \in Roots /\ o \notin Fiber /\ v \in Roots
        /\ ref' = [ref EXCEPT ![o] = @ \cup {v}]
        /\ roots' = roots /\ cxt' = cxt
        /\ mrb_field_write_barrier(o, v) \/ mrb_write_barrier(o)
      BY <1>3 DEF StoreField, StoreBulk, Container
  <2>1. \A x \in Obj : color'[x] = "free" <=> color[x] = "free"
      BY <2>a, BarrierKeepsAllocated
  <2>2. ref' \in [Obj -> SUBSET Obj] /\ \A x \in Obj : ref'[x] \subseteq ref[x] \cup Live
      BY <2>a, <1>t, <1>l DEF TypeOK
  <2>3. Roots' \subseteq Live
      BY <2>a, <1>t, <1>l DEF TypeOK, Roots
  <2>. QED BY <1>t, <2>1, <2>2, <2>3, MutatorMutates DEF Heap!Next
<1>4. ASSUME FiberYield
      PROVE  Heap!Next
  <2>a. cxt \in Obj /\ cxt' = NoFiber /\ ref' = ref /\ roots' = roots /\ mrb_write_barrier(cxt)
      BY <1>4, <1>t DEF FiberYield, TypeOK
  <2>1. \A x \in Obj : color'[x] = "free" <=> color[x] = "free"
      BY <2>a, BarrierKeepsAllocated
  <2>2. Roots' \subseteq Live
      BY <2>a, <1>l DEF Roots
  <2>. QED BY <1>t, <2>a, <2>1, <2>2, MutatorMutates DEF Heap!Next, TypeOK
<1>. QED BY <1>1, <1>2, <1>3, <1>4 DEF Mutator

\* Marking a set of objects changes nothing the program sees.
LEMMA MarkIsInvisible ==
    ASSUME TypeOK, UNCHANGED mutator, NEW S \in SUBSET Obj,
           NEW c \in [Obj -> Color], NEW g \in SUBSET Obj, NEW f \in BOOLEAN,
           Mark(S, c, g, f),
           \A o \in Obj : c[o] = "free" <=> color[o] = "free"
    PROVE  UNCHANGED Heap!heapVars
<1>1. MarkPost(S, c, g, f)
    BY MarkFacts
<1>2. \A o \in Obj : color'[o] = "free" <=> color[o] = "free"
    BY <1>1 DEF MarkPost, Whites, Color
<1>. QED BY <1>2, Invisible

\* Nor does scanning a gray object.
LEMMA MarkChildrenIsInvisible ==
    ASSUME IInv, UNCHANGED mutator, NEW x \in gray_stack, gc_mark_children(x)
    PROVE  UNCHANGED Heap!heapVars
<1>. DEFINE c == [color EXCEPT ![x] = "black"]
<1>1. /\ TypeOK /\ ref[x] \in SUBSET Obj /\ c \in [Obj -> Color]
      /\ gray_stack \ {x} \in SUBSET Obj /\ gray_overflow \in BOOLEAN
      /\ Mark(ref[x], c, gray_stack \ {x}, gray_overflow)
    BY DEF IInv, TypeOK, Color, gc_mark_children
<1>2. color[x] # "free"
    BY DEF IInv, Shielded, Shield
<1>3. \A o \in Obj : c[o] = "free" <=> color[o] = "free"
    BY <1>1, <1>2 DEF TypeOK
<1>. HIDE DEF c
<1>. QED BY <1>1, <1>3, MarkIsInvisible

\* Every collector step is invisible or reclaims unreachable objects.
LEMMA CollectorRefines ==
    ASSUME IInv, Collector
    PROVE  Heap!Next \/ UNCHANGED Heap!heapVars
<1>t. /\ TypeOK /\ Roots \in SUBSET Obj /\ color \in [Obj -> Color]
      /\ gray_stack \in SUBSET Obj /\ gray_overflow \in BOOLEAN
      /\ {} \in SUBSET Obj /\ FALSE \in BOOLEAN
    BY HeapAssumption DEF IInv, TypeOK, Roots
<1>1. CASE root_scan_phase \/ FinalRoots
  <2>1. /\ UNCHANGED mutator
        /\ \/ Mark(Roots, color, gray_stack, gray_overflow)
           \/ Mark(Roots, color, {}, FALSE)
      BY <1>1 DEF root_scan_phase, FinalRoots
  <2>. QED BY <1>t, <2>1, MarkIsInvisible
<1>2. CASE incremental_marking_phase \/ gc_mark_gray_list
  <2>1. CASE gc_gray_rescan
      BY <1>2, <2>1, Invisible
         DEF gc_gray_rescan, incremental_marking_phase, gc_mark_gray_list
  <2>2. CASE \E o \in gray_stack : gc_mark_children(o)
      BY <1>2, <2>2, MarkChildrenIsInvisible
         DEF incremental_marking_phase, gc_mark_gray_list
  <2>. QED BY <1>2, <2>1, <2>2 DEF incremental_marking_phase, gc_mark_gray_list
<1>3. CASE FinalDone \/ StepDone \/ MinorDone \/ EmergencyDone \/ HalfBakedDone
           \/ ClearAllOldDone \/ FullGcDone \/ GenOnDone
    BY <1>3, Invisible DEF FinalDone, StepDone, MinorDone, EmergencyDone,
       HalfBakedDone, ClearAllOldDone, FullGcDone, GenOnDone, marking
<1>4. ASSUME NEW p \in Page, incremental_sweep_phase(p)
      PROVE  Heap!Next \/ UNCHANGED Heap!heapVars
  <2>. DEFINE here == {o \in Obj : PageOf[o] = p}
              G == {o \in here : color[o] = other}
  <2>1. CASE Minor /\ p \in old
      BY <1>4, <2>1, Invisible DEF incremental_sweep_phase, mutator
  <2>2. CASE ~(Minor /\ p \in old)
    <3>a. /\ state = "SWEEP" /\ roots' = roots /\ cxt' = cxt
          /\ color' = [o \in Obj |-> IF o \notin here THEN color[o]
                                     ELSE IF o \in Dead THEN "free"
                                     ELSE IF generational THEN color[o] ELSE white]
          /\ ref' = [o \in Obj |-> IF o \in here /\ color[o] = other THEN {} ELSE ref[o]]
        BY <1>4, <2>2 DEF incremental_sweep_phase
    <3>1. Live \cap Dead = {}
        BY <3>a, LiveInShield DEF IInv, Shielded, Shield, Dead
    <3>2. G \in SUBSET ({o \in Obj : color[o] # "free"} \ Heap!Live)
        BY <3>1 DEF Live, Dead, other
    <3>3. {o \in Obj : color'[o] # "free"} = {o \in Obj : color[o] # "free"} \ G
        BY <3>a, <1>t DEF Dead, TypeOK, Whites, other
    <3>4. ref' = [o \in Obj |-> IF o \in G THEN {} ELSE ref[o]]
        BY <3>a
    <3>5. Roots' = Roots
        BY <3>a, <3>1, <1>t, LiveClosed, HeapAssumption DEF Roots, Dead, TypeOK
    <3>. QED BY <3>2, <3>3, <3>4, <3>5 DEF Heap!Next, Heap!Reclaim
  <2>. QED BY <2>1, <2>2
<1>. QED BY <1>1, <1>2, <1>3, <1>4 DEF Collector

\* Entering the collector changes nothing the program sees.
LEMMA EntryIsInvisible ==
    ASSUME IncrementalGc \/ FullGc \/ EmergencySweep \/ ChangeGenGcMode
    PROVE  UNCHANGED Heap!heapVars
    BY Invisible DEF IncrementalGc, FullGc, EmergencySweep, ChangeGenGcMode, marking

\* gc.c implements the managed heap: what the program sees of any run of
\* mutator and collector is allocation, moves of references among reachable
\* objects, and reclaims of unreachable ones.
THEOREM Refinement == ASSUME NoSweepOom PROVE Spec => ImplementsManagedHeap
<1>1. Init => Heap!Init
    BY DEF Init, Heap!Init, Roots
<1>2. IInv /\ [Next]_vars => [Heap!Next]_(Heap!heapVars)
  <2>1. ASSUME IInv, UNCHANGED vars PROVE UNCHANGED Heap!heapVars
      BY <2>1, Invisible DEF vars, mutator
  <2>. QED BY <2>1, MutatorRefines, CollectorRefines, EntryIsInvisible DEF Next
<1>. QED BY <1>1, <1>2, Invariance, PTL DEF Spec, ImplementsManagedHeap, Heap!Spec

-----------------------------------------------------------------------------
(* A full collection is exact.                                             *)

\* While the cycle of mrb_full_gc() marks, only reachable objects are marked and
\* nothing has the new white; while it sweeps, what is not condemned is reachable.
FullCycle ==
    op = "full.cycle" =>
        /\ state \in {"MARK", "FINAL"} =>
               /\ gray_stack \subseteq Live
               /\ \A o \in Obj : color[o] # white /\ (Marked(o) => o \in Live)
        /\ state = "SWEEP" => \A o \in Obj : color[o] \notin {other, "free"} => o \in Live

\* Reachability depends on what the mutator owns, and on nothing else.
LEMMA LiveSame ==
    ASSUME UNCHANGED mutator
    PROVE  Live' = Live
    BY DEF mutator, Live, Heap!Live, Heap!Closed, Roots

\* A page swept: the references of reachable objects stay, so all stay reachable.
LEMMA LiveKept ==
    ASSUME TypeOK, TypeOK', Roots' = Roots, \A o \in Live : ref'[o] = ref[o]
    PROVE  Live \subseteq Live'
<1>1. ASSUME NEW o \in Live, NEW S \in SUBSET Obj, Roots' \subseteq S, \A x \in S : ref'[x] \subseteq S
      PROVE  o \in S
  <2>. DEFINE T == S \cap Live
  <2>1. T \in SUBSET Obj /\ Roots \subseteq T /\ \A x \in T : ref[x] \subseteq T
      BY <1>1, LiveClosed
  <2>2. o \in T
      BY <2>1 DEF Live, Heap!Live, Heap!Closed
  <2>. QED BY <2>2
<1>2. Live \subseteq Obj
    BY LiveClosed
<1>. QED BY <1>1, <1>2 DEF Live, Heap!Live, Heap!Closed

\* Marking reachable objects marks nothing else.
LEMMA MarksLive ==
    ASSUME IInv, FullCycle, op = "full.cycle", op' = op, UNCHANGED mutator,
           NEW S \in SUBSET Obj, S \subseteq Live,
           NEW c \in [Obj -> Color], NEW g \in SUBSET Obj, g \subseteq Live, NEW f \in BOOLEAN,
           Mark(S, c, g, f),
           \A o \in Obj : c[o] # white' /\ (c[o] \in {"gray", "black"} => o \in Live),
           white' \in Whites, state' \in {"MARK", "FINAL"}
    PROVE  FullCycle'
<1>1. MarkPost(S, c, g, f)
    BY MarkFacts
<1>2. Live' = Live
    BY LiveSame
<1>3. gray_stack' \subseteq Live
    BY <1>1 DEF MarkPost
<1>4. \A o \in Obj : color'[o] # white' /\ (color'[o] \in {"gray", "black"} => o \in Live)
    BY <1>1 DEF MarkPost, Whites
<1>. QED BY <1>2, <1>3, <1>4 DEF FullCycle, Marked

\* Scanning a reachable object in a full cycle.
LEMMA MarkChildrenLive ==
    ASSUME IInv, FullCycle, op = "full.cycle", op' = op, UNCHANGED <<mutator, white, state>>,
           state \in {"MARK", "FINAL"}, NEW x \in gray_stack, gc_mark_children(x)
    PROVE  FullCycle'
<1>. DEFINE c == [color EXCEPT ![x] = "black"]
            g == gray_stack \ {x}
<1>1. /\ TypeOK /\ x \in Obj /\ ref[x] \in SUBSET Obj /\ c \in [Obj -> Color]
      /\ g \in SUBSET Obj /\ gray_overflow \in BOOLEAN
      /\ Mark(ref[x], c, g, gray_overflow) /\ white \in Whites
    BY DEF IInv, TypeOK, Color, gc_mark_children
<1>2. /\ gray_stack \subseteq Live /\ x \in Live /\ g \subseteq Live
      /\ \A o \in Obj : color[o] # white /\ (Marked(o) => o \in Live)
    BY DEF FullCycle
<1>3. ref[x] \subseteq Live
    BY <1>1, <1>2, LiveClosed
<1>4. \A o \in Obj : c[o] # white /\ (c[o] \in {"gray", "black"} => o \in Live)
    BY <1>1, <1>2 DEF Marked, TypeOK, Whites
<1>5. \A o \in Obj : c[o] # white' /\ (c[o] \in {"gray", "black"} => o \in Live)
    BY <1>4
<1>6. white' \in Whites /\ state' \in {"MARK", "FINAL"}
    BY <1>1
<1>. HIDE DEF c, g
<1>. QED BY <1>1, <1>2, <1>3, <1>5, <1>6, MarksLive

\* The rescan of a full cycle refills the stack with reachable objects.
LEMMA RescanLive ==
    ASSUME IInv, FullCycle, op = "full.cycle", op' = op, UNCHANGED <<mutator, white, state>>,
           state \in {"MARK", "FINAL"}, gc_gray_rescan
    PROVE  FullCycle'
<1>. DEFINE G == {o \in Obj : color[o] = "gray"}
<1>1. G \in SUBSET Obj /\ Push(G, {}, FALSE) /\ color' = color
    BY DEF gc_gray_rescan
<1>2. gray_stack' \subseteq G
  <2>1. {} \in SUBSET Obj /\ FALSE \in BOOLEAN
      OBVIOUS
  <2>. QED BY <1>1, <2>1, PushFacts
<1>3. G \subseteq Live
    BY DEF FullCycle, Marked
<1>. QED BY <1>1, <1>2, <1>3, LiveSame DEF FullCycle, Marked

\* The collector keeps FullCycle: a full cycle starts with nothing marked, no
\* mutator step comes between, and what the sweep spares is reachable.
LEMMA FullCycleStep ==
    ASSUME IInv, IInv', FullCycle, Next
    PROVE  FullCycle'
<1>t. TypeOK /\ TypeOK' /\ white \in Whites /\ white # other /\ other \in Whites
    BY DEF IInv, TypeOK, other, Whites
<1>l. /\ Roots \subseteq Live /\ Live \subseteq Obj
      /\ \A o \in Live : ref[o] \subseteq Live
    BY <1>t, LiveClosed
<1>1. CASE op' # "full.cycle"
    BY <1>1 DEF FullCycle
<1>2. CASE op' = "full.cycle" /\ op # "full.cycle"
  <2>1. state' = "ROOT"
    <3>1. CASE Mutator
        BY <1>2, <3>1 DEF Mutator, mrb_obj_alloc, DropValue, FiberResume, LoadField, StoreField,
                          StoreBulk, ClearField, FiberYield
    <3>2. CASE IncrementalGc \/ FullGc \/ EmergencySweep \/ ChangeGenGcMode
        BY <1>2, <3>2, <1>t DEF IncrementalGc, FullGc, EmergencySweep, ChangeGenGcMode, clear_all_old,
                          start_unold, TypeOK
    <3>3. CASE root_scan_phase \/ FinalRoots \/ gc_mark_gray_list \/ FinalDone
        BY <1>2, <3>3 DEF root_scan_phase, FinalRoots, gc_mark_gray_list, FinalDone
    <3>4. CASE incremental_marking_phase \/ \E p \in Page : incremental_sweep_phase(p)
        BY <1>2, <3>4 DEF incremental_marking_phase, incremental_sweep_phase, MayStop
    <3>5. CASE \/ StepDone \/ MinorDone \/ EmergencyDone \/ HalfBakedDone
               \/ ClearAllOldDone \/ FullGcDone \/ GenOnDone
        BY <1>2, <3>5 DEF StepDone, MinorDone, EmergencyDone, HalfBakedDone, ClearAllOldDone,
                          FullGcDone, GenOnDone, start_unold
    <3>. QED BY <3>1, <3>2, <3>3, <3>4, <3>5 DEF Next, Collector
  <2>. QED BY <2>1 DEF FullCycle
<1>3. CASE op' = "full.cycle" /\ op = "full.cycle"
  <2>1. CASE root_scan_phase
    <3>1. /\ state = "ROOT" /\ state' = "MARK" /\ white' = other /\ UNCHANGED mutator /\ ~Minor
          /\ Mark(Roots, color, {}, FALSE)
        BY <1>3, <2>1 DEF root_scan_phase, Minor, IInv, OpMode
    <3>2. \A o \in Obj : color[o] # other /\ ~Marked(o)
        BY <1>3, <3>1 DEF IInv, SweptClean, FreshStart, OpMode
    <3>3. \A o \in Obj : color[o] # white' /\ (color[o] \in {"gray", "black"} => o \in Live)
        BY <3>1, <3>2 DEF Marked
    <3>4. /\ Roots \in SUBSET Obj /\ color \in [Obj -> Color] /\ {} \in SUBSET Obj
          /\ {} \subseteq Live /\ FALSE \in BOOLEAN /\ white' \in Whites /\ state' \in {"MARK", "FINAL"}
        BY <1>l, <1>t, <3>1 DEF TypeOK
    <3>. QED BY <1>3, <1>l, <3>1, <3>3, <3>4, MarksLive
  <2>2. CASE incremental_marking_phase \/ gc_mark_gray_list
    <3>1. /\ UNCHANGED <<mutator, white, state>> /\ state \in {"MARK", "FINAL"}
          /\ (\E o \in gray_stack : gc_mark_children(o)) \/ gc_gray_rescan
        BY <2>2 DEF incremental_marking_phase, gc_mark_gray_list
    <3>2. op' = op
        BY <1>3
    <3>. QED BY <1>3, <3>1, <3>2, MarkChildrenLive, RescanLive
  <2>3. CASE FinalRoots
    <3>1. /\ state = "MARK" /\ state' = "FINAL" /\ white' = white /\ UNCHANGED mutator
          /\ Mark(Roots, color, gray_stack, gray_overflow)
        BY <2>3 DEF FinalRoots
    <3>2. /\ gray_stack \subseteq Live
          /\ \A o \in Obj : color[o] # white' /\ (color[o] \in {"gray", "black"} => o \in Live)
        BY <1>3, <3>1 DEF FullCycle, Marked
    <3>3. /\ Roots \in SUBSET Obj /\ color \in [Obj -> Color] /\ gray_stack \in SUBSET Obj
          /\ gray_overflow \in BOOLEAN /\ white' \in Whites /\ state' \in {"MARK", "FINAL"}
        BY <1>l, <1>t, <3>1 DEF TypeOK
    <3>. QED BY <1>3, <1>l, <3>1, <3>2, <3>3, MarksLive
  <2>4. CASE FinalDone
    <3>1. state = "FINAL" /\ state' = "SWEEP" /\ UNCHANGED <<mutator, color, white>>
        BY <2>4 DEF FinalDone, prepare_incremental_sweep, marking
    <3>2. \A o \in Obj : color[o] \notin {other, "free"} => o \in Live
        BY <1>3, <1>t, <3>1 DEF FullCycle, Marked, TypeOK, Color, Whites, other
    <3>. QED BY <3>1, <3>2, LiveSame DEF FullCycle, other
  <2>5. ASSUME NEW p \in Page, incremental_sweep_phase(p) PROVE FullCycle'
    <3>a. state = "SWEEP" /\ state' = "SWEEP" /\ white' = white /\ other' = other
        BY <2>5 DEF incremental_sweep_phase, other
    <3>b. roots' = roots /\ cxt' = cxt
        BY <2>5 DEF incremental_sweep_phase
    <3>c. Live \cap Dead = {}
        BY <3>a, LiveInShield DEF IInv, Shielded, Shield, Dead
    <3>1. \A o \in Obj : o \notin Dead => ref'[o] = ref[o]
        BY <2>5, <1>t DEF incremental_sweep_phase, Dead, TypeOK
    <3>2. Roots' = Roots
        BY <1>l, <1>t, <3>b, <3>c, <3>1, HeapAssumption DEF Roots, TypeOK
    <3>3. Live \subseteq Live'
        BY <1>l, <1>t, <3>c, <3>1, <3>2, LiveKept
    <3>4. \A o \in Obj : color'[o] \notin {other, "free"} => color[o] \notin {other, "free"}
        BY <2>5, <1>t DEF incremental_sweep_phase, Dead, TypeOK
    <3>5. \A o \in Obj : color[o] \notin {other, "free"} => o \in Live
        BY <1>3, <3>a DEF FullCycle
    <3>. QED BY <3>a, <3>3, <3>4, <3>5 DEF FullCycle
  <2>6. CASE \/ StepDone \/ MinorDone \/ EmergencyDone \/ HalfBakedDone
             \/ ClearAllOldDone \/ FullGcDone \/ GenOnDone
      BY <1>3, <2>6 DEF StepDone, MinorDone, EmergencyDone, HalfBakedDone, ClearAllOldDone,
                        FullGcDone, GenOnDone, SweepEnd
  <2>7. CASE Mutator \/ IncrementalGc \/ FullGc \/ EmergencySweep \/ ChangeGenGcMode
      BY <1>3, <2>7 DEF Mutator, mrb_obj_alloc, DropValue, FiberResume, LoadField, StoreField,
                        StoreBulk, ClearField, FiberYield, IncrementalGc, FullGc, EmergencySweep,
                        ChangeGenGcMode
  <2>. QED BY <2>1, <2>2, <2>3, <2>4, <2>5, <2>6, <2>7 DEF Next, Collector
<1>. QED BY <1>1, <1>2, <1>3

\* A full collection is exact: when mrb_full_gc() returns, what is still allocated
\* is what the program can reach, for every heap, build and gray stack size.
THEOREM FullGc_Exact == ASSUME NoSweepOom PROVE Spec => FullGcExact
<1>1. Init => FullCycle
    BY DEF Init, FullCycle
<1>2. IInv /\ IInv' /\ FullCycle /\ [Next]_vars => FullCycle'
  <2>1. ASSUME FullCycle, UNCHANGED vars PROVE FullCycle'
      BY <2>1, LiveSame DEF vars, mutator, FullCycle, Marked, other
  <2>. QED BY <2>1, FullCycleStep
<1>3. IInv /\ FullCycle /\ [Next]_vars =>
          [op = "full.cycle" /\ op' = "idle" => \A o \in Obj : color'[o] # "free" <=> o \in Live']_vars
  <2>1. SUFFICES ASSUME IInv, FullCycle, Next, op = "full.cycle", op' = "idle"
                 PROVE  \A o \in Obj : color'[o] # "free" <=> o \in Live'
      OBVIOUS
  <2>2. FullGcDone
    <3>1. ~(Mutator \/ IncrementalGc \/ FullGc \/ EmergencySweep \/ ChangeGenGcMode)
        BY <2>1 DEF Mutator, mrb_obj_alloc, DropValue, FiberResume, LoadField, StoreField,
                    StoreBulk, ClearField, FiberYield, IncrementalGc, FullGc, EmergencySweep,
                    ChangeGenGcMode
    <3>2. ~(root_scan_phase \/ FinalRoots \/ gc_mark_gray_list \/ FinalDone)
        BY <2>1 DEF root_scan_phase, FinalRoots, gc_mark_gray_list, FinalDone
    <3>3. ~(incremental_marking_phase \/ \E p \in Page : incremental_sweep_phase(p))
        BY <2>1 DEF incremental_marking_phase, incremental_sweep_phase, MayStop
    <3>4. ~(StepDone \/ MinorDone \/ EmergencyDone \/ HalfBakedDone \/ ClearAllOldDone \/ GenOnDone)
        BY <2>1 DEF StepDone, MinorDone, EmergencyDone, HalfBakedDone, ClearAllOldDone, GenOnDone, SweepEnd
    <3>. QED BY <2>1, <3>1, <3>2, <3>3, <3>4 DEF Next, Collector
  <2>3. state = "SWEEP" /\ unswept = {} /\ UNCHANGED <<mutator, color>>
      BY <2>2 DEF FullGcDone, SweepEnd, marking
  <2>4. \A o \in Obj : color[o] # other
      BY <2>1, <2>3 DEF IInv, SweptClean
  <2>5. \A o \in Obj : color[o] # "free" => o \in Live
      BY <2>1, <2>3, <2>4 DEF FullCycle
  <2>6. \A o \in Live : color[o] # "free"
      BY <2>1, LiveInShield DEF IInv, Shielded, Shield
  <2>. QED BY <2>3, <2>5, <2>6, LiveSame
<1>. QED BY <1>1, <1>2, <1>3, Invariance, PTL DEF Spec, FullGcExact

=============================================================================
