-------------------------- MODULE ClosureEnvProofs --------------------------
(***************************************************************************)
(* Every environment has one owner: the frame it lies on, or itself.  The  *)
(* proof depends on what the collector does to the environments of a       *)
(* context that goes, and of its marking on this: what is on the stack of  *)
(* the root, or of a fiber that is not itself dead, is not dead.           *)
(***************************************************************************)
EXTENDS ClosureEnv, TLAPS, FiniteSetTheorems, SequenceTheorems, WellFoundedInduction

-----------------------------------------------------------------------------
(* The inductive invariant, as a property of the state an operator passes. *)

StateFields == {"fr", "blk", "env", "sv", "c", "gc", "first"}
CxtFields == {"cur", "kind", "held", "svars", "used", "calls", "cycles"}
GcFields == {"phase", "black", "gray", "white"}
EnvFields == {"cxt", "stack", "slot"}

IsSeq(q) == \E T : q \in Seq(T)
HasEnv(f) == "env" \in DOMAIN f /\ f.env \in Env \cup {NULL}
Live(s, e) == s.env[e] # Free
GcTyped(v) == DOMAIN v = GcFields /\ v.phase \in {"idle", "mark", "sweep"}
EnvTyped(v) == DOMAIN v = EnvFields /\ v.cxt \in Context \cup {NULL} /\ v.stack \in BOOLEAN
CxtTyped(v) == DOMAIN v = CxtFields /\ v.cur \in Context /\ v.kind \in {"none", "fiber", "task"} /\ v.held \in BOOLEAN

Typed(s) ==
    /\ DOMAIN s = StateFields /\ GcTyped(s.gc) /\ CxtTyped(s.c)
    /\ DOMAIN s.fr = Context /\ DOMAIN s.blk = Block /\ DOMAIN s.env = Env /\ DOMAIN s.sv = Svar
    /\ \A x \in Context : IsSeq(s.fr[x]) /\ \A i \in DOMAIN s.fr[x] : HasEnv(s.fr[x][i])
    /\ \A e \in Env : Live(s, e) => EnvTyped(s.env[e])

\* Frame i of context x has the env e.
Holds(s, x, i, e) == x \in Context /\ i \in DOMAIN s.fr[x] /\ s.fr[x][i].env = e

\* What the sweep under way has yet to free
DeadOf(s) == IF s.gc.phase = "sweep" THEN s.gc.white ELSE {}

\* An env that is not dead says where it is, those of X excepted, no two frames
\* have one, and one that a frame has was made and not freed, unless the frame is
\* one of a dead fiber.
OnFrames(s, X) == \A e \in Env \ X :
    Live(s, e) /\ E(e) \notin DeadOf(s) /\ s.env[e].cxt # NULL
        => s.env[e].slot = NULL /\ \E i : Holds(s, s.env[e].cxt, i, e)
Closed(s) == \A e \in Env :
    Live(s, e) /\ s.env[e].cxt = NULL => /\ s.env[e].slot # NULL => s.env[e].stack = TRUE
                                         /\ \A x, i : ~Holds(s, x, i, e)
OneHolder(s) == \A e \in Env : \A x, i, y, j : Holds(s, x, i, e) /\ Holds(s, y, j, e) => x = y /\ i = j
HeldMade(s) == \A e \in Env : \A x, i :
    Holds(s, x, i, e) => s.env[e] # Free \/ (x = Fib /\ F \in DeadOf(s))

\* Something runs; Fib has frames only once it was made.
Runs(s) == /\ DOMAIN s.fr[Root] # {} /\ DOMAIN s.fr[s.c.cur] # {}
           /\ s.c.kind = "none" => DOMAIN s.fr[Fib] = {}

\* What is white has been made and is not on the stack of a task, and Fib is
\* among it only as a fiber that nobody can resume.  What is dead is on no stack
\* but that of a dead fiber.
DeadMade(s) == \A e \in Env : E(e) \in s.gc.white => s.env[e] # Free
TaskKept(s) == s.c.kind = "task" => \A e \in Env : \A i : Holds(s, Fib, i, e) => E(e) \notin s.gc.white
FibKept(s) == F \in s.gc.white => s.c.cur = Root /\ s.c.kind = "fiber" /\ s.c.held = FALSE
HeldKept(s) == \A e \in Env : \A x, i :
    Holds(s, x, i, e) /\ E(e) \in DeadOf(s) => x = Fib /\ F \in DeadOf(s)
WhiteCells(s) == s.gc.white \subseteq Cell

\* While marking an object has one colour, and once Fib is black so is what is on
\* its stack, except for what was put there since.
Disjoint(s) == s.gc.phase = "mark" =>
    s.gc.white \cap (s.gc.black \cup s.gc.gray) = {} /\ s.gc.gray \cap s.gc.black = {}
Shaded(s) == s.gc.phase = "mark" /\ F \notin s.gc.white /\ F \notin s.gc.gray =>
    \A e \in Env : \A i : Holds(s, Fib, i, e) => E(e) \notin s.gc.white

DeadSound(s) == /\ DeadMade(s) /\ TaskKept(s) /\ FibKept(s) /\ HeldKept(s) /\ WhiteCells(s)
                /\ Disjoint(s) /\ Shaded(s)

Owned(s, X) == Typed(s) /\ OnFrames(s, X) /\ Closed(s) /\ OneHolder(s) /\ HeldMade(s) /\ Runs(s)
Ok(s, X) == Owned(s, X) /\ DeadSound(s)

\* The frames of x have the envs they had.
SameEnvs(t, s, x) ==
    /\ IsSeq(t.fr[x]) /\ DOMAIN t.fr[x] = DOMAIN s.fr[x]
    /\ \A i \in DOMAIN s.fr[x] : "env" \in DOMAIN t.fr[x][i] /\ t.fr[x][i].env = s.fr[x][i].env

SameCxt(t, s) == CxtTyped(t.c) /\ t.c.cur = s.c.cur /\ t.c.kind = s.c.kind /\ t.c.held = s.c.held

\* t comes from s by steps that pop no frame; Fib as a whole may be gone.
Follows(t, s) ==
    /\ t.c.cur = s.c.cur /\ t.c.kind = s.c.kind
    /\ SameEnvs(t, s, Root) /\ (SameEnvs(t, s, Fib) \/ DOMAIN t.fr[Fib] = {})

\* t comes from s by write barriers.
Barriered(t, s) == /\ t.gc.phase = s.gc.phase /\ t.gc.white = s.gc.white /\ s.gc.gray \subseteq t.gc.gray
                   /\ Disjoint(s) => Disjoint(t)

\* No env changes, and no frame's.
Quiet(t, s) ==
    /\ DOMAIN t = StateFields /\ DOMAIN t.fr = Context /\ t.env = s.env
    /\ DOMAIN t.blk = Block /\ DOMAIN t.sv = Svar
    /\ \A x \in Context : SameEnvs(t, s, x)
    /\ SameCxt(t, s) /\ GcTyped(t.gc)

LEMMA Constants ==
    /\ Context = {Root, Fib} /\ Root # Fib /\ NULL \notin Context /\ NULL \notin Env
    /\ \A e \in Env : E(e) # NULL
    /\ IsFiniteSet(Block) /\ IsFiniteSet(Env) /\ IsFiniteSet(Svar)
    BY ClosureAssumption DEF Context, E

LEMMA States == \A r : DOMAIN r = EnvFields => r # Free
    BY DEF Free, EnvFields

LEMMA BarrieredItself == ASSUME NEW s, NEW t, t.gc = s.gc PROVE Barriered(t, s)
    BY DEF Barriered, Disjoint

LEMMA BarrieredThrough == ASSUME NEW r, NEW t, NEW s, Barriered(r, t), Barriered(t, s) PROVE Barriered(r, s)
    BY DEF Barriered

LEMMA BarrieredDead == ASSUME NEW t, NEW s, Barriered(t, s) PROVE DeadOf(t) = DeadOf(s)
    BY DEF Barriered, DeadOf

LEMMA QuietOwned == ASSUME NEW s, NEW t, NEW X, Owned(s, X), Quiet(t, s), DeadOf(s) \subseteq DeadOf(t)
                    PROVE  Owned(t, X) /\ Follows(t, s) /\ \A x, i, e : Holds(t, x, i, e) <=> Holds(s, x, i, e)
<1>1. \A x, i, e : Holds(t, x, i, e) <=> Holds(s, x, i, e)
    BY DEF Holds, Quiet, SameEnvs
<1>2. \A e : Live(t, e) <=> Live(s, e)
    BY DEF Live, Quiet
<1>3. Typed(t)
  <2>1. \A x \in Context : IsSeq(t.fr[x]) /\ \A i \in DOMAIN t.fr[x] : HasEnv(t.fr[x][i])
      BY DEF Owned, Typed, Quiet, SameEnvs, HasEnv
  <2>. QED BY <1>2, <2>1 DEF Owned, Typed, Quiet, SameCxt
<1>4. OnFrames(t, X) /\ Closed(t) /\ OneHolder(t) /\ HeldMade(t)
    BY <1>1, <1>2 DEF Owned, OnFrames, Closed, OneHolder, HeldMade, Quiet
<1>5. Runs(t)
    BY Constants DEF Owned, Runs, Quiet, SameEnvs, SameCxt, CxtTyped
<1>6. Follows(t, s)
    BY Constants DEF Follows, Quiet, SameCxt
<1>. QED BY <1>1, <1>3, <1>4, <1>5, <1>6 DEF Owned

LEMMA QuietOk == ASSUME NEW s, NEW t, NEW X, Ok(s, X), Quiet(t, s), Barriered(t, s)
                 PROVE  Ok(t, X) /\ Follows(t, s)
<1>0. DeadOf(t) = DeadOf(s)
    BY BarrieredDead
<1>1. Owned(t, X) /\ Follows(t, s) /\ \A x, i, e : Holds(t, x, i, e) <=> Holds(s, x, i, e)
    BY <1>0, QuietOwned DEF Ok
<1>2. DeadMade(t) /\ WhiteCells(t)
    BY DEF Ok, DeadSound, DeadMade, WhiteCells, Quiet, Barriered
<1>3. TaskKept(t) /\ HeldKept(t)
    BY <1>0, <1>1 DEF Ok, DeadSound, TaskKept, HeldKept, Quiet, SameCxt, Barriered
<1>4. FibKept(t)
    BY DEF Ok, DeadSound, FibKept, Quiet, SameCxt, Barriered
<1>5. Disjoint(t) /\ Shaded(t)
    BY <1>1 DEF Ok, DeadSound, Shaded, Barriered
<1>. QED BY <1>1, <1>2, <1>3, <1>4, <1>5 DEF Ok, DeadSound

LEMMA FollowsThrough == ASSUME NEW r, NEW t, NEW s, Follows(r, t), Follows(t, s) PROVE Follows(r, s)
<1>1. \A x : SameEnvs(r, t, x) /\ SameEnvs(t, s, x) => SameEnvs(r, s, x)
    BY DEF SameEnvs
<1>2. SameEnvs(r, t, Fib) /\ DOMAIN t.fr[Fib] = {} => DOMAIN r.fr[Fib] = {}
    BY DEF SameEnvs
<1>. QED BY <1>1, <1>2 DEF Follows

LEMMA FollowsItself == ASSUME NEW s, Typed(s) PROVE Follows(s, s)
    BY Constants DEF Follows, SameEnvs, Typed, HasEnv

LEMMA FollowsHolds == ASSUME NEW t, NEW s, Follows(t, s) PROVE \A x, i, e : Holds(t, x, i, e) => Holds(s, x, i, e)
    BY Constants DEF Follows, SameEnvs, Holds

\* A state with the frames and envs of s
LEMMA SameFrames ==
    ASSUME NEW s, Typed(s), NEW t, DOMAIN t = StateFields, t.fr = s.fr, t.env = s.env,
           DOMAIN t.blk = Block, DOMAIN t.sv = Svar, SameCxt(t, s), GcTyped(t.gc)
    PROVE  Quiet(t, s)
<1>1. \A x \in Context : SameEnvs(t, s, x)
    BY DEF SameEnvs, Typed, HasEnv
<1>. QED BY <1>1 DEF Quiet, Typed

-----------------------------------------------------------------------------
(* Sequences of frames.                                                    *)

LEMMA SeqFacts ==
    ASSUME NEW q, IsSeq(q)
    PROVE  Len(q) \in Nat /\ DOMAIN q = 1 .. Len(q)
    BY DEF IsSeq

LEMMA EmptyDomain == ASSUME NEW q, IsSeq(q), DOMAIN q = {} PROVE q = << >>
<1>1. PICK T : q \in Seq(T)
    BY DEF IsSeq
<1>2. Len(q) \in Nat /\ DOMAIN q = 1 .. Len(q)
    BY SeqFacts
<1>3. Len(q) = 0
  <2>1. SUFFICES ASSUME Len(q) # 0 PROVE FALSE
      OBVIOUS
  <2>2. 1 \in 1 .. Len(q)
      BY <1>2, <2>1
  <2>. QED BY <1>2, <2>2
<1>. QED BY <1>1, <1>3, EmptySeq

LEMMA IndexedIsSeq ==
    ASSUME NEW n \in Nat, NEW r, NEW W, r \in [1 .. n -> W]
    PROVE  IsSeq(r) /\ Len(r) = n /\ DOMAIN r = 1 .. n
<1>1. \A i \in 1 .. n : r[i] \in W
    OBVIOUS
<1>2. r \in Seq(W)
    BY <1>1
<1>3. DOMAIN r = 1 .. n /\ Len(r) \in Nat /\ DOMAIN r = 1 .. Len(r)
    BY <1>2
<1>4. Len(r) = n
    BY <1>3
<1>. QED BY <1>2, <1>3, <1>4 DEF IsSeq

\* A function on the indices of a sequence is a sequence.
LEMMA SeqLike == ASSUME NEW q, IsSeq(q), NEW r, NEW W, r \in [DOMAIN q -> W] PROVE IsSeq(r)
<1>1. PICK n \in Nat : DOMAIN q = 1 .. n
    BY SeqFacts
<1>2. r \in [1 .. n -> W]
    BY <1>1
<1>. QED BY <1>2, IndexedIsSeq, Zenon

LEMMA EmptyIsSeq == IsSeq(<< >>) /\ DOMAIN << >> = {}
<1>1. << >> \in Seq({})
    BY EmptySeq
<1>. QED BY <1>1 DEF IsSeq

LEMMA AppendSeq ==
    ASSUME NEW q, IsSeq(q), NEW f
    PROVE  /\ IsSeq(Append(q, f)) /\ DOMAIN Append(q, f) = 1 .. Len(q) + 1
           /\ \A i \in 1 .. Len(q) : Append(q, f)[i] = q[i]
           /\ Append(q, f)[Len(q) + 1] = f
<1>1. PICK T : q \in Seq(T)
    BY DEF IsSeq
<1>2. q \in Seq(T \cup {f}) /\ f \in T \cup {f}
    BY <1>1, SeqMonotonic
<1>3. /\ Append(q, f) \in Seq(T \cup {f}) /\ Len(Append(q, f)) = Len(q) + 1
      /\ \A i \in 1 .. Len(q) : Append(q, f)[i] = q[i]
      /\ Append(q, f)[Len(q) + 1] = f
    BY <1>2, AppendProperties
<1>4. DOMAIN Append(q, f) = 1 .. Len(q) + 1
    BY <1>3
<1>. QED BY <1>3, <1>4 DEF IsSeq

LEMMA FrontSeq ==
    ASSUME NEW q, IsSeq(q)
    PROVE  /\ IsSeq(Front(q)) /\ DOMAIN Front(q) = 1 .. Len(q) - 1
           /\ \A i \in 1 .. Len(q) - 1 : Front(q)[i] = q[i]
           /\ q = << >> => Front(q) = << >>
<1>1. PICK T : q \in Seq(T)
    BY DEF IsSeq
<1>2. Len(q) \in Nat /\ Len(q) - 1 \in Int /\ \A i \in 1 .. Len(q) - 1 : q[i] \in T
    BY <1>1
<1>. DEFINE r == SubSeq(q, 1, Len(q) - 1)
<1>3. /\ r \in Seq(T) /\ Len(r) = IF 1 <= Len(q) - 1 THEN Len(q) - 1 - 1 + 1 ELSE 0
      /\ \A i \in 1 .. Len(q) - 1 - 1 + 1 : r[i] = q[1 + i - 1]
    BY <1>2, SubSeqProperties
<1>4. Front(q) = r
    BY DEF Front
<1>. HIDE DEF r
<1>5. 1 .. Len(r) = 1 .. Len(q) - 1
    BY <1>2, <1>3
<1>6. DOMAIN r = 1 .. Len(q) - 1 /\ \A i \in 1 .. Len(q) - 1 : r[i] = q[i]
    BY <1>2, <1>3, <1>5
<1>7. q = << >> => r = << >>
  <2>. SUFFICES ASSUME q = << >> PROVE r = << >>
      OBVIOUS
  <2>1. Len(q) = 0
      OBVIOUS
  <2>2. Len(r) = 0
      BY <1>3, <2>1
  <2>. QED BY <1>3, <2>2, EmptySeq
<1>. QED BY <1>3, <1>4, <1>6, <1>7 DEF IsSeq


-----------------------------------------------------------------------------
(* Steps that leave the envs and the frames' envs alone.                   *)

Shaped(s) == DOMAIN s = StateFields /\ GcTyped(s.gc)

LEMMA BarrierIs ==
    ASSUME NEW s, Shaped(s), NEW r, NEW t, t = mrb_write_barrier(s, r)
    PROVE  /\ Shaped(t) /\ Barriered(t, s)
           /\ t.fr = s.fr /\ t.env = s.env /\ t.blk = s.blk /\ t.sv = s.sv /\ t.c = s.c
<1>1. CASE ~(s.gc.phase = "mark" /\ r \in s.gc.black)
  <2>1. t = s
      BY <1>1 DEF mrb_write_barrier
  <2>. QED BY <2>1, BarrieredItself
<1>2. CASE s.gc.phase = "mark" /\ r \in s.gc.black
  <2>1. t = [s EXCEPT !.gc.black = @ \ {r}, !.gc.gray = @ \cup {r}]
      BY <1>2 DEF mrb_write_barrier
  <2>2. /\ DOMAIN t = StateFields /\ t.gc = [s.gc EXCEPT !.black = @ \ {r}, !.gray = @ \cup {r}]
        /\ t.fr = s.fr /\ t.env = s.env /\ t.blk = s.blk /\ t.sv = s.sv /\ t.c = s.c
      BY <2>1 DEF Shaped, StateFields
  <2>3. /\ DOMAIN t.gc = GcFields /\ t.gc.phase = s.gc.phase /\ t.gc.white = s.gc.white
        /\ t.gc.black = s.gc.black \ {r} /\ t.gc.gray = s.gc.gray \cup {r}
      BY <2>2 DEF Shaped, GcTyped, GcFields
  <2>4. Barriered(t, s)
      BY <1>2, <2>3 DEF Barriered, Disjoint
  <2>. QED BY <2>2, <2>3, <2>4 DEF Shaped, GcTyped
<1>. QED BY <1>1, <1>2

LEMMA BarrierQuiet ==
    ASSUME NEW s, Typed(s), NEW r
    PROVE  Quiet(mrb_write_barrier(s, r), s) /\ Barriered(mrb_write_barrier(s, r), s)
<1>1. PICK t : t = mrb_write_barrier(s, r)
    OBVIOUS
<1>2. /\ Shaped(t) /\ Barriered(t, s)
      /\ t.fr = s.fr /\ t.env = s.env /\ t.blk = s.blk /\ t.sv = s.sv /\ t.c = s.c
    BY <1>1, BarrierIs DEF Typed, Shaped
<1>3. Quiet(t, s)
    BY <1>2, SameFrames DEF Typed, SameCxt, Shaped
<1>. QED BY <1>1, <1>2, <1>3

LEMMA SetOnFrameQuiet ==
    ASSUME NEW s, Typed(s), NEW x, NEW i, NEW ref
    PROVE  Quiet(SetOnFrame(s, x, i, ref), s) /\ SetOnFrame(s, x, i, ref).gc = s.gc
<1>. DEFINE t == SetOnFrame(s, x, i, ref)
            fs == [s.fr EXCEPT ![x][i].sv = ref]
<1>1. /\ DOMAIN t = StateFields /\ t.fr = fs /\ t.env = s.env /\ t.blk = s.blk /\ t.sv = s.sv
      /\ t.gc = s.gc
    BY DEF SetOnFrame, Typed, StateFields
<1>2. t.c = [s.c EXCEPT !.used = TRUE, !.svars = @ \/ x = Fib]
    BY DEF SetOnFrame, Typed, StateFields
<1>. HIDE DEF t
<1>3. SameCxt(t, s)
    BY <1>2 DEF SameCxt, Typed, CxtTyped, CxtFields
<1>4. ASSUME NEW y \in Context PROVE SameEnvs(t, s, y)
  <2>1. DOMAIN fs[y] = DOMAIN s.fr[y]
      BY DEF Typed
  <2>2. \A j \in DOMAIN s.fr[y] : "env" \in DOMAIN fs[y][j] /\ fs[y][j].env = s.fr[y][j].env
      BY DEF Typed, HasEnv
  <2>3. fs[y] \in [DOMAIN s.fr[y] -> {fs[y][j] : j \in DOMAIN s.fr[y]}]
    <3>1. fs[y] = s.fr[y] \/ fs[y] = [s.fr[y] EXCEPT ![i].sv = ref]
        BY DEF Typed
    <3>2. fs[y] = [j \in DOMAIN s.fr[y] |-> fs[y][j]]
      <4>1. IsSeq(s.fr[y])
          BY DEF Typed
      <4>2. s.fr[y] = [j \in DOMAIN s.fr[y] |-> s.fr[y][j]]
          BY <4>1 DEF IsSeq
      <4>. QED BY <3>1, <4>2
    <3>. HIDE DEF fs
    <3>. QED BY <3>2
  <2>. HIDE DEF fs
  <2>4. IsSeq(fs[y])
      BY <2>3, SeqLike, Zenon DEF Typed
  <2>. QED BY <1>1, <2>1, <2>2, <2>4 DEF SameEnvs
<1>5. DOMAIN fs = Context
    BY DEF Typed
<1>. HIDE DEF fs
<1>. QED BY <1>1, <1>3, <1>4, <1>5 DEF Quiet, Typed, t

LEMMA StashedQuiet ==
    ASSUME NEW s, Typed(s), NEW scanned
    PROVE  Quiet(Stashed(s, scanned), s) /\ Stashed(s, scanned).c = s.c /\ Stashed(s, scanned).gc = s.gc
<1>. DEFINE t == Stashed(s, scanned)
            q == s.fr[Fib]
            r == [i \in DOMAIN q |->
                    IF s.c.svars /\ i > 1 /\ q[i].env # NULL /\ EnvRef(q[i].env) \in scanned
                    THEN [q[i] EXCEPT !.sv = mrb_svar_frame_container(s, Fib, i)] ELSE q[i]]
<1>1. /\ DOMAIN t = StateFields /\ t.fr = [s.fr EXCEPT ![Fib] = r] /\ t.env = s.env /\ t.blk = s.blk /\ t.sv = s.sv
      /\ t.c = s.c /\ t.gc = s.gc
    BY DEF Stashed, Typed, StateFields
<1>2. IsSeq(q) /\ \A i \in DOMAIN q : HasEnv(q[i])
    BY Constants DEF Typed
<1>3. DOMAIN r = DOMAIN q /\ \A i \in DOMAIN q : "env" \in DOMAIN r[i] /\ r[i].env = q[i].env
    BY <1>2 DEF HasEnv
<1>4. r \in [DOMAIN q -> {r[i] : i \in DOMAIN q}]
    OBVIOUS
<1>. HIDE DEF t, r
<1>5. IsSeq(r)
    BY <1>2, <1>4, SeqLike, Zenon
<1>6. ASSUME NEW y \in Context PROVE SameEnvs(t, s, y)
  <2>1. CASE y = Fib
      BY <1>1, <1>3, <1>5, <2>1 DEF SameEnvs, Typed
  <2>2. CASE y # Fib
    <3>1. t.fr[y] = s.fr[y]
        BY <1>1, <2>2 DEF Typed
    <3>. QED BY <3>1 DEF SameEnvs, Typed, HasEnv
  <2>. QED BY <2>1, <2>2
<1>7. DOMAIN t.fr = Context /\ SameCxt(t, s)
    BY <1>1 DEF Typed, SameCxt
<1>8. Quiet(t, s)
    BY <1>1, <1>6, <1>7 DEF Quiet, Typed
<1>. QED BY <1>1, <1>8 DEF t

-----------------------------------------------------------------------------
(* The recursions: a loop of so many turns has a result.                   *)

\* Every set of numbers that is not empty has a least member.
LEMMA LeastMember ==
    ASSUME NEW M \in SUBSET Nat, M # {}
    PROVE  \E n \in M : \A m \in M : n <= m
<1>1. PICK n \in M : \A m \in M : ~(<<m, n>> \in OpToRel(<, Nat))
    BY WFMin, NatLessThanWellFounded
<1>2. \A m \in M : ~(m < n)
    BY <1>1 DEF OpToRel
<1>. QED BY <1>2

\* A set that holds 0 and, with a number, the next one holds every number.
LEMMA InductionInSet ==
    ASSUME NEW X, 0 \in X, \A n \in Nat : n \in X => n + 1 \in X
    PROVE  \A n \in Nat : n \in X
<1>. DEFINE M == {n \in Nat : n \notin X}
<1>1. SUFFICES ASSUME M # {} PROVE FALSE
    OBVIOUS
<1>2. M \in SUBSET Nat
    OBVIOUS
<1>3. PICK n \in M : \A m \in M : n <= m
    BY <1>1, <1>2, LeastMember
<1>4. n \in Nat /\ n \notin X
    BY <1>3
<1>5. n # 0
    BY <1>4
<1>6. n - 1 \in Nat /\ n - 1 + 1 = n /\ ~(n <= n - 1)
    BY <1>4, <1>5
<1>7. n - 1 \notin M
    BY <1>3, <1>6
<1>8. n - 1 \in X
    BY <1>6, <1>7
<1>. QED BY <1>4, <1>6, <1>8

\* The turns of Reach()
MarkTurn(s, white, m) ==
    [seen |-> m.seen \cup m.more,
     more |-> (UNION {Children(s, r) : r \in m.more \cap white}) \ (m.seen \cup m.more)]
Marking(d, s, roots, white, n) ==
    d = [m \in 0 .. n |-> IF m = 0 THEN [seen |-> {}, more |-> roots] ELSE MarkTurn(s, white, d[m - 1])]

LEMMA MarkingExists == ASSUME NEW s, NEW roots, NEW white PROVE \A n \in Nat : \E d : Marking(d, s, roots, white, n)
<1>. DEFINE M == {n \in Nat : \E d : Marking(d, s, roots, white, n)}
            z == [seen |-> {}, more |-> roots]
<1>1. 0 \in M
  <2>. DEFINE d == [m \in 0 .. 0 |-> z]
  <2>1. Marking(d, s, roots, white, 0)
      BY DEF Marking
  <2>. QED BY <2>1
<1>2. ASSUME NEW n \in Nat, n \in M PROVE n + 1 \in M
  <2>1. PICK d : Marking(d, s, roots, white, n)
      BY <1>2
  <2>. HIDE DEF z
  <2>. DEFINE f == [m \in 0 .. n + 1 |-> IF m <= n THEN d[m] ELSE MarkTurn(s, white, d[n])]
  <2>2. ASSUME NEW m \in 0 .. n + 1 PROVE f[m] = IF m = 0 THEN z ELSE MarkTurn(s, white, f[m - 1])
    <3>1. CASE m = 0
        BY <2>1, <3>1 DEF Marking, z
    <3>2. CASE m # 0 /\ m <= n
      <4>1. m \in 0 .. n /\ m - 1 \in 0 .. n + 1 /\ m - 1 <= n
          BY <3>2
      <4>2. f[m] = d[m] /\ f[m - 1] = d[m - 1]
          BY <3>2, <4>1
      <4>3. d[m] = MarkTurn(s, white, d[m - 1])
          BY <2>1, <3>2, <4>1 DEF Marking
      <4>. QED BY <3>2, <4>2, <4>3
    <3>3. CASE m = n + 1
      <4>1. m - 1 = n /\ n \in 0 .. n + 1 /\ m # 0 /\ ~(n + 1 <= n)
          BY <3>3
      <4>2. f[n] = d[n] /\ f[n + 1] = MarkTurn(s, white, d[n])
          BY <4>1
      <4>. QED BY <3>3, <4>1, <4>2
    <3>. QED BY <3>1, <3>2, <3>3
  <2>3. f = [m \in 0 .. n + 1 |-> IF m = 0 THEN z ELSE MarkTurn(s, white, f[m - 1])]
      BY <2>2
  <2>. HIDE DEF f
  <2>4. Marking(f, s, roots, white, n + 1)
      BY <2>3 DEF Marking, z
  <2>. QED BY <2>4
<1>. HIDE DEF M
<1>3. \A n \in Nat : n \in M
    BY <1>1, <1>2, InductionInSet
<1>. QED BY <1>3 DEF M

\* The turns of svar_owner_from()
OwnerTurn(s, x, at) ==
    IF at.at # "frame" THEN at
    ELSE IF at.i = 0 THEN Nowhere
    ELSE IF at.i = 1 \/ s.fr[at.cxt][at.i].proc = Method THEN at
    ELSE NextOwner(s, x, at, s.fr[at.cxt][at.i].proc)
Walking(d, s, x, from, n) == d = [m \in 0 .. n |-> IF m = 0 THEN from ELSE OwnerTurn(s, x, d[m - 1])]

LEMMA WalkingExists == ASSUME NEW s, NEW x, NEW from PROVE \A n \in Nat : \E d : Walking(d, s, x, from, n)
<1>. DEFINE M == {n \in Nat : \E d : Walking(d, s, x, from, n)}
            z == from
<1>1. 0 \in M
  <2>. DEFINE d == [m \in 0 .. 0 |-> z]
  <2>1. Walking(d, s, x, from, 0)
      BY DEF Walking
  <2>. QED BY <2>1
<1>2. ASSUME NEW n \in Nat, n \in M PROVE n + 1 \in M
  <2>1. PICK d : Walking(d, s, x, from, n)
      BY <1>2
  <2>. HIDE DEF z
  <2>. DEFINE f == [m \in 0 .. n + 1 |-> IF m <= n THEN d[m] ELSE OwnerTurn(s, x, d[n])]
  <2>2. ASSUME NEW m \in 0 .. n + 1 PROVE f[m] = IF m = 0 THEN z ELSE OwnerTurn(s, x, f[m - 1])
    <3>1. CASE m = 0
        BY <2>1, <3>1 DEF Walking, z
    <3>2. CASE m # 0 /\ m <= n
      <4>1. m \in 0 .. n /\ m - 1 \in 0 .. n + 1 /\ m - 1 <= n
          BY <3>2
      <4>2. f[m] = d[m] /\ f[m - 1] = d[m - 1]
          BY <3>2, <4>1
      <4>3. d[m] = OwnerTurn(s, x, d[m - 1])
          BY <2>1, <3>2, <4>1 DEF Walking
      <4>. QED BY <3>2, <4>2, <4>3
    <3>3. CASE m = n + 1
      <4>1. m - 1 = n /\ n \in 0 .. n + 1 /\ m # 0 /\ ~(n + 1 <= n)
          BY <3>3
      <4>2. f[n] = d[n] /\ f[n + 1] = OwnerTurn(s, x, d[n])
          BY <4>1
      <4>. QED BY <3>3, <4>1, <4>2
    <3>. QED BY <3>1, <3>2, <3>3
  <2>3. f = [m \in 0 .. n + 1 |-> IF m = 0 THEN z ELSE OwnerTurn(s, x, f[m - 1])]
      BY <2>2
  <2>. HIDE DEF f
  <2>4. Walking(f, s, x, from, n + 1)
      BY <2>3 DEF Walking, z
  <2>. QED BY <2>4
<1>. HIDE DEF M
<1>3. \A n \in Nat : n \in M
    BY <1>1, <1>2, InductionInSet
<1>. QED BY <1>3 DEF M

\* The turns of mrb_env_detach_all()
Alive(s, r) == IF r \in {E(e) : e \in Env} \cap s.gc.white THEN NULL ELSE r
Carried(s, resolve, t, i) == IF i = 1 THEN NULL
                             ELSE IF resolve THEN Alive(s, mrb_svar_frame_container(t, Fib, i))
                             ELSE t.fr[Fib][i].sv
DetachTurn(s, resolve, fails, t, i) ==
    IF t.fr[Fib][i].env = NULL \/ mrb_object_dead_p(t, t.fr[Fib][i].env) \/ ~Onstack(t, t.fr[Fib][i].env) THEN t
    ELSE mrb_env_detach(t, t.fr[Fib][i].env, Carried(s, resolve, t, i), fails)
Detaching(d, s, resolve, fails, walk, n) ==
    d = [m \in 0 .. n |-> IF m = 0 THEN s ELSE DetachTurn(s, resolve, fails, d[m - 1], walk[m])]

LEMMA DetachingExists == ASSUME NEW s, NEW resolve, NEW fails, NEW walk PROVE \A n \in Nat : \E d : Detaching(d, s, resolve, fails, walk, n)
<1>. DEFINE M == {n \in Nat : \E d : Detaching(d, s, resolve, fails, walk, n)}
            z == s
<1>1. 0 \in M
  <2>. DEFINE d == [m \in 0 .. 0 |-> z]
  <2>1. Detaching(d, s, resolve, fails, walk, 0)
      BY DEF Detaching
  <2>. QED BY <2>1
<1>2. ASSUME NEW n \in Nat, n \in M PROVE n + 1 \in M
  <2>1. PICK d : Detaching(d, s, resolve, fails, walk, n)
      BY <1>2
  <2>. HIDE DEF z
  <2>. DEFINE f == [m \in 0 .. n + 1 |-> IF m <= n THEN d[m] ELSE DetachTurn(s, resolve, fails, d[n], walk[n + 1])]
  <2>2. ASSUME NEW m \in 0 .. n + 1 PROVE f[m] = IF m = 0 THEN z ELSE DetachTurn(s, resolve, fails, f[m - 1], walk[m])
    <3>1. CASE m = 0
        BY <2>1, <3>1 DEF Detaching, z
    <3>2. CASE m # 0 /\ m <= n
      <4>1. m \in 0 .. n /\ m - 1 \in 0 .. n + 1 /\ m - 1 <= n
          BY <3>2
      <4>2. f[m] = d[m] /\ f[m - 1] = d[m - 1]
          BY <3>2, <4>1
      <4>3. d[m] = DetachTurn(s, resolve, fails, d[m - 1], walk[m])
          BY <2>1, <3>2, <4>1 DEF Detaching
      <4>. QED BY <3>2, <4>2, <4>3
    <3>3. CASE m = n + 1
      <4>1. m - 1 = n /\ n \in 0 .. n + 1 /\ m # 0 /\ ~(n + 1 <= n)
          BY <3>3
      <4>2. f[n] = d[n] /\ f[n + 1] = DetachTurn(s, resolve, fails, d[n], walk[n + 1])
          BY <4>1
      <4>. QED BY <3>3, <4>1, <4>2
    <3>. QED BY <3>1, <3>2, <3>3
  <2>3. f = [m \in 0 .. n + 1 |-> IF m = 0 THEN z ELSE DetachTurn(s, resolve, fails, f[m - 1], walk[m])]
      BY <2>2
  <2>. HIDE DEF f
  <2>4. Detaching(f, s, resolve, fails, walk, n + 1)
      BY <2>3 DEF Detaching, z
  <2>. QED BY <2>4
<1>. HIDE DEF M
<1>3. \A n \in Nat : n \in M
    BY <1>1, <1>2, InductionInSet
<1>. QED BY <1>3 DEF M

-----------------------------------------------------------------------------
(* Marking.                                                                *)

LEMMA ReachIs ==
    ASSUME NEW s, NEW roots, NEW white, Cardinality(white) \in Nat
    PROVE  \E d : Marking(d, s, roots, white, Cardinality(white) + 1)
                  /\ Reach(s, roots, white) = d[Cardinality(white) + 1].seen
<1>. DEFINE N == Cardinality(white) + 1
            d == CHOOSE d : Marking(d, s, roots, white, N)
<1>1. Marking(d, s, roots, white, N)
    BY MarkingExists
<1>2. Reach(s, roots, white) = d[N].seen
    BY DEF Reach, Marking, MarkTurn
<1>. HIDE DEF d
<1>. QED BY <1>1, <1>2

LEMMA RootsReached ==
    ASSUME NEW s, NEW roots, NEW white, Cardinality(white) \in Nat
    PROVE  roots \subseteq Reach(s, roots, white)
<1>. DEFINE N == Cardinality(white) + 1
<1>1. PICK d : Marking(d, s, roots, white, N) /\ Reach(s, roots, white) = d[N].seen
    BY ReachIs
<1>. DEFINE M == {n \in Nat : n + 1 <= N => roots \subseteq d[n + 1].seen}
<1>2. 0 \in M
  <2>1. PICK i \in 0 .. N, j \in 0 .. N : i = 0 /\ j = 1 /\ j # 0 /\ j - 1 = 0 /\ 0 + 1 = j
      OBVIOUS
  <2>2. d[i] = [seen |-> {}, more |-> roots] /\ d[j] = MarkTurn(s, white, d[j - 1])
      BY <1>1, <2>1 DEF Marking
  <2>3. d[i].more = roots /\ d[j].seen = d[i].seen \cup d[i].more
      BY <2>1, <2>2 DEF MarkTurn
  <2>. QED BY <2>1, <2>3
<1>3. ASSUME NEW n \in Nat, n \in M PROVE n + 1 \in M
  <2>. SUFFICES ASSUME n + 1 + 1 <= N PROVE roots \subseteq d[n + 1 + 1].seen
      OBVIOUS
  <2>1. roots \subseteq d[n + 1].seen
      BY <1>3
  <2>2. PICK j \in 0 .. N : j = n + 1 + 1 /\ j # 0 /\ j - 1 = n + 1
      OBVIOUS
  <2>3. d[j] = MarkTurn(s, white, d[j - 1])
      BY <1>1, <2>2 DEF Marking
  <2>. QED BY <2>1, <2>2, <2>3 DEF MarkTurn
<1>. HIDE DEF M
<1>4. \A n \in Nat : n \in M
    BY <1>2, <1>3, InductionInSet
<1>5. roots \subseteq d[N].seen
    BY <1>4 DEF M
<1>. QED BY <1>1, <1>5

\* What a white object that is reached refers to is reached, if it is white: as
\* long as there is more to visit every turn visits a white object.
LEMMA ReachClosed ==
    ASSUME NEW s, NEW roots, NEW white, IsFiniteSet(white), NEW r \in Reach(s, roots, white) \cap white
    PROVE  Children(s, r) \cap white \subseteq Reach(s, roots, white)
<1>0. Cardinality(white) \in Nat
    BY FS_CardinalityType
<1>. DEFINE N == Cardinality(white) + 1
<1>1. PICK d : Marking(d, s, roots, white, N) /\ Reach(s, roots, white) = d[N].seen
    BY <1>0, ReachIs
<1>. DEFINE Visits(m, n) ==
        /\ m.more \cap m.seen = {}
        /\ m.more \cap white # {} => n <= Cardinality(m.seen \cap white)
        /\ \A x \in m.seen \cap white : Children(s, x) \subseteq m.seen \cup m.more
<1>. DEFINE M == {n \in Nat : n <= N => Visits(d[n], n)}
<1>2. 0 \in M
  <2>1. d[0] = [seen |-> {}, more |-> roots]
      BY <1>0, <1>1 DEF Marking
  <2>2. d[0].seen = {} /\ Cardinality({}) = 0
      BY <2>1, FS_EmptySet
  <2>3. d[0].seen \cap white = {}
      BY <2>2
  <2>4. Visits(d[0], 0)
      BY <2>2, <2>3
  <2>. QED BY <2>4
<1>3. ASSUME NEW n \in Nat, n \in M PROVE n + 1 \in M
  <2>. SUFFICES ASSUME n + 1 <= N PROVE Visits(d[n + 1], n + 1)
      OBVIOUS
  <2>1. PICK m : m = d[n]
      OBVIOUS
  <2>2. PICK k : k = d[n + 1]
      OBVIOUS
  <2>3. Visits(m, n)
      BY <1>0, <1>3, <2>1
  <2>4. k = MarkTurn(s, white, m)
    <3>1. PICK j \in 0 .. N : j = n + 1 /\ j # 0 /\ j - 1 = n
        BY <1>0
    <3>2. d[j] = MarkTurn(s, white, d[j - 1])
        BY <1>1, <3>1 DEF Marking
    <3>. QED BY <2>1, <2>2, <3>1, <3>2
  <2>a. PICK found : found = UNION {Children(s, x) : x \in m.more \cap white}
      OBVIOUS
  <2>b. \A x \in m.more \cap white : Children(s, x) \subseteq found
      BY <2>a
  <2>c. found # {} => m.more \cap white # {}
      BY <2>a
  <2>5. k.seen = m.seen \cup m.more /\ k.more = found \ (m.seen \cup m.more)
      BY <2>4, <2>a DEF MarkTurn
  <2>6. k.more \cap white # {} => n + 1 <= Cardinality(k.seen \cap white)
    <3>. SUFFICES ASSUME k.more \cap white # {} PROVE n + 1 <= Cardinality(k.seen \cap white)
        OBVIOUS
    <3>1. PICK x : x \in m.more \cap white
        BY <2>c, <2>5
    <3>2. n <= Cardinality(m.seen \cap white) /\ x \notin m.seen
        BY <2>3, <3>1
    <3>3. m.seen \cap white \in SUBSET white /\ k.seen \cap white \in SUBSET white
        OBVIOUS
    <3>4. IsFiniteSet(m.seen \cap white) /\ IsFiniteSet(k.seen \cap white)
        BY <3>3, FS_Subset
    <3>5. Cardinality((m.seen \cap white) \cup {x}) = Cardinality(m.seen \cap white) + 1
        BY <3>2, <3>4, FS_AddElement
    <3>6. (m.seen \cap white) \cup {x} \in SUBSET (k.seen \cap white)
        BY <2>5, <3>1
    <3>7. Cardinality((m.seen \cap white) \cup {x}) <= Cardinality(k.seen \cap white)
        BY <3>4, <3>6, FS_Subset
    <3>8. Cardinality(m.seen \cap white) \in Nat /\ Cardinality(k.seen \cap white) \in Nat
        BY <3>4, FS_CardinalityType
    <3>. QED BY <3>2, <3>5, <3>7, <3>8
  <2>7. \A x \in k.seen \cap white : Children(s, x) \subseteq k.seen \cup k.more
    <3>. SUFFICES ASSUME NEW x \in k.seen \cap white PROVE Children(s, x) \subseteq k.seen \cup k.more
        OBVIOUS
    <3>1. CASE x \in m.seen
        BY <2>3, <2>5, <3>1
    <3>2. CASE x \in m.more
        BY <2>b, <2>5, <3>2
    <3>. QED BY <2>5, <3>1, <3>2
  <2>d. k.more \cap k.seen = {}
      BY <2>5
  <2>8. Visits(k, n + 1)
      BY ONLY <2>d, <2>6, <2>7, Zenon
  <2>. QED BY <2>2, <2>8
<1>. HIDE DEF M
<1>4. \A n \in Nat : n \in M
    BY <1>2, <1>3, InductionInSet
<1>5. Visits(d[N], N)
  <2>. HIDE DEF Visits
  <2>1. N \in Nat /\ N <= N
      BY <1>0
  <2>2. N \in M
      BY <1>4, <2>1
  <2>. QED BY <2>1, <2>2 DEF M
<1>6. d[N].more \cap white = {}
  <2>. SUFFICES ASSUME d[N].more \cap white # {} PROVE FALSE
      OBVIOUS
  <2>1. N <= Cardinality(d[N].seen \cap white)
      BY <1>5
  <2>2. d[N].seen \cap white \in SUBSET white
      OBVIOUS
  <2>3. Cardinality(d[N].seen \cap white) <= Cardinality(white) /\ Cardinality(d[N].seen \cap white) \in Nat
      BY <2>2, FS_Subset, FS_CardinalityType
  <2>. QED BY <1>0, <2>1, <2>3
<1>7. Children(s, r) \subseteq d[N].seen \cup d[N].more
    BY <1>1, <1>5
<1>. QED BY <1>1, <1>6, <1>7

Tagged(k, X) == {<<k, x>> : x \in X}
LEMMA TaggedFinite == ASSUME NEW X, IsFiniteSet(X), NEW k PROVE IsFiniteSet(Tagged(k, X))
<1>. DEFINE f == [x \in X |-> <<k, x>>]
            Y == Tagged(k, X)
<1>1. f \in Surjection(X, Y)
    BY DEF Surjection, Tagged
<1>. HIDE DEF f, Y
<1>2. IsFiniteSet(Y)
    BY <1>1, FS_Surjection
<1>. QED BY <1>2 DEF Y

LEMMA AllocatedFinite ==
    ASSUME NEW s, Typed(s), NEW X
    PROVE  IsFiniteSet(Allocated(s) \ X) /\ Cardinality(Allocated(s) \ X) \in Nat
<1>. DEFINE P == Tagged("blk", Block)
            Q == Tagged("env", Env)
            R == Tagged("svar", Svar)
<1>1. IsFiniteSet(P) /\ IsFiniteSet(Q) /\ IsFiniteSet(R) /\ IsFiniteSet({F})
    BY Constants, TaggedFinite, FS_Singleton
<1>2. Allocated(s) \subseteq P \cup Q \cup R \cup {F}
    BY DEF Allocated, InUse, B, E, S, F, Typed, Tagged
<1>. HIDE DEF P, Q, R
<1>3. IsFiniteSet(P \cup Q \cup R \cup {F})
    BY <1>1, FS_Union
<1>4. Allocated(s) \ X \in SUBSET (P \cup Q \cup R \cup {F})
    BY <1>2
<1>5. IsFiniteSet(Allocated(s) \ X)
    BY <1>3, <1>4, FS_Subset
<1>. QED BY <1>5, FS_CardinalityType

LEMMA HeldRefs == ASSUME NEW s, NEW x, NEW i, NEW e \in Env, Holds(s, x, i, e) PROVE E(e) \in FrameRefs(s, x)
    BY Constants DEF FrameRefs, Holds, Refs, EnvRef

LEMMA RootHeld == ASSUME NEW s, NEW i, NEW e \in Env, Holds(s, Root, i, e) PROVE E(e) \in GcRoots(s)
    BY HeldRefs DEF GcRoots

LEMMA FibChildren ==
    /\ F \notin Leaf /\ \A e \in Env : E(e) \notin Leaf /\ E(e) # F
    /\ \A s : Children(s, F) = FrameRefs(s, Fib)
<1>1. F[1] = "fib"
    BY DEF F
<1>. QED BY <1>1 DEF F, Leaf, E, S, Children

LEMMA AllocatedIs ==
    ASSUME NEW s, Typed(s)
    PROVE  /\ Allocated(s) \subseteq Cell
           /\ \A e \in Env : E(e) \in Allocated(s) <=> s.env[e] # Free
           /\ F \in Allocated(s) <=> DOMAIN s.fr[Fib] # {}
<1>1. s.fr[Fib] = << >> <=> DOMAIN s.fr[Fib] = {}
    BY EmptyDomain, EmptyIsSeq, Constants DEF Typed
<1>2. Allocated(s) \subseteq Cell
    BY DEF Allocated, InUse, Typed, Cell
<1>3. \A e \in Env : E(e) \in Allocated(s) <=> s.env[e] # Free
    BY DEF Allocated, InUse, B, E, S, F, Typed
<1>4. F \in Allocated(s) <=> DOMAIN s.fr[Fib] # {}
    BY <1>1 DEF Allocated, B, E, S, F
<1>. QED BY <1>2, <1>3, <1>4

\* The white objects are what the roots do not name.
LEMMA RootScanOk ==
    ASSUME NEW s, NEW X, Ok(s, X), s.gc.phase = "idle", NEW t, t = RootScan(s)
    PROVE  Ok(t, X) /\ Follows(t, s) /\ t.gc.phase = "mark"
<1>1. PICK g : g = [phase |-> "mark", black |-> GcRoots(s) \cap Leaf, gray |-> GcRoots(s) \ Leaf,
                    white |-> Allocated(s) \ GcRoots(s)]
    OBVIOUS
<1>2. t = [s EXCEPT !.c.cycles = IF @ < MaxCycles THEN @ + 1 ELSE @, !.gc = g]
    BY <1>1 DEF RootScan
<1>3. Typed(s)
    BY DEF Ok, Owned
<1>4. /\ GcTyped(g) /\ g.phase = "mark" /\ g.black = GcRoots(s) \cap Leaf /\ g.gray = GcRoots(s) \ Leaf
      /\ g.white = Allocated(s) \ GcRoots(s)
    BY <1>1 DEF GcTyped, GcFields
<1>5. /\ DOMAIN t = StateFields /\ t.fr = s.fr /\ t.env = s.env /\ t.blk = s.blk /\ t.sv = s.sv /\ t.gc = g
      /\ t.c = [s.c EXCEPT !.cycles = IF @ < MaxCycles THEN @ + 1 ELSE @]
    BY <1>2, <1>3 DEF Typed, StateFields
<1>6. SameCxt(t, s)
    BY <1>3, <1>5 DEF SameCxt, CxtTyped, CxtFields, Typed
<1>7. Quiet(t, s)
    BY <1>3, <1>4, <1>5, <1>6, SameFrames DEF Typed
<1>8. DeadOf(s) = {} /\ DeadOf(t) = {}
    BY <1>4, <1>5 DEF DeadOf
<1>9. Owned(t, X) /\ Follows(t, s) /\ \A x, i, e : Holds(t, x, i, e) <=> Holds(s, x, i, e)
    BY <1>7, <1>8, QuietOwned DEF Ok
<1>10. DeadMade(t) /\ WhiteCells(t)
    BY <1>3, <1>4, <1>5, AllocatedIs DEF DeadMade, WhiteCells
<1>11. TaskKept(t)
  <2>. SUFFICES ASSUME t.c.kind = "task", NEW e \in Env, NEW i, Holds(t, Fib, i, e) PROVE E(e) \notin t.gc.white
      BY DEF TaskKept
  <2>1. Holds(s, Fib, i, e) /\ s.c.kind = "task"
      BY <1>6, <1>9 DEF SameCxt
  <2>2. s.fr[Fib] # << >>
      BY <2>1, EmptyIsSeq DEF Holds
  <2>3. E(e) \in GcRoots(s)
      BY <2>1, <2>2, HeldRefs DEF GcRoots
  <2>. QED BY <1>4, <1>5, <2>3
<1>12. FibKept(t)
  <2>. SUFFICES ASSUME F \in t.gc.white PROVE t.c.cur = Root /\ t.c.kind = "fiber" /\ t.c.held = FALSE
      BY DEF FibKept
  <2>1. DOMAIN s.fr[Fib] # {} /\ F \notin GcRoots(s)
      BY <1>3, <1>4, <1>5, AllocatedIs
  <2>2. s.fr[Fib] # << >>
      BY <2>1, EmptyIsSeq
  <2>3. s.c.cur # Fib /\ s.c.kind # "task" /\ ~s.c.held
      BY <2>1, <2>2 DEF GcRoots, Cur
  <2>4. s.c.kind # "none"
      BY <2>1 DEF Ok, Owned, Runs
  <2>. QED BY <1>3, <1>6, <2>3, <2>4, Constants DEF Typed, CxtTyped, SameCxt
<1>13. HeldKept(t)
    BY <1>8 DEF HeldKept
<1>14. Disjoint(t)
    BY <1>4, <1>5 DEF Disjoint
<1>15. Shaded(t)
  <2>. SUFFICES ASSUME F \notin t.gc.white, F \notin t.gc.gray, NEW e \in Env, NEW i, Holds(t, Fib, i, e) PROVE FALSE
      BY DEF Shaded
  <2>1. F \in Allocated(s)
      BY <1>3, <1>9, AllocatedIs DEF Holds
  <2>. QED BY <1>4, <1>5, <2>1, FibChildren
<1>. QED BY <1>4, <1>5, <1>9, <1>10, <1>11, <1>12, <1>13, <1>14, <1>15 DEF Ok, DeadSound

\* Marking one object: if it is Fib, its stack is marked.
LEMMA MarkOneOk ==
    ASSUME NEW s, NEW X, Ok(s, X), s.gc.phase = "mark", NEW r \in s.gc.gray, NEW t, t = MarkOne(s, r)
    PROVE  Ok(t, X)
<1>1. PICK found : found = Children(s, r) \ (s.gc.black \cup s.gc.gray)
    OBVIOUS
<1>2. PICK u : u = Stashed(s, {r})
    OBVIOUS
<1>3. t = [u EXCEPT !.gc.black = @ \cup {r} \cup (found \cap Leaf),
                    !.gc.gray = (@ \ {r}) \cup (found \ Leaf), !.gc.white = @ \ found]
    BY <1>1, <1>2 DEF MarkOne
<1>4. Typed(s)
    BY DEF Ok, Owned
<1>5. Quiet(u, s) /\ u.c = s.c /\ u.gc = s.gc
    BY <1>2, <1>4, StashedQuiet
<1>6. /\ DOMAIN t = StateFields /\ t.fr = u.fr /\ t.env = u.env /\ t.blk = u.blk /\ t.sv = u.sv /\ t.c = u.c
      /\ t.gc = [s.gc EXCEPT !.black = @ \cup {r} \cup (found \cap Leaf),
                             !.gray = (@ \ {r}) \cup (found \ Leaf), !.white = @ \ found]
    BY <1>3, <1>5 DEF Quiet, StateFields
<1>7. /\ GcTyped(t.gc) /\ t.gc.phase = "mark" /\ t.gc.black = s.gc.black \cup {r} \cup (found \cap Leaf)
      /\ t.gc.gray = (s.gc.gray \ {r}) \cup (found \ Leaf) /\ t.gc.white = s.gc.white \ found
    BY <1>4, <1>6 DEF Typed, GcTyped, GcFields
<1>8. Quiet(t, s)
    BY <1>5, <1>6, <1>7 DEF Quiet, SameEnvs, SameCxt
<1>9. DeadOf(s) = {} /\ DeadOf(t) = {}
    BY <1>7 DEF DeadOf
<1>10. Owned(t, X) /\ \A x, i, e : Holds(t, x, i, e) <=> Holds(s, x, i, e)
    BY <1>8, <1>9, QuietOwned DEF Ok
<1>11. DeadMade(t) /\ WhiteCells(t)
    BY <1>7, <1>8 DEF Ok, DeadSound, DeadMade, WhiteCells, Quiet
<1>12. TaskKept(t) /\ FibKept(t)
    BY <1>5, <1>6, <1>7, <1>10 DEF Ok, DeadSound, TaskKept, FibKept
<1>13. HeldKept(t)
    BY <1>9 DEF HeldKept
<1>14. Disjoint(s) /\ Disjoint(t)
    BY <1>1, <1>7 DEF Ok, DeadSound, Disjoint
<1>15. Shaded(t)
  <2>. SUFFICES ASSUME F \notin t.gc.white, F \notin t.gc.gray, NEW e \in Env, NEW i, Holds(t, Fib, i, e),
                       E(e) \in t.gc.white
                PROVE  FALSE
      BY DEF Shaded
  <2>1. Holds(s, Fib, i, e) /\ E(e) \in s.gc.white /\ E(e) \notin found
      BY <1>7, <1>10
  <2>2. F \notin s.gc.white
      BY <1>7, FibChildren
  <2>3. F \in s.gc.gray
      BY <2>1, <2>2 DEF Ok, DeadSound, Shaded
  <2>4. r = F
      BY <1>7, <2>3
  <2>5. E(e) \in Children(s, r)
      BY <2>1, <2>4, HeldRefs, FibChildren
  <2>6. E(e) \notin s.gc.black \cup s.gc.gray
      BY <1>14, <2>1 DEF Disjoint
  <2>. QED BY <1>1, <2>1, <2>5, <2>6
<1>. QED BY <1>10, <1>11, <1>12, <1>13, <1>14, <1>15 DEF Ok, DeadSound

\* What is on the root's stack is reached, and what is on Fib's if Fib is.
LEMMA FinalMarkOk ==
    ASSUME NEW s, NEW X, Ok(s, X), s.gc.phase = "mark", NEW t, t = FinalMark(s)
    PROVE  Ok(t, X) /\ Follows(t, s) /\ t.gc.phase = "sweep"
<1>1. PICK W : W = Allocated(s) \ s.gc.black
    OBVIOUS
<1>2. PICK reached : reached = Reach(s, GcRoots(s) \cup s.gc.gray, W)
    OBVIOUS
<1>3. PICK u : u = Stashed(s, reached \ s.gc.black)
    OBVIOUS
<1>4. t = [u EXCEPT !.gc = [phase |-> "sweep", black |-> {}, gray |-> {}, white |-> @.white \ reached]]
    BY <1>1, <1>2, <1>3 DEF FinalMark
<1>5. Typed(s)
    BY DEF Ok, Owned
<1>6. Quiet(u, s) /\ u.c = s.c /\ u.gc = s.gc
    BY <1>3, <1>5, StashedQuiet
<1>7. /\ DOMAIN t = StateFields /\ t.fr = u.fr /\ t.env = u.env /\ t.blk = u.blk /\ t.sv = u.sv /\ t.c = u.c
      /\ t.gc = [phase |-> "sweep", black |-> {}, gray |-> {}, white |-> s.gc.white \ reached]
    BY <1>4, <1>6 DEF Quiet, StateFields
<1>8. GcTyped(t.gc) /\ t.gc.phase = "sweep" /\ t.gc.white = s.gc.white \ reached
    BY <1>7 DEF GcTyped, GcFields
<1>9. Quiet(t, s)
    BY <1>6, <1>7, <1>8 DEF Quiet, SameEnvs, SameCxt
<1>10. DeadOf(s) = {} /\ DeadOf(t) = t.gc.white
    BY <1>8 DEF DeadOf
<1>11. Owned(t, X) /\ Follows(t, s) /\ \A x, i, e : Holds(t, x, i, e) <=> Holds(s, x, i, e)
    BY <1>9, <1>10, QuietOwned DEF Ok
<1>12. IsFiniteSet(W) /\ Cardinality(W) \in Nat
    BY <1>1, <1>5, AllocatedFinite
<1>13. GcRoots(s) \cup s.gc.gray \subseteq reached
    BY <1>2, <1>12, RootsReached
<1>14. DeadMade(t) /\ WhiteCells(t)
    BY <1>8, <1>9 DEF Ok, DeadSound, DeadMade, WhiteCells, Quiet
<1>15. TaskKept(t) /\ FibKept(t)
    BY <1>6, <1>7, <1>8, <1>11 DEF Ok, DeadSound, TaskKept, FibKept
<1>16. HeldKept(t)
  <2>. SUFFICES ASSUME NEW e \in Env, NEW x, NEW i, Holds(t, x, i, e), E(e) \in t.gc.white,
                       ~(x = Fib /\ F \in t.gc.white)
                PROVE  FALSE
      BY <1>10 DEF HeldKept
  <2>1. Holds(s, x, i, e) /\ E(e) \in s.gc.white /\ E(e) \notin reached
      BY <1>8, <1>11
  <2>2. x # Root
      BY <1>13, <2>1, RootHeld
  <2>3. x = Fib /\ Holds(s, Fib, i, e)
      BY <2>1, <2>2, Constants DEF Holds
  <2>4. F \notin s.gc.white \/ F \in reached
      BY <1>8, <2>3
  <2>5. F \in s.gc.white \/ F \in s.gc.gray
      BY <2>1, <2>3 DEF Ok, DeadSound, Shaded
  <2>6. F \in reached
      BY <1>13, <2>4, <2>5
  <2>7. F \notin s.gc.black /\ E(e) \notin s.gc.black
      BY <2>1, <2>5 DEF Ok, DeadSound, Disjoint
  <2>8. F \in W /\ E(e) \in W
    <3>1. F \in Allocated(s)
        BY <1>5, <2>3, AllocatedIs DEF Holds
    <3>2. E(e) \in Allocated(s)
        BY <1>5, <2>1, AllocatedIs DEF Ok, DeadSound, DeadMade
    <3>. QED BY <1>1, <2>7, <3>1, <3>2
  <2>9. E(e) \in Children(s, F)
      BY <2>3, HeldRefs, FibChildren
  <2>10. Children(s, F) \cap W \subseteq reached
      BY <1>2, <1>12, <2>6, <2>8, ReachClosed
  <2>. QED BY <2>1, <2>8, <2>9, <2>10
<1>17. Disjoint(t) /\ Shaded(t)
    BY <1>8 DEF Disjoint, Shaded
<1>. QED BY <1>8, <1>11, <1>14, <1>15, <1>16, <1>17 DEF Ok, DeadSound

-----------------------------------------------------------------------------
(* Closing.                                                                *)

\* An env as mrb_env_detach() leaves it
Shut(v) == DOMAIN v = EnvFields /\ v.cxt = NULL /\ v.stack \in BOOLEAN /\ (v.slot # NULL => v.stack = TRUE)

LEMMA DetachIs ==
    ASSUME NEW s, Shaped(s), DOMAIN s.env = Env, NEW e \in Env, NEW carried, NEW fails \in BOOLEAN,
           NEW t, t = mrb_env_detach(s, e, carried, fails)
    PROVE  /\ Shaped(t) /\ Barriered(t, s) /\ t.fr = s.fr /\ t.blk = s.blk /\ t.sv = s.sv /\ t.c = s.c
           /\ DOMAIN t.env = Env /\ Shut(t.env[e]) /\ \A g \in Env \ {e} : t.env[g] = s.env[g]
<1>1. PICK v : v = [cxt |-> NULL, stack |-> ~fails, slot |-> IF fails THEN NULL ELSE carried]
    OBVIOUS
<1>2. Shut(v)
    BY <1>1 DEF Shut, EnvFields
<1>3. PICK u : u = [s EXCEPT !.env[e] = v]
    OBVIOUS
<1>4. t = mrb_write_barrier(u, E(e))
    BY <1>1, <1>3 DEF mrb_env_detach
<1>5. /\ Shaped(u) /\ u.gc = s.gc /\ u.fr = s.fr /\ u.blk = s.blk /\ u.sv = s.sv /\ u.c = s.c
      /\ DOMAIN u.env = Env /\ u.env[e] = v /\ \A g \in Env \ {e} : u.env[g] = s.env[g]
    BY <1>3 DEF Shaped, StateFields
<1>6. /\ Shaped(t) /\ Barriered(t, u)
      /\ t.fr = u.fr /\ t.env = u.env /\ t.blk = u.blk /\ t.sv = u.sv /\ t.c = u.c
    BY <1>4, <1>5, BarrierIs
<1>7. Barriered(t, s)
    BY <1>5, <1>6, BarrieredItself, BarrieredThrough
<1>. QED BY <1>2, <1>5, <1>6, <1>7

\* Every env of Fib that is not dead is closed, and no other changes.
DetachedUpTo(u, s, n) ==
    /\ Shaped(u) /\ Barriered(u, s) /\ u.fr = s.fr /\ u.blk = s.blk /\ u.sv = s.sv /\ u.c = s.c
    /\ DOMAIN u.env = Env
    /\ \A e \in Env : u.env[e] = s.env[e] \/ Shut(u.env[e])
    /\ \A e \in Env : (\A i : ~Holds(s, Fib, i, e)) => u.env[e] = s.env[e]
    /\ \A e \in Env : \A i : i > n /\ Holds(s, Fib, i, e) /\ Live(s, e) /\ E(e) \notin s.gc.white => Shut(u.env[e])

LEMMA DetachAllIs ==
    ASSUME NEW s, NEW X, Ok(s, X), NEW resolve, NEW fails \in BOOLEAN, NEW t, t = mrb_env_detach_all(s, resolve, fails)
    PROVE  DetachedUpTo(t, s, 0)
<1>. DEFINE N == Len(s.fr[Fib])
            walk == DownToBase(N)
            d == CHOOSE d : Detaching(d, s, resolve, fails, walk, N)
<1>0. Typed(s) /\ Closed(s)
    BY DEF Ok, Owned
<1>1. Fib \in Context /\ IsSeq(s.fr[Fib]) /\ N \in Nat /\ DOMAIN s.fr[Fib] = 1 .. N
    BY <1>0, Constants, SeqFacts DEF Typed
<1>2. Len(walk) = N /\ \A k \in 1 .. N : walk[k] = N + 1 - k
  <2>1. walk = [k \in 1 .. N |-> N + 1 - k]
      BY DEF DownToBase
  <2>2. walk \in [1 .. N -> Int]
      BY <1>1, <2>1
  <2>. HIDE DEF walk
  <2>3. Len(walk) = N
      BY <1>1, <2>2, IndexedIsSeq
  <2>. QED BY <2>1, <2>3
<1>3. Detaching(d, s, resolve, fails, walk, N)
    BY <1>1, DetachingExists
<1>4. t = d[N]
  <2>1. t = d[Len(walk)]
      BY <1>2 DEF mrb_env_detach_all, Detaching, DetachTurn, Carried, Alive
  <2>. QED BY <1>2, <2>1
<1>. HIDE DEF d, walk
<1>. DEFINE M == {n \in Nat : n <= N => DetachedUpTo(d[n], s, N - n)}
<1>5. 0 \in M
  <2>1. d[0] = s
      BY <1>1, <1>3 DEF Detaching
  <2>2. \A i : i > N - 0 => \A e \in Env : ~Holds(s, Fib, i, e)
      BY <1>1 DEF Holds
  <2>3. Barriered(s, s)
      BY BarrieredItself
  <2>4. DetachedUpTo(s, s, N - 0)
      BY <1>0, <2>2, <2>3 DEF DetachedUpTo, Typed, Shaped
  <2>. QED BY <2>1, <2>4
<1>6. ASSUME NEW n \in Nat, n \in M PROVE n + 1 \in M
  <2>. SUFFICES ASSUME n + 1 <= N PROVE DetachedUpTo(d[n + 1], s, N - (n + 1))
      OBVIOUS
  <2>1. PICK u : u = d[n]
      OBVIOUS
  <2>2. PICK v : v = d[n + 1]
      OBVIOUS
  <2>3. PICK j \in 1 .. N : j = N - n /\ N + 1 - (n + 1) = j
    <3>1. \A a, b \in Nat : b + 1 <= a => a - b \in 1 .. a /\ a + 1 - (b + 1) = a - b
        OBVIOUS
    <3>2. N - n \in 1 .. N /\ N + 1 - (n + 1) = N - n
        BY <1>1, <3>1
    <3>. QED BY <3>2, Zenon
  <2>4. DetachedUpTo(u, s, N - n)
      BY <1>1, <1>6, <2>1
  <2>5. v = DetachTurn(s, resolve, fails, u, j)
    <3>1. PICK k \in 0 .. N : k = n + 1 /\ k # 0 /\ k - 1 = n /\ k \in 1 .. N
        BY <1>1
    <3>2. d[k] = DetachTurn(s, resolve, fails, d[k - 1], walk[k])
        BY <1>3, <3>1 DEF Detaching
    <3>. QED BY <1>2, <2>1, <2>2, <2>3, <3>1, <3>2
  <2>6. PICK e : e = s.fr[Fib][j].env
      OBVIOUS
  <2>7. \A i, g : i > N - (n + 1) /\ Holds(s, Fib, i, g) => i > N - n \/ (i = j /\ g = e)
      BY <1>1, <2>3, <2>6 DEF Holds
  <2>8. u.fr = s.fr /\ u.gc.white = s.gc.white
      BY <2>4 DEF DetachedUpTo, Barriered
  <2>9. e \in Env \cup {NULL} /\ Holds(s, Fib, j, e)
      BY <1>0, <1>1, <2>3, <2>6 DEF Typed, HasEnv, Holds
  <2>10. CASE e = NULL \/ mrb_object_dead_p(u, e) \/ ~Onstack(u, e)
    <3>1. v = u
        BY <2>5, <2>6, <2>8, <2>10 DEF DetachTurn
    <3>2. ASSUME NEW g \in Env, NEW i, i > N - (n + 1), Holds(s, Fib, i, g), Live(s, g), E(g) \notin s.gc.white
          PROVE  Shut(v.env[g])
      <4>1. CASE g # e
        <5>1. i > N - n
            BY <2>7, <3>2, <4>1
        <5>. QED BY <2>4, <3>1, <3>2, <5>1 DEF DetachedUpTo
      <4>2. CASE g = e
        <5>. SUFFICES ASSUME ~Shut(u.env[e]) PROVE FALSE
            BY <3>1, <4>2
        <5>1. u.env[e] = s.env[e]
            BY <2>4, <4>2 DEF DetachedUpTo
        <5>2. ~mrb_object_dead_p(u, e)
            BY <2>8, <3>2, <4>2, <5>1 DEF mrb_object_dead_p, Live
        <5>3. Onstack(u, e)
            BY <1>0, <3>2, <4>2, <5>1 DEF Closed, Onstack
        <5>4. e # NULL
            BY <3>2, <4>2, Constants
        <5>. QED BY <2>10, <5>2, <5>3, <5>4
      <4>. QED BY <4>1, <4>2
    <3>3. DetachedUpTo(v, s, N - (n + 1))
        BY <2>4, <3>1, <3>2 DEF DetachedUpTo
    <3>. QED BY <2>2, <3>3
  <2>11. CASE ~(e = NULL \/ mrb_object_dead_p(u, e) \/ ~Onstack(u, e))
    <3>1. e \in Env
        BY <2>9, <2>11
    <3>2. v = mrb_env_detach(u, e, Carried(s, resolve, u, j), fails)
        BY <2>5, <2>6, <2>8, <2>11 DEF DetachTurn
    <3>3. /\ Shaped(v) /\ Barriered(v, u) /\ v.fr = u.fr /\ v.blk = u.blk /\ v.sv = u.sv /\ v.c = u.c
          /\ DOMAIN v.env = Env /\ Shut(v.env[e]) /\ \A g \in Env \ {e} : v.env[g] = u.env[g]
      <4>1. Shaped(u) /\ DOMAIN u.env = Env
          BY <2>4 DEF DetachedUpTo
      <4>. QED BY ONLY <3>1, <3>2, <4>1, fails \in BOOLEAN, DetachIs
    <3>4. \A g \in Env : v.env[g] = s.env[g] \/ Shut(v.env[g])
        BY <2>4, <3>3 DEF DetachedUpTo
    <3>5. \A g \in Env : (\A i : ~Holds(s, Fib, i, g)) => v.env[g] = s.env[g]
        BY <2>4, <2>9, <3>3 DEF DetachedUpTo
    <3>6. ASSUME NEW g \in Env, NEW i, i > N - (n + 1), Holds(s, Fib, i, g), Live(s, g), E(g) \notin s.gc.white
          PROVE  Shut(v.env[g])
      <4>1. CASE g = e
          BY <3>3, <4>1
      <4>2. CASE g # e
        <5>1. i > N - n
            BY <2>7, <3>6, <4>2
        <5>. QED BY <2>4, <3>3, <3>6, <4>2, <5>1 DEF DetachedUpTo
      <4>. QED BY <4>1, <4>2
    <3>7. Barriered(v, s)
        BY <2>4, <3>3, BarrieredThrough DEF DetachedUpTo
    <3>8. DetachedUpTo(v, s, N - (n + 1))
        BY <2>4, <3>3, <3>4, <3>5, <3>6, <3>7 DEF DetachedUpTo
    <3>. QED BY <2>2, <3>8
  <2>. QED BY <2>10, <2>11
<1>. HIDE DEF M
<1>7. \A n \in Nat : n \in M
    BY <1>5, <1>6, InductionInSet
<1>8. DetachedUpTo(t, s, N - N)
    BY <1>1, <1>4, <1>7 DEF M
<1>9. N - N = 0
    BY <1>1
<1>. QED BY <1>8, <1>9

-----------------------------------------------------------------------------
(* The sweep.                                                              *)

SweptOf(f, kind, freed) == [x \in DOMAIN f |-> IF <<kind, x>> \in freed THEN Free ELSE f[x]]

\* The state that is swept: the context of Fib is gone if it is on the page.
Doomed(s, page, fails) ==
    IF F \in s.gc.white \cap page THEN mrb_free_context(mrb_env_detach_all(s, FALSE, fails)) ELSE s

LEMMA SweepIs ==
    ASSUME NEW s, NEW page, NEW fails, NEW u, u = Doomed(s, page, fails), Shaped(u), u.gc.white = s.gc.white,
           NEW freed, freed = s.gc.white \cap page, NEW t, t = SweepPage(s, page, fails)
    PROVE  /\ Shaped(t) /\ t.fr = u.fr /\ t.c = u.c /\ t.gc.white = s.gc.white \ page
           /\ t.gc.phase = (IF s.gc.white \subseteq page THEN "idle" ELSE "sweep")
           /\ t.blk = SweptOf(u.blk, "blk", freed) /\ t.env = SweptOf(u.env, "env", freed)
           /\ t.sv = SweptOf(u.sv, "svar", freed)
<1>1. PICK phase : phase = (IF s.gc.white \subseteq page THEN "idle" ELSE "sweep")
    OBVIOUS
<1>2. t = [u EXCEPT !.blk = SweptOf(@, "blk", freed), !.env = SweptOf(@, "env", freed),
                    !.sv = SweptOf(@, "svar", freed), !.gc.white = @ \ page, !.gc.phase = phase]
    BY <1>1 DEF SweepPage, Doomed, SweptOf, B, E, S
<1>3. /\ DOMAIN t = StateFields /\ t.fr = u.fr /\ t.c = u.c /\ t.gc = [u.gc EXCEPT !.white = @ \ page, !.phase = phase]
      /\ t.blk = SweptOf(u.blk, "blk", freed) /\ t.env = SweptOf(u.env, "env", freed)
      /\ t.sv = SweptOf(u.sv, "svar", freed)
    BY <1>2 DEF Shaped, StateFields
<1>4. DOMAIN t.gc = GcFields /\ t.gc.white = s.gc.white \ page /\ t.gc.phase = phase
    BY <1>3 DEF Shaped, GcTyped, GcFields
<1>. QED BY <1>1, <1>3, <1>4 DEF Shaped, GcTyped

LEMMA FreeContextIs ==
    ASSUME NEW s, Shaped(s), DOMAIN s.fr = Context, CxtTyped(s.c), NEW t, t = mrb_free_context(s)
    PROVE  /\ Shaped(t) /\ t.gc = s.gc /\ t.blk = s.blk /\ t.env = s.env /\ t.sv = s.sv
           /\ DOMAIN t.fr = Context /\ t.fr[Root] = s.fr[Root] /\ t.fr[Fib] = << >>
           /\ CxtTyped(t.c) /\ t.c.cur = s.c.cur /\ t.c.kind = s.c.kind /\ t.c.held = FALSE
<1>1. t = [s EXCEPT !.fr[Fib] = << >>, !.c.svars = FALSE, !.c.held = FALSE]
    BY DEF mrb_free_context
<1>2. Shaped(t) /\ t.gc = s.gc /\ t.blk = s.blk /\ t.env = s.env /\ t.sv = s.sv
    BY <1>1 DEF Shaped, StateFields
<1>3. t.fr = [s.fr EXCEPT ![Fib] = << >>]
    BY <1>1 DEF Shaped, StateFields
<1>4. t.c = [s.c EXCEPT !.svars = FALSE, !.held = FALSE]
    BY <1>1 DEF Shaped, StateFields
<1>5. CxtTyped(t.c) /\ t.c.cur = s.c.cur /\ t.c.kind = s.c.kind /\ t.c.held = FALSE
    BY <1>4 DEF CxtTyped, CxtFields
<1>6. DOMAIN t.fr = Context /\ t.fr[Root] = s.fr[Root] /\ t.fr[Fib] = << >>
    BY <1>3, Constants
<1>. QED BY <1>2, <1>5, <1>6

\* Fib goes: its envs are closed, freed or dead, and of the others some may be freed.
LEMMA GoneOwned ==
    ASSUME NEW s, NEW X, Ok(s, X), NEW t, Shaped(t), CxtTyped(t.c), t.c.cur = Root,
           DOMAIN t.fr = Context, SameEnvs(t, s, Root), t.fr[Fib] = << >>,
           DOMAIN t.blk = Block, DOMAIN t.env = Env, DOMAIN t.sv = Svar,
           t.gc.white \subseteq s.gc.white, DeadOf(t) \subseteq DeadOf(s), FibKept(t), Disjoint(t),
           \A e \in Env : Live(t, e) /\ E(e) \notin DeadOf(t) => E(e) \notin DeadOf(s),
           \A e \in Env : t.env[e] = Free => s.env[e] = Free \/ (E(e) \in DeadOf(s) /\ E(e) \notin t.gc.white),
           \A e \in Env : t.env[e] = s.env[e] \/ Shut(t.env[e]) \/ t.env[e] = Free,
           \A e \in Env : (\A i : ~Holds(s, Fib, i, e)) => t.env[e] = s.env[e] \/ t.env[e] = Free,
           \A e \in Env : \A i : Holds(s, Fib, i, e) => Shut(t.env[e]) \/ t.env[e] = Free \/ E(e) \in DeadOf(t)
    PROVE  Ok(t, X)
<1>1. \A x, i, e : Holds(t, x, i, e) <=> x = Root /\ Holds(s, x, i, e)
    BY Constants, EmptyIsSeq DEF Holds, SameEnvs
<1>2. \A v : Shut(v) => v # Free /\ EnvTyped(v) /\ v.cxt = NULL /\ (v.slot # NULL => v.stack = TRUE)
    BY States DEF Shut, EnvTyped
<1>3. Typed(t)
  <2>1. ASSUME NEW x \in Context PROVE IsSeq(t.fr[x]) /\ \A i \in DOMAIN t.fr[x] : HasEnv(t.fr[x][i])
    <3>1. CASE x = Root
        BY <3>1 DEF SameEnvs, Ok, Owned, Typed, HasEnv
    <3>2. CASE x = Fib
        BY <3>2, EmptyIsSeq
    <3>. QED BY <2>1, <3>1, <3>2, Constants
  <2>2. \A e \in Env : Live(t, e) => EnvTyped(t.env[e])
      BY <1>2 DEF Ok, Owned, Typed, Live
  <2>. QED BY <2>1, <2>2 DEF Typed, Shaped
<1>4. OnFrames(t, X)
  <2>. SUFFICES ASSUME NEW e \in Env \ X, Live(t, e), E(e) \notin DeadOf(t), t.env[e].cxt # NULL
                PROVE  t.env[e].slot = NULL /\ \E i : Holds(t, t.env[e].cxt, i, e)
      BY DEF OnFrames
  <2>1. ~Shut(t.env[e]) /\ t.env[e] # Free
      BY DEF Shut, Live
  <2>2. \A i : ~Holds(s, Fib, i, e)
      BY <2>1
  <2>3. t.env[e] = s.env[e]
      BY <2>1
  <2>4. Live(s, e) /\ s.env[e].cxt # NULL /\ E(e) \notin DeadOf(s)
      BY <2>3 DEF Live
  <2>5. s.env[e].slot = NULL /\ \E i : Holds(s, s.env[e].cxt, i, e)
      BY <2>4 DEF Ok, Owned, OnFrames
  <2>6. s.env[e].cxt = Root
      BY <2>2, <2>5, Constants DEF Holds
  <2>. QED BY <1>1, <2>3, <2>5, <2>6
<1>5. Closed(t)
  <2>. SUFFICES ASSUME NEW e \in Env, Live(t, e), t.env[e].cxt = NULL
                PROVE  (t.env[e].slot # NULL => t.env[e].stack = TRUE) /\ \A x, i : ~Holds(t, x, i, e)
      BY DEF Closed
  <2>1. t.env[e] # Free
      BY DEF Live
  <2>2. CASE t.env[e] = s.env[e]
    <3>1. Live(s, e) /\ s.env[e].cxt = NULL
        BY <2>2 DEF Live
    <3>2. (s.env[e].slot # NULL => s.env[e].stack = TRUE) /\ \A x, i : ~Holds(s, x, i, e)
        BY <3>1 DEF Ok, Owned, Closed
    <3>. QED BY <1>1, <2>2, <3>2
  <2>3. CASE t.env[e] # s.env[e]
    <3>1. PICK j : Holds(s, Fib, j, e)
        BY <2>1, <2>3
    <3>2. Shut(t.env[e])
        BY <2>1, <2>3
    <3>3. \A i : ~Holds(s, Root, i, e)
        BY <3>1, Constants DEF Ok, Owned, OneHolder
    <3>. QED BY <1>1, <1>2, <3>2, <3>3
  <2>. QED BY <2>2, <2>3
<1>6. OneHolder(t)
    BY <1>1 DEF Ok, Owned, OneHolder
<1>7. HeldMade(t)
  <2>. SUFFICES ASSUME NEW e \in Env, NEW x, NEW i, Holds(t, x, i, e), t.env[e] = Free PROVE FALSE
      BY DEF HeldMade
  <2>1. x = Root /\ Holds(s, x, i, e) /\ x # Fib
      BY <1>1, Constants
  <2>2. s.env[e] # Free
      BY <2>1 DEF Ok, Owned, HeldMade
  <2>3. E(e) \in DeadOf(s)
      BY <2>2
  <2>. QED BY <2>1, <2>3 DEF Ok, DeadSound, HeldKept
<1>8. Runs(t)
    BY EmptyIsSeq DEF Runs, Ok, Owned, SameEnvs
<1>9. DeadMade(t) /\ WhiteCells(t)
    BY DEF Ok, DeadSound, DeadMade, WhiteCells
<1>10. TaskKept(t) /\ Shaded(t)
    BY <1>1, Constants DEF TaskKept, Shaded
<1>11. HeldKept(t)
    BY <1>1, Constants DEF HeldKept, Ok, DeadSound
<1>. QED BY <1>3, <1>4, <1>5, <1>6, <1>7, <1>8, <1>9, <1>10, <1>11 DEF Ok, Owned, DeadSound

LEMMA SweepPageOk ==
    ASSUME NEW s, NEW X, Ok(s, X), s.gc.phase = "sweep", NEW page, NEW fails \in BOOLEAN,
           NEW t, t = SweepPage(s, page, fails)
    PROVE  /\ Ok(t, X) /\ Follows(t, s) /\ t.gc.white = s.gc.white \ page
           /\ s.gc.white \subseteq page => t.gc.phase = "idle"
<1>1. Typed(s) /\ Shaped(s)
    BY DEF Ok, Owned, Typed, Shaped
<1>2. PICK D : D = s.gc.white \cap page
    OBVIOUS
<1>3. ASSUME NEW f, NEW kind PROVE DOMAIN SweptOf(f, kind, D) = DOMAIN f
    BY DEF SweptOf
<1>4. ASSUME NEW f, NEW x \in DOMAIN f PROVE SweptOf(f, "env", D)[x] = IF E(x) \in D THEN Free ELSE f[x]
    BY DEF SweptOf, E
<1>5. ASSUME t.gc.white = s.gc.white \ page, t.gc.phase = (IF s.gc.white \subseteq page THEN "idle" ELSE "sweep")
      PROVE  /\ DeadOf(s) = s.gc.white /\ DeadOf(t) = s.gc.white \ page
             /\ s.gc.white \subseteq page => t.gc.phase = "idle"
             /\ Disjoint(t) /\ Shaded(t)
    BY <1>5 DEF DeadOf, Disjoint, Shaded
<1>6. CASE F \notin D
  <2>1. Doomed(s, page, fails) = s
      BY <1>2, <1>6 DEF Doomed
  <2>2. /\ Shaped(t) /\ t.fr = s.fr /\ t.c = s.c /\ t.gc.white = s.gc.white \ page
        /\ t.gc.phase = (IF s.gc.white \subseteq page THEN "idle" ELSE "sweep")
        /\ t.blk = SweptOf(s.blk, "blk", D) /\ t.env = SweptOf(s.env, "env", D) /\ t.sv = SweptOf(s.sv, "svar", D)
      BY <1>1, <1>2, <2>1, SweepIs
  <2>3. /\ DeadOf(s) = s.gc.white /\ DeadOf(t) = s.gc.white \ page
        /\ s.gc.white \subseteq page => t.gc.phase = "idle"
        /\ Disjoint(t) /\ Shaded(t)
      BY <1>5, <2>2
  <2>4. DOMAIN t.blk = Block /\ DOMAIN t.env = Env /\ DOMAIN t.sv = Svar
      BY <1>1, <1>3, <2>2 DEF Typed
  <2>5. \A e \in Env : t.env[e] = IF E(e) \in D THEN Free ELSE s.env[e]
      BY <1>1, <1>4, <2>2 DEF Typed
  <2>6. \A x, i, e : Holds(t, x, i, e) <=> Holds(s, x, i, e)
      BY <2>2 DEF Holds
  <2>7. \A e \in Env : Live(t, e) => Live(s, e) /\ t.env[e] = s.env[e] /\ (E(e) \notin DeadOf(t) => E(e) \notin DeadOf(s))
      BY <1>2, <2>3, <2>5 DEF Live
  <2>8. F \in DeadOf(s) => F \in DeadOf(t)
      BY <1>2, <1>6, <2>3
  <2>9. Typed(t)
      BY <1>1, <2>2, <2>4, <2>7 DEF Typed, Shaped
  <2>10. OnFrames(t, X) /\ Closed(t) /\ OneHolder(t)
      BY <2>6, <2>7 DEF Ok, Owned, OnFrames, Closed, OneHolder
  <2>11. HeldMade(t)
    <3>. SUFFICES ASSUME NEW e \in Env, NEW x, NEW i, Holds(t, x, i, e), t.env[e] = Free
                  PROVE  x = Fib /\ F \in DeadOf(t)
        BY DEF HeldMade
    <3>1. Holds(s, x, i, e)
        BY <2>6
    <3>2. CASE s.env[e] = Free
        BY <2>8, <3>1, <3>2 DEF Ok, Owned, HeldMade
    <3>3. CASE s.env[e] # Free
      <4>1. E(e) \in DeadOf(s)
          BY <1>2, <2>3, <2>5, <3>3
      <4>. QED BY <2>8, <3>1, <4>1 DEF Ok, DeadSound, HeldKept
    <3>. QED BY <3>2, <3>3
  <2>12. Runs(t)
      BY <2>2 DEF Ok, Owned, Runs
  <2>13. DeadMade(t) /\ WhiteCells(t)
      BY <1>2, <2>2, <2>5 DEF Ok, DeadSound, DeadMade, WhiteCells
  <2>14. TaskKept(t) /\ FibKept(t)
      BY <2>2, <2>6 DEF Ok, DeadSound, TaskKept, FibKept
  <2>15. HeldKept(t)
      BY <2>3, <2>6, <2>8 DEF Ok, DeadSound, HeldKept
  <2>16. Follows(t, s)
      BY <1>1, <2>2, Constants DEF Follows, SameEnvs, Typed, HasEnv
  <2>. QED BY <2>2, <2>3, <2>9, <2>10, <2>11, <2>12, <2>13, <2>14, <2>15, <2>16 DEF Ok, Owned, DeadSound
<1>7. CASE F \in D
  <2>0. PICK no : no = FALSE
      OBVIOUS
  <2>1. PICK r : r = mrb_env_detach_all(s, no, fails)
      OBVIOUS
  <2>2. PICK u : u = mrb_free_context(r)
      OBVIOUS
  <2>3. Doomed(s, page, fails) = u
      BY <1>2, <1>7, <2>0, <2>1, <2>2 DEF Doomed
  <2>4. DetachedUpTo(r, s, 0)
      BY <2>1, DetachAllIs
  <2>5. /\ Shaped(r) /\ r.fr = s.fr /\ r.blk = s.blk /\ r.sv = s.sv /\ r.c = s.c
        /\ DOMAIN r.env = Env /\ r.gc.white = s.gc.white
        /\ \A e \in Env : r.env[e] = s.env[e] \/ Shut(r.env[e])
        /\ \A e \in Env : (\A i : ~Holds(s, Fib, i, e)) => r.env[e] = s.env[e]
      BY <2>4 DEF DetachedUpTo, Barriered
  <2>6. ASSUME NEW e \in Env, NEW i, Holds(s, Fib, i, e), Live(s, e), E(e) \notin s.gc.white PROVE Shut(r.env[e])
    <3>1. i > 0
        BY <1>1, <2>6, SeqFacts DEF Holds, Typed
    <3>. QED BY <2>4, <2>6, <3>1 DEF DetachedUpTo
  <2>7. /\ Shaped(u) /\ u.gc = r.gc /\ u.blk = r.blk /\ u.env = r.env /\ u.sv = r.sv
        /\ DOMAIN u.fr = Context /\ u.fr[Root] = r.fr[Root] /\ u.fr[Fib] = << >>
        /\ CxtTyped(u.c) /\ u.c.cur = r.c.cur /\ u.c.kind = r.c.kind /\ u.c.held = FALSE
      BY <1>1, <2>2, <2>5, FreeContextIs DEF Typed
  <2>8. /\ Shaped(t) /\ t.fr = u.fr /\ t.c = u.c /\ t.gc.white = s.gc.white \ page
        /\ t.gc.phase = (IF s.gc.white \subseteq page THEN "idle" ELSE "sweep")
        /\ t.blk = SweptOf(u.blk, "blk", D) /\ t.env = SweptOf(u.env, "env", D) /\ t.sv = SweptOf(u.sv, "svar", D)
    <3>1. u = Doomed(s, page, fails) /\ Shaped(u) /\ u.gc.white = s.gc.white
        BY <2>3, <2>5, <2>7
    <3>. QED BY ONLY <1>2, <3>1, t = SweepPage(s, page, fails), SweepIs
  <2>9. /\ DeadOf(s) = s.gc.white /\ DeadOf(t) = s.gc.white \ page
        /\ s.gc.white \subseteq page => t.gc.phase = "idle"
        /\ Disjoint(t) /\ Shaded(t)
      BY <1>5, <2>8
  <2>10. DOMAIN t.blk = Block /\ DOMAIN t.env = Env /\ DOMAIN t.sv = Svar
      BY <1>1, <1>3, <2>5, <2>7, <2>8 DEF Typed
  <2>11. \A e \in Env : t.env[e] = IF E(e) \in D THEN Free ELSE r.env[e]
      BY <1>4, <2>5, <2>7, <2>8
  <2>12. SameEnvs(t, s, Root)
      BY <1>1, <2>5, <2>7, <2>8, Constants DEF SameEnvs, Typed, HasEnv
  <2>13. s.c.cur = Root
      BY <1>2, <1>7 DEF Ok, DeadSound, FibKept
  <2>14. \A e \in Env : t.env[e] = s.env[e] \/ Shut(t.env[e]) \/ t.env[e] = Free
      BY <2>5, <2>11
  <2>15. \A e \in Env : (\A i : ~Holds(s, Fib, i, e)) => t.env[e] = s.env[e] \/ t.env[e] = Free
      BY <2>5, <2>11
  <2>16. ASSUME NEW e \in Env, NEW i, Holds(s, Fib, i, e)
         PROVE  Shut(t.env[e]) \/ t.env[e] = Free \/ E(e) \in DeadOf(t)
    <3>1. CASE E(e) \in s.gc.white
        BY <1>2, <2>9, <2>11, <3>1
    <3>2. CASE E(e) \notin s.gc.white /\ Live(s, e)
        BY <1>2, <2>6, <2>11, <2>16, <3>2
    <3>3. CASE E(e) \notin s.gc.white /\ ~Live(s, e)
        BY <2>14, <3>3 DEF Live
    <3>. QED BY <3>1, <3>2, <3>3
  <2>17. \A e \in Env : t.env[e] = Free => s.env[e] = Free \/ (E(e) \in DeadOf(s) /\ E(e) \notin t.gc.white)
    <3>1. \A v : Shut(v) => v # Free
        BY States DEF Shut
    <3>. QED BY <1>2, <2>5, <2>8, <2>9, <2>11, <3>1
  <2>18. \A e \in Env : Live(t, e) /\ E(e) \notin DeadOf(t) => E(e) \notin DeadOf(s)
      BY <1>2, <2>9, <2>11 DEF Live
  <2>19. Follows(t, s)
      BY <2>5, <2>7, <2>8, <2>12, EmptyIsSeq DEF Follows
  <2>20. FibKept(t)
      BY <1>2, <1>7, <2>8 DEF FibKept
  <2>21. /\ CxtTyped(t.c) /\ t.c.cur = Root /\ DOMAIN t.fr = Context /\ t.fr[Fib] = << >>
         /\ t.gc.white \subseteq s.gc.white /\ DeadOf(t) \subseteq DeadOf(s)
      BY <2>5, <2>7, <2>8, <2>9, <2>13
  <2>22. Ok(t, X)
      BY ONLY <2>8, <2>9, <2>10, <2>12, <2>14, <2>15, <2>16, <2>17, <2>18, <2>20, <2>21, Ok(s, X), GoneOwned
  <2>. QED BY <2>8, <2>9, <2>19, <2>22
<1>. QED BY <1>6, <1>7

\* A cycle that is under way is run to its end.
LEMMA FinishedOk ==
    ASSUME NEW s, NEW X, Ok(s, X), s.gc.phase # "idle", NEW t, t = Finished(s)
    PROVE  Ok(t, X) /\ Follows(t, s) /\ t.gc.phase = "idle" /\ t.gc.white = {}
<1>1. s.gc.phase = "mark" \/ s.gc.phase = "sweep"
    BY DEF Ok, Owned, Typed, GcTyped
<1>2. Follows(s, s)
    BY FollowsItself DEF Ok, Owned
<1>3. PICK v : v = IF s.gc.phase = "sweep" THEN s ELSE FinalMark(s)
    OBVIOUS
<1>4. Ok(v, X) /\ Follows(v, s) /\ v.gc.phase = "sweep"
    BY <1>1, <1>2, <1>3, FinalMarkOk
<1>5. PICK no : no = FALSE
    OBVIOUS
<1>a. no \in BOOLEAN
    BY <1>5
<1>6. t = SweepPage(v, Cell, no)
    BY <1>3, <1>5 DEF Finished
<1>7. v.gc.white \subseteq Cell
    BY <1>4 DEF Ok, DeadSound, WhiteCells
<1>8. Ok(t, X) /\ Follows(t, v) /\ t.gc.white = v.gc.white \ Cell /\ t.gc.phase = "idle"
    BY ONLY <1>4, <1>a, <1>6, <1>7, SweepPageOk
<1>. QED BY <1>4, <1>7, <1>8, FollowsThrough

LEMMA FullGcOk ==
    ASSUME NEW s, NEW X, Ok(s, X), NEW t, t = mrb_full_gc(s)
    PROVE  Ok(t, X) /\ Follows(t, s) /\ t.gc.white = {}
<1>1. Follows(s, s)
    BY FollowsItself DEF Ok, Owned
<1>2. PICK u : u = IF s.gc.phase = "idle" THEN s ELSE Finished(s)
    OBVIOUS
<1>3. Ok(u, X) /\ Follows(u, s) /\ u.gc.phase = "idle"
    BY <1>1, <1>2, FinishedOk
<1>4. PICK v : v = RootScan(u)
    OBVIOUS
<1>5. Ok(v, X) /\ Follows(v, s) /\ v.gc.phase = "mark"
    BY <1>3, <1>4, RootScanOk, FollowsThrough
<1>6. t = Finished(v)
    BY <1>2, <1>4 DEF mrb_full_gc
<1>. QED BY <1>5, <1>6, FinishedOk, FollowsThrough

LEMMA MaybeCollectedOk ==
    ASSUME NEW s, NEW X, Ok(s, X), NEW t \in MaybeCollected(s)
    PROVE  Ok(t, X) /\ Follows(t, s) /\ (t = s \/ t.gc.white = {})
<1>1. t = s \/ t = mrb_full_gc(s)
    BY DEF MaybeCollected
<1>2. Follows(s, s)
    BY FollowsItself DEF Ok, Owned
<1>. QED BY <1>1, <1>2, FullGcOk

-----------------------------------------------------------------------------
(* Special variables.                                                      *)

\* Owner o is a frame, nothing, or a closed env that has its locals.
Settled(s, o) == o.at = "env" => s.env[o.e].cxt = NULL /\ s.env[o.e].stack

LEMMA TurnSettled == ASSUME NEW s, NEW x, NEW at, Settled(s, at) PROVE Settled(s, OwnerTurn(s, x, at))
<1>1. Settled(s, Nowhere) /\ Settled(s, Lost) /\ \A y, i : Settled(s, OnFrame(y, i))
    BY DEF Settled, Nowhere, Lost, OnFrame
<1>2. ASSUME NEW p PROVE Settled(s, NextOwner(s, x, at, p))
  <2>1. CASE p = Load
      BY <1>1, <2>1 DEF NextOwner
  <2>2. CASE p # Load
    <3>1. PICK e : e = Forwarded(s, x, svar_scope_env(s, p))
        OBVIOUS
    <3>2. NextOwner(s, x, at, p) = ScopeAt(s, x, at, e)
        BY <2>2, <3>1 DEF NextOwner
    <3>3. Settled(s, ScopeAt(s, x, at, e))
      <4>1. CASE RootBlockOf(s, x, e)
          BY <1>1, <4>1 DEF ScopeAt
      <4>2. CASE ~RootBlockOf(s, x, e) /\ Onstack(s, e)
          BY <1>1, <4>2 DEF ScopeAt
      <4>3. CASE ~RootBlockOf(s, x, e) /\ ~Onstack(s, e) /\ s.env[e].stack
        <5>1. ScopeAt(s, x, at, e) = InEnv(e)
            BY <4>3 DEF ScopeAt
        <5>2. InEnv(e).e = e
            BY DEF InEnv
        <5>. QED BY <4>3, <5>1, <5>2 DEF Settled, Onstack
      <4>4. CASE ~RootBlockOf(s, x, e) /\ ~Onstack(s, e) /\ ~s.env[e].stack
          BY <1>1, <4>4 DEF ScopeAt
      <4>. QED BY <4>1, <4>2, <4>3, <4>4
    <3>. QED BY <3>2, <3>3
  <2>. QED BY <2>1, <2>2
<1>. QED BY <1>1, <1>2 DEF OwnerTurn

LEMMA OwnerSettled ==
    ASSUME NEW s, Typed(s)
    PROVE  Settled(s, svar_owner(s))
<1>1. PICK x : x = Cur(s)
    OBVIOUS
<1>2. PICK from : from = OnFrame(x, Len(s.fr[x]))
    OBVIOUS
<1>. DEFINE N == Len(s.fr[Root]) + Len(s.fr[Fib]) + 1
            d == CHOOSE d : Walking(d, s, x, from, N)
<1>3. N \in Nat
  <2>1. Len(s.fr[Root]) \in Nat /\ Len(s.fr[Fib]) \in Nat
      BY Constants, SeqFacts DEF Typed
  <2>2. \A a, b \in Nat : a + b + 1 \in Nat
      OBVIOUS
  <2>. QED BY <2>1, <2>2
<1>4. Walking(d, s, x, from, N)
    BY <1>3, WalkingExists
<1>5. svar_owner(s) = d[N]
    BY <1>1, <1>2 DEF svar_owner, svar_owner_from, Walking, OwnerTurn
<1>. HIDE DEF d, N
<1>. DEFINE M == {n \in Nat : n <= N => Settled(s, d[n])}
<1>6. 0 \in M
  <2>1. d[0] = from
      BY <1>3, <1>4 DEF Walking
  <2>2. Settled(s, from)
      BY <1>2 DEF Settled, OnFrame
  <2>. QED BY <2>1, <2>2
<1>7. ASSUME NEW n \in Nat, n \in M PROVE n + 1 \in M
  <2>. SUFFICES ASSUME n + 1 <= N PROVE Settled(s, d[n + 1])
      OBVIOUS
  <2>1. PICK k \in 0 .. N : k = n + 1 /\ k # 0 /\ k - 1 = n
      BY <1>3
  <2>2. d[k] = OwnerTurn(s, x, d[k - 1])
      BY <1>4, <2>1 DEF Walking
  <2>3. Settled(s, d[n])
      BY <1>3, <1>7
  <2>. QED BY <2>1, <2>2, <2>3, TurnSettled
<1>. HIDE DEF M
<1>8. \A n \in Nat : n \in M
    BY <1>6, <1>7, InductionInSet
<1>. QED BY <1>3, <1>5, <1>8 DEF M

\* The slot of a closed env changes; of an env that is not there, nothing does.
LEMMA SlotOk ==
    ASSUME NEW s, NEW X, Ok(s, X), NEW e, NEW ref, s.env[e].cxt = NULL, s.env[e].stack,
           NEW t, Shaped(t), Barriered(t, s), t.fr = s.fr, t.c = s.c, t.blk = s.blk, DOMAIN t.sv = Svar,
           t.env = [s.env EXCEPT ![e].slot = ref]
    PROVE  Ok(t, X) /\ Follows(t, s)
<1>1. Typed(s)
    BY DEF Ok, Owned
<1>2. DOMAIN t.env = Env /\ \A g \in Env \ {e} : t.env[g] = s.env[g]
    BY <1>1 DEF Typed
<1>3. e \in Env /\ ~Live(s, e) => t.env[e] = s.env[e]
  <2>. SUFFICES ASSUME e \in Env, ~Live(s, e) PROVE t.env[e] = s.env[e]
      OBVIOUS
  <2>1. t.env[e] = [s.env[e] EXCEPT !.slot = ref]
      BY <1>1 DEF Typed
  <2>2. [Free EXCEPT !.slot = ref] = Free
      BY DEF Free
  <2>. QED BY <2>1, <2>2 DEF Live
<1>4. e \in Env /\ Live(s, e) => Shut(t.env[e])
  <2>. SUFFICES ASSUME e \in Env, Live(s, e) PROVE Shut(t.env[e])
      OBVIOUS
  <2>1. t.env[e] = [s.env[e] EXCEPT !.slot = ref]
      BY <1>1 DEF Typed
  <2>2. EnvTyped(s.env[e])
      BY <1>1 DEF Typed
  <2>. QED BY <2>1, <2>2 DEF Shut, EnvTyped, EnvFields
<1>5. \A v : Shut(v) => v # Free /\ EnvTyped(v) /\ v.cxt = NULL /\ (v.slot # NULL => v.stack = TRUE)
    BY States DEF Shut, EnvTyped
<1>6. \A x, i, g : Holds(t, x, i, g) <=> Holds(s, x, i, g)
    BY DEF Holds
<1>7. \A g \in Env : (Live(t, g) <=> Live(s, g)) /\ (t.env[g] = Free <=> s.env[g] = Free)
    BY <1>2, <1>3, <1>4, <1>5 DEF Live
<1>8. \A g \in Env : Live(t, g) => t.env[g] = s.env[g] \/ (g = e /\ Shut(t.env[g]))
    BY <1>2, <1>4, <1>7
<1>9. Typed(t)
    BY <1>1, <1>2, <1>5, <1>7, <1>8 DEF Typed, Shaped
<1>0. DeadOf(t) = DeadOf(s)
    BY BarrieredDead
<1>10. OnFrames(t, X)
    BY <1>0, <1>5, <1>6, <1>7, <1>8 DEF OnFrames, Ok, Owned
<1>11. Closed(t)
    BY <1>5, <1>6, <1>7, <1>8 DEF Closed, Ok, Owned
<1>12. OneHolder(t) /\ HeldMade(t) /\ Runs(t)
    BY <1>0, <1>6, <1>7 DEF OneHolder, HeldMade, Runs, Ok, Owned
<1>13. DeadSound(t)
  <2>1. DeadMade(t) /\ TaskKept(t) /\ FibKept(t) /\ WhiteCells(t)
      BY <1>6, <1>7 DEF DeadSound, DeadMade, TaskKept, FibKept, WhiteCells, Barriered, Ok
  <2>2. HeldKept(t)
      BY <1>0, <1>6 DEF DeadSound, HeldKept, Ok
  <2>3. Disjoint(t) /\ Shaded(t)
      BY <1>6 DEF DeadSound, Shaded, Barriered, Ok
  <2>. QED BY <2>1, <2>2, <2>3 DEF DeadSound
<1>14. Follows(t, s)
    BY <1>1, Constants DEF Follows, SameEnvs, Typed, HasEnv
<1>. QED BY <1>9, <1>10, <1>11, <1>12, <1>13, <1>14 DEF Ok, Owned

LEMMA InstallOk ==
    ASSUME NEW s, NEW X, Ok(s, X), NEW o, Settled(s, o), NEW t, t = Install(s, o)
    PROVE  Ok(t, X) /\ Follows(t, s)
<1>1. Typed(s) /\ Follows(s, s)
    BY FollowsItself DEF Ok, Owned
<1>2. PICK ref : ref = S(Least(Unused(s.sv)))
    OBVIOUS
<1>3. PICK made : made = [s EXCEPT !.sv[ref[2]] = [is |-> "svar"]]
    OBVIOUS
<1>4. /\ Shaped(made) /\ made.gc = s.gc /\ made.fr = s.fr /\ made.c = s.c /\ made.blk = s.blk /\ made.env = s.env
      /\ DOMAIN made.sv = Svar
    BY <1>1, <1>3 DEF Typed, Shaped, StateFields
<1>5. Quiet(made, s)
    BY <1>1, <1>4, SameFrames DEF Typed, Shaped, SameCxt
<1>6. Ok(made, X) /\ Follows(made, s) /\ Typed(made)
    BY <1>4, <1>5, QuietOk, BarrieredItself DEF Ok, Owned
<1>7. PICK framed : framed = SetOnFrame(made, o.cxt, o.i, ref)
    OBVIOUS
<1>8. Quiet(framed, made) /\ framed.gc = made.gc
    BY <1>6, <1>7, SetOnFrameQuiet
<1>9. Ok(framed, X) /\ Follows(framed, s) /\ Typed(framed)
    BY <1>6, <1>8, QuietOk, BarrieredItself, FollowsThrough DEF Ok, Owned
<1>10. Ok(mrb_write_barrier(framed, F), X) /\ Follows(mrb_write_barrier(framed, F), s)
    BY <1>9, BarrierQuiet, QuietOk, FollowsThrough
<1>11. CASE o.at = "env"
  <2>1. PICK u : u = [made EXCEPT !.env[o.e].slot = ref]
      OBVIOUS
  <2>2. /\ Shaped(u) /\ u.gc = s.gc /\ u.fr = s.fr /\ u.c = s.c /\ u.blk = s.blk
        /\ u.env = [s.env EXCEPT ![o.e].slot = ref] /\ DOMAIN u.sv = Svar
      BY <1>4, <2>1 DEF Shaped, StateFields
  <2>3. s.env[o.e].cxt = NULL /\ s.env[o.e].stack
      BY <1>11 DEF Settled
  <2>4. Ok(u, X) /\ Follows(u, s) /\ Typed(u)
      BY <2>2, <2>3, SlotOk, BarrieredItself DEF Ok, Owned
  <2>5. Ok(mrb_write_barrier(u, E(o.e)), X) /\ Follows(mrb_write_barrier(u, E(o.e)), s)
      BY <2>4, BarrierQuiet, QuietOk, FollowsThrough
  <2>6. t = s \/ t = mrb_write_barrier(u, E(o.e))
      BY <1>2, <1>3, <1>11, <2>1 DEF Install
  <2>. QED BY <1>1, <2>5, <2>6
<1>12. CASE o.at # "env"
  <2>1. t = s \/ t = framed \/ t = mrb_write_barrier(framed, F)
      BY <1>2, <1>3, <1>7, <1>12 DEF Install
  <2>. QED BY <1>1, <1>9, <1>10, <2>1
<1>. QED BY <1>11, <1>12

LEMMA ForceOk ==
    ASSUME NEW s, NEW X, Ok(s, X), NEW t \in svar_owner_force(s) PROVE Ok(t, X) /\ Follows(t, s)
<1>. DEFINE Noted(u) == [u EXCEPT !.first[ScopeOf(s)] =
                           IF @ = NULL THEN svar_owner_container(u, svar_owner(u)) ELSE @]
<1>1. t = s \/ t \in MaybeCollected(s) \/ \E u \in MaybeCollected(s) : t = Noted(Install(u, svar_owner(u)))
    BY DEF svar_owner_force
<1>2. CASE t = s \/ t \in MaybeCollected(s)
    BY <1>2, FollowsItself, MaybeCollectedOk DEF Ok, Owned
<1>3. ASSUME NEW u \in MaybeCollected(s), t = Noted(Install(u, svar_owner(u))) PROVE Ok(t, X) /\ Follows(t, s)
  <2>1. Ok(u, X) /\ Follows(u, s)
      BY MaybeCollectedOk
  <2>2. PICK v : v = Install(u, svar_owner(u))
      OBVIOUS
  <2>3. Ok(v, X) /\ Follows(v, s)
      BY <2>1, <2>2, OwnerSettled, InstallOk, FollowsThrough DEF Ok, Owned
  <2>4. t = Noted(v)
      BY <1>3, <2>2
  <2>5. Typed(v)
      BY <2>3 DEF Ok, Owned
  <2>6. /\ DOMAIN t = StateFields /\ t.gc = v.gc /\ t.fr = v.fr /\ t.c = v.c /\ t.blk = v.blk /\ t.env = v.env
        /\ t.sv = v.sv
      BY <2>4, <2>5 DEF Typed, StateFields
  <2>7. Quiet(t, v)
      BY <2>5, <2>6, SameFrames DEF Typed, SameCxt
  <2>. QED BY <2>3, <2>6, <2>7, QuietOk, BarrieredItself, FollowsThrough
<1>. QED BY <1>1, <1>2, <1>3

LEMMA AdoptedOk ==
    ASSUME NEW s, NEW X, Ok(s, X), NEW a \in Adopted(s) PROVE Ok(a.s, X) /\ Follows(a.s, s)
<1>1. a.s = s \/ a.s \in svar_owner_force(s)
    BY DEF Adopted
<1>2. Follows(s, s)
    BY FollowsItself DEF Ok, Owned
<1>. QED BY <1>1, <1>2, ForceOk

-----------------------------------------------------------------------------
(* Frames that come and go.                                                *)

\* Every env stays where it is.
LEMMA SameHolders ==
    ASSUME NEW s, NEW X, Ok(s, X), NEW t, Typed(t), t.env = s.env, Barriered(t, s),
           \A e \in Env : \A x, i : Holds(t, x, i, e) <=> Holds(s, x, i, e),
           t.c.kind = s.c.kind \/ DOMAIN s.fr[Fib] = {}, Runs(t), FibKept(t)
    PROVE  Ok(t, X)
<1>1. \A e : Live(t, e) <=> Live(s, e)
    BY DEF Live
<1>2. DeadOf(t) = DeadOf(s)
    BY BarrieredDead
<1>3. OnFrames(t, X)
    BY <1>1, <1>2 DEF Ok, Owned, OnFrames
<1>4. Closed(t) /\ OneHolder(t) /\ HeldMade(t)
    BY <1>1, <1>2 DEF Ok, Owned, Closed, OneHolder, HeldMade
<1>5. DeadMade(t) /\ WhiteCells(t)
    BY DEF Ok, DeadSound, DeadMade, WhiteCells, Barriered
<1>6. TaskKept(t)
    BY DEF Ok, DeadSound, TaskKept, Holds, Barriered
<1>7. HeldKept(t)
    BY <1>2 DEF Ok, DeadSound, HeldKept
<1>8. Disjoint(t) /\ Shaded(t)
    BY DEF Ok, DeadSound, Shaded, Barriered
<1>. QED BY <1>3, <1>4, <1>5, <1>6, <1>7, <1>8 DEF Ok, Owned, DeadSound

\* The env e is closed and its frame gone, if it had one still; no other moves.
LEMMA CloseOne ==
    ASSUME NEW s, NEW X, Ok(s, X), NEW e \in Env, X \subseteq {e}, NEW t, Typed(t), Shut(t.env[e]),
           \A g \in Env \ {e} : t.env[g] = s.env[g], Barriered(t, s),
           \A g \in Env \ {e} : \A x, i : Holds(t, x, i, g) <=> Holds(s, x, i, g),
           \A x, i : ~Holds(t, x, i, e), t.c.kind = s.c.kind, Runs(t), FibKept(t)
    PROVE  Ok(t, {})
<1>1. \A g \in Env \ {e} : Live(t, g) <=> Live(s, g)
    BY DEF Live
<1>0. DeadOf(t) = DeadOf(s)
    BY BarrieredDead
<1>2. t.env[e] # Free /\ t.env[e].cxt = NULL /\ (t.env[e].slot # NULL => t.env[e].stack = TRUE)
    BY States DEF Shut
<1>3. OnFrames(t, {})
    BY <1>0, <1>1, <1>2 DEF Ok, Owned, OnFrames
<1>4. Closed(t)
    BY <1>1, <1>2 DEF Ok, Owned, Closed
<1>5. OneHolder(t)
  <2>. SUFFICES ASSUME NEW g \in Env, NEW x, NEW i, NEW y, NEW j, Holds(t, x, i, g), Holds(t, y, j, g)
                PROVE  x = y /\ i = j
      BY DEF OneHolder
  <2>1. g # e
      OBVIOUS
  <2>2. Holds(s, x, i, g) /\ Holds(s, y, j, g)
      BY <2>1
  <2>. QED BY <2>2 DEF Ok, Owned, OneHolder
<1>6. HeldMade(t)
    BY <1>0, <1>2 DEF Ok, Owned, HeldMade
<1>7. DeadMade(t) /\ WhiteCells(t)
    BY <1>2 DEF Ok, DeadSound, DeadMade, WhiteCells, Barriered
<1>8. TaskKept(t)
    BY DEF Ok, DeadSound, TaskKept, Barriered
<1>9. HeldKept(t)
    BY <1>0 DEF Ok, DeadSound, HeldKept
<1>10. Disjoint(t) /\ Shaded(t)
    BY DEF Ok, DeadSound, Shaded, Barriered
<1>. QED BY <1>3, <1>4, <1>5, <1>6, <1>7, <1>8, <1>9, <1>10 DEF Ok, Owned, DeadSound

LEMMA FrameHasEnv == ASSUME NEW p, NEW sc, NEW l PROVE HasEnv(Frame(p, sc, l)) /\ Frame(p, sc, l).env = NULL
    BY DEF HasEnv, Frame

\* A frame without an env is pushed on what runs.
LEMMA PushOk ==
    ASSUME NEW s, NEW X, Ok(s, X), NEW f, HasEnv(f), f.env = NULL, NEW t, Shaped(t), SameCxt(t, s),
           DOMAIN t.fr = Context, t.fr[s.c.cur] = Append(s.fr[s.c.cur], f),
           \A x \in Context \ {s.c.cur} : t.fr[x] = s.fr[x], t.env = s.env, DOMAIN t.blk = Block, DOMAIN t.sv = Svar,
           Barriered(t, s)
    PROVE  Ok(t, X)
<1>1. PICK z : z = s.c.cur
    OBVIOUS
<1>2. PICK q : q = s.fr[z]
    OBVIOUS
<1>3. PICK r : r = Append(q, f)
    OBVIOUS
<1>4. Typed(s) /\ z \in Context /\ IsSeq(q) /\ \A i \in DOMAIN q : HasEnv(q[i])
    BY <1>1, <1>2 DEF Ok, Owned, Typed, CxtTyped
<1>6. /\ IsSeq(r) /\ DOMAIN r = 1 .. Len(q) + 1 /\ \A i \in 1 .. Len(q) : r[i] = q[i]
      /\ r[Len(q) + 1] = f
    BY <1>3, <1>4, AppendSeq
<1>7. Len(q) \in Nat /\ DOMAIN q = 1 .. Len(q)
    BY <1>4, SeqFacts
<1>8. DOMAIN t.fr = Context /\ t.fr[z] = r /\ \A x \in Context \ {z} : t.fr[x] = s.fr[x]
    BY <1>1, <1>2, <1>3
<1>9. \A i \in DOMAIN r : HasEnv(r[i])
    BY <1>4, <1>6, <1>7
<1>10. Typed(t)
  <2>1. ASSUME NEW x \in Context PROVE IsSeq(t.fr[x]) /\ \A i \in DOMAIN t.fr[x] : HasEnv(t.fr[x][i])
      BY <1>4, <1>6, <1>8, <1>9 DEF Typed
  <2>2. \A e \in Env : Live(t, e) => EnvTyped(t.env[e])
      BY <1>4 DEF Typed, Live
  <2>. QED BY <1>4, <1>8, <2>1, <2>2 DEF Typed, Shaped, SameCxt
<1>11. ASSUME NEW e \in Env, NEW x, NEW i PROVE Holds(t, x, i, e) <=> Holds(s, x, i, e)
  <2>1. CASE x = z
    <3>1. i \in 1 .. Len(q) + 1 => i \in 1 .. Len(q) \/ i = Len(q) + 1
        BY <1>7
    <3>2. i \in 1 .. Len(q) => i \in 1 .. Len(q) + 1
        BY <1>7
    <3>. QED BY <1>2, <1>4, <1>6, <1>7, <1>8, <2>1, <3>1, <3>2, Constants DEF Holds
  <2>2. CASE x # z
      BY <1>8, <2>2 DEF Holds
  <2>. QED BY <2>1, <2>2
<1>12. Runs(t)
  <2>1. 1 \in DOMAIN r
      BY <1>6, <1>7
  <2>2. DOMAIN t.fr[Root] # {} /\ DOMAIN t.fr[t.c.cur] # {}
      BY <1>1, <1>8, <2>1, Constants DEF Ok, Owned, Runs, SameCxt
  <2>3. ASSUME t.c.kind = "none" PROVE DOMAIN t.fr[Fib] = {}
    <3>1. DOMAIN s.fr[Fib] = {} /\ DOMAIN s.fr[z] # {}
        BY <1>1, <2>3 DEF Ok, Owned, Runs, SameCxt
    <3>. QED BY <1>8, <3>1, Constants
  <2>. QED BY <2>2, <2>3 DEF Runs
<1>13. FibKept(t)
    BY DEF Ok, DeadSound, FibKept, SameCxt, Barriered
<1>. QED BY <1>10, <1>11, <1>12, <1>13, SameHolders DEF SameCxt

\* The frames of z without the top one
LEMMA PopIs ==
    ASSUME NEW s, Typed(s), NEW z \in Context, NEW t,
           DOMAIN t.fr = Context, t.fr[z] = Front(s.fr[z]), \A x \in Context \ {z} : t.fr[x] = s.fr[x]
    PROVE  /\ IsSeq(t.fr[z]) /\ DOMAIN t.fr[z] = 1 .. Len(s.fr[z]) - 1
           /\ \A x \in Context : IsSeq(t.fr[x]) /\ \A i \in DOMAIN t.fr[x] : HasEnv(t.fr[x][i])
           /\ \A x, i, e : Holds(t, x, i, e) <=> Holds(s, x, i, e) /\ ~(x = z /\ i = Len(s.fr[z]))
<1>1. PICK q : q = s.fr[z]
    OBVIOUS
<1>2. PICK r : r = Front(q)
    OBVIOUS
<1>3. IsSeq(q) /\ \A i \in DOMAIN q : HasEnv(q[i])
    BY <1>1 DEF Typed
<1>4. Len(q) \in Nat /\ DOMAIN q = 1 .. Len(q)
    BY <1>3, SeqFacts
<1>5. IsSeq(r) /\ DOMAIN r = 1 .. Len(q) - 1 /\ \A i \in 1 .. Len(q) - 1 : r[i] = q[i]
    BY <1>2, <1>3, FrontSeq
<1>6. DOMAIN t.fr = Context /\ t.fr[z] = r /\ \A x \in Context \ {z} : t.fr[x] = s.fr[x]
    BY <1>1, <1>2
<1>. DEFINE Below(n) == /\ \A i \in 1 .. n - 1 : i \in 1 .. n /\ i # n
                        /\ \A i \in 1 .. n : i = n \/ i \in 1 .. n - 1
<1>7. \A n \in Nat : Below(n)
    OBVIOUS
<1>8. Below(Len(q))
    BY <1>4, <1>7
<1>9. \A x \in Context : IsSeq(t.fr[x]) /\ \A i \in DOMAIN t.fr[x] : HasEnv(t.fr[x][i])
    BY <1>3, <1>4, <1>5, <1>6, <1>8 DEF Typed
<1>10. \A x, i, e : Holds(t, x, i, e) <=> Holds(s, x, i, e) /\ ~(x = z /\ i = Len(s.fr[z]))
    BY <1>1, <1>4, <1>5, <1>6, <1>8 DEF Holds
<1>. QED BY <1>1, <1>5, <1>6, <1>9, <1>10

-----------------------------------------------------------------------------
(* The actions.                                                            *)

Into(t) == fr' = t.fr /\ blk' = t.blk /\ env' = t.env /\ sv' = t.sv /\ c' = t.c /\ gc' = t.gc
Lands == \E t : Ok(t, {}) /\ Into(t)
OwnedInv == Ok(Now, {})

LEMMA NowIs ==
    ASSUME NEW s, s = Now
    PROVE  s.fr = fr /\ s.blk = blk /\ s.env = env /\ s.sv = sv /\ s.c = c /\ s.gc = gc
    BY DEF Now

\* A state that differs from an Ok one in what the envs do not depend on
LEMMA PlainOk ==
    ASSUME NEW s, NEW X, Ok(s, X), NEW t, Shaped(t), t.fr = s.fr, t.env = s.env, DOMAIN t.blk = Block, DOMAIN t.sv = Svar,
           Barriered(t, s), CxtTyped(t.c), t.c.kind = s.c.kind,
           t.c.cur = Root \/ DOMAIN s.fr[Fib] # {}, FibKept(t)
    PROVE  Ok(t, X)
<1>1. Typed(t)
  <2>1. \A e \in Env : Live(t, e) => EnvTyped(t.env[e])
      BY DEF Ok, Owned, Typed, Live
  <2>. QED BY <2>1 DEF Ok, Owned, Typed, Shaped
<1>2. Runs(t)
    BY Constants DEF Ok, Owned, Runs, CxtTyped
<1>3. \A e \in Env : \A x, i : Holds(t, x, i, e) <=> Holds(s, x, i, e)
    BY DEF Holds
<1>. QED BY <1>1, <1>2, <1>3, SameHolders

LEMMA PushLands == ASSUME OwnedInv, NEW f, NEW n, HasEnv(f), f.env = NULL, Push(f, n) PROVE Lands
<1>1. PICK s : s = Now
    OBVIOUS
<1>2. Ok(s, {}) /\ s.c = c /\ Typed(s)
    BY <1>1, NowIs DEF OwnedInv, Ok, Owned
<1>3. PICK t : t = [s EXCEPT !.fr[s.c.cur] = Append(@, f), !.c.calls = @ + n] /\ Into(t)
    BY <1>1, <1>2 DEF Push, Go, Into
<1>4. /\ Shaped(t) /\ DOMAIN t.fr = Context /\ t.fr[s.c.cur] = Append(s.fr[s.c.cur], f)
      /\ \A x \in Context \ {s.c.cur} : t.fr[x] = s.fr[x]
      /\ t.env = s.env /\ t.blk = s.blk /\ t.sv = s.sv /\ t.gc = s.gc /\ t.c = [s.c EXCEPT !.calls = @ + n]
    BY <1>2, <1>3 DEF Shaped, Typed, StateFields, CxtTyped
<1>5. SameCxt(t, s)
    BY <1>2, <1>4 DEF SameCxt, Typed, CxtTyped, CxtFields
<1>6. Ok(t, {})
    BY <1>2, <1>4, <1>5, PushOk, BarrieredItself DEF Typed
<1>. QED BY <1>3, <1>6 DEF Lands

LEMMA CallMethodLands == ASSUME OwnedInv, CallMethod PROVE Lands
<1>1. PICK f : f = Frame(Method, Least(Scope \ Known(Now)), FALSE) /\ Push(f, 1)
    BY DEF CallMethod
<1>2. HasEnv(f) /\ f.env = NULL
    BY <1>1, FrameHasEnv
<1>. QED BY <1>1, <1>2, PushLands

LEMMA CallBlockLands == ASSUME OwnedInv, CallBlock PROVE Lands
<1>1. PICK b, f : f = Frame(b, blk[b].sc, blk[b].load) /\ Push(f, 2)
    BY DEF CallBlock
<1>2. HasEnv(f) /\ f.env = NULL
    BY <1>1, FrameHasEnv
<1>. QED BY <1>1, <1>2, PushLands

LEMMA RunLoadLands == ASSUME OwnedInv, RunLoad PROVE Lands
<1>1. PICK f : f = Frame(Load, TopOf(Now, c.cur).sc, TRUE) /\ Push(f, 1)
    BY DEF RunLoad
<1>2. HasEnv(f) /\ f.env = NULL
    BY <1>1, FrameHasEnv
<1>. QED BY <1>1, <1>2, PushLands

\* The top frame goes, and it has no env.
LEMMA PopNullOk ==
    ASSUME NEW u, Ok(u, {}), NEW z, z = u.c.cur, NEW n \in Nat, n # 0, Len(u.fr[z]) = n + 1, u.fr[z][n + 1].env = NULL,
           NEW t, t = [u EXCEPT !.fr[z] = Front(@)]
    PROVE  Ok(t, {})
<1>1. z \in Context /\ u.c.cur = z /\ Typed(u)
    BY DEF Ok, Owned, Typed, CxtTyped
<1>2. /\ Shaped(t) /\ DOMAIN t.fr = Context /\ t.fr[z] = Front(u.fr[z])
      /\ \A x \in Context \ {z} : t.fr[x] = u.fr[x]
      /\ t.env = u.env /\ t.blk = u.blk /\ t.sv = u.sv /\ t.gc = u.gc /\ t.c = u.c
    BY <1>1 DEF Shaped, Typed, StateFields
<1>3. /\ IsSeq(t.fr[z]) /\ DOMAIN t.fr[z] = 1 .. Len(u.fr[z]) - 1
      /\ \A x \in Context : IsSeq(t.fr[x]) /\ \A i \in DOMAIN t.fr[x] : HasEnv(t.fr[x][i])
      /\ \A x, i, e : Holds(t, x, i, e) <=> Holds(u, x, i, e) /\ ~(x = z /\ i = Len(u.fr[z]))
    BY ONLY <1>1, <1>2, PopIs
<1>4. Typed(t)
  <2>1. \A e \in Env : Live(t, e) => EnvTyped(t.env[e])
      BY <1>1, <1>2 DEF Typed, Live
  <2>. QED BY <1>1, <1>2, <1>3, <2>1 DEF Typed, Shaped
<1>5. \A e \in Env : \A x, i : Holds(t, x, i, e) <=> Holds(u, x, i, e)
  <2>1. \A e \in Env : ~Holds(u, z, Len(u.fr[z]), e)
      BY Constants DEF Holds
  <2>. QED BY ONLY <1>3, <2>1
<1>6. Runs(t)
  <2>1. 1 \in DOMAIN t.fr[z]
      BY <1>3
  <2>2. DOMAIN t.fr[Root] # {} /\ DOMAIN t.fr[t.c.cur] # {}
      BY <1>1, <1>2, <2>1, Constants DEF Ok, Owned, Runs
  <2>3. ASSUME t.c.kind = "none" PROVE DOMAIN t.fr[Fib] = {}
    <3>1. DOMAIN u.fr[Fib] = {} /\ DOMAIN u.fr[z] # {}
        BY <1>1, <1>2, <2>3 DEF Ok, Owned, Runs
    <3>. QED BY <1>2, <3>1, Constants
  <2>. QED BY <2>2, <2>3 DEF Runs
<1>7. FibKept(t)
    BY <1>2 DEF Ok, DeadSound, FibKept
<1>. QED BY <1>2, <1>4, <1>5, <1>6, <1>7, SameHolders, BarrieredItself

\* A call that came back
LEMMA CallDoneOk ==
    ASSUME NEW s, Ok(s, {}), NEW r, Ok(r, {}), SameCxt(r, s),
           DOMAIN r.fr[s.c.cur] = 1 .. Len(s.fr[s.c.cur]) + 1,
           r.fr[s.c.cur][Len(s.fr[s.c.cur]) + 1].env = NULL,
           NEW u, Ok(u, {}), Follows(u, r), NEW t, t = [u EXCEPT !.fr[Cur(u)] = Front(@)]
    PROVE  Ok(t, {})
<1>1. PICK z : z = s.c.cur
    OBVIOUS
<1>2. z \in Context /\ u.c.cur = z /\ Typed(u) /\ Typed(s)
    BY <1>1 DEF Ok, Owned, Typed, CxtTyped, SameCxt, Follows
<1>3. SameEnvs(u, r, z)
    BY <1>2, Constants DEF Follows, Ok, Owned, Runs
<1>4. PICK n \in Nat : n = Len(s.fr[z]) /\ n # 0
  <2>1. IsSeq(s.fr[z]) /\ DOMAIN s.fr[z] # {}
      BY <1>1, <1>2 DEF Typed, Ok, Owned, Runs
  <2>2. Len(s.fr[z]) \in Nat /\ DOMAIN s.fr[z] = 1 .. Len(s.fr[z])
      BY <2>1, SeqFacts
  <2>. QED BY <2>1, <2>2
<1>5. Len(u.fr[z]) = n + 1
  <2>1. DOMAIN u.fr[z] = 1 .. n + 1 /\ IsSeq(u.fr[z])
      BY <1>1, <1>3, <1>4 DEF SameEnvs
  <2>2. Len(u.fr[z]) \in Nat /\ DOMAIN u.fr[z] = 1 .. Len(u.fr[z])
      BY <2>1, SeqFacts
  <2>3. \A a, b \in Nat : 1 .. a = 1 .. b + 1 => a = b + 1
      OBVIOUS
  <2>. QED BY <2>1, <2>2, <2>3
<1>6. u.fr[z][n + 1].env = NULL
  <2>1. n + 1 \in 1 .. n + 1
      OBVIOUS
  <2>. QED BY <1>1, <1>3, <1>4, <2>1 DEF SameEnvs
<1>. QED BY ONLY <1>2, <1>4, <1>5, <1>6, PopNullOk, Ok(u, {}), t = [u EXCEPT !.fr[Cur(u)] = Front(@)] DEF Cur

LEMMA SvarSetLands == ASSUME OwnedInv, mrb_vm_svar_set PROVE Lands
<1>1. PICK s : s = Now
    OBVIOUS
<1>2. Ok(s, {}) /\ Typed(s)
    BY <1>1 DEF OwnedInv, Ok, Owned
<1>3. PICK b : \E t \in svar_owner_force(Calling(s, b)) : Go(CallDone(t, b))
    BY <1>1 DEF mrb_vm_svar_set
<1>4. PICK r : r = Calling(s, b)
    OBVIOUS
<1>5. PICK u \in svar_owner_force(r) : Go(CallDone(u, b))
    BY <1>3, <1>4
<1>6. PICK t : t = CallDone(u, b) /\ Into(t)
    BY <1>5 DEF Go, Into
<1>7. CASE b = NULL
  <2>1. r = s /\ t = u
      BY <1>4, <1>6, <1>7 DEF Calling, CallDone
  <2>2. Ok(t, {})
      BY <1>2, <1>5, <2>1, ForceOk
  <2>. QED BY <1>6, <2>2 DEF Lands
<1>8. CASE b # NULL
  <2>1. PICK f : f = Frame(b, s.blk[b].sc, s.blk[b].load)
      OBVIOUS
  <2>2. HasEnv(f) /\ f.env = NULL
      BY <2>1, FrameHasEnv
  <2>3. r = [s EXCEPT !.fr[s.c.cur] = Append(@, f)]
      BY <1>4, <1>8, <2>1 DEF Calling, Cur
  <2>4. /\ Shaped(r) /\ DOMAIN r.fr = Context /\ r.fr[s.c.cur] = Append(s.fr[s.c.cur], f)
        /\ \A x \in Context \ {s.c.cur} : r.fr[x] = s.fr[x]
        /\ r.env = s.env /\ r.blk = s.blk /\ r.sv = s.sv /\ r.gc = s.gc /\ r.c = s.c
      BY <1>2, <2>3 DEF Shaped, Typed, StateFields, CxtTyped
  <2>5. SameCxt(r, s)
      BY <1>2, <2>4 DEF SameCxt, Typed
  <2>6. /\ Ok(r, {}) /\ DOMAIN r.fr[s.c.cur] = 1 .. Len(s.fr[s.c.cur]) + 1
        /\ r.fr[s.c.cur][Len(s.fr[s.c.cur]) + 1].env = NULL
    <3>1. DOMAIN r.blk = Block /\ DOMAIN r.sv = Svar /\ Barriered(r, s)
        BY <1>2, <2>4, BarrieredItself DEF Typed
    <3>2. Ok(r, {})
        BY <1>2, <2>2, <2>4, <2>5, <3>1, PushOk
    <3>3. IsSeq(s.fr[s.c.cur])
        BY <1>2 DEF Typed, CxtTyped
    <3>4. PICK q : q = s.fr[s.c.cur] /\ IsSeq(q)
        BY <3>3
    <3>5. DOMAIN Append(q, f) = 1 .. Len(q) + 1 /\ Append(q, f)[Len(q) + 1] = f
        BY ONLY <3>4, AppendSeq
    <3>. QED BY ONLY <2>2, <2>4, <3>2, <3>4, <3>5
  <2>7. Ok(u, {}) /\ Follows(u, r)
      BY <1>5, <2>6, ForceOk
  <2>8. t = [u EXCEPT !.fr[Cur(u)] = Front(@)]
      BY <1>6, <1>8 DEF CallDone
  <2>9. Ok(t, {})
      BY <1>2, <2>2, <2>5, <2>6, <2>7, <2>8, CallDoneOk
  <2>. QED BY <1>6, <2>9 DEF Lands
<1>. QED BY <1>7, <1>8

\* The env of the top frame is closed and the frame goes.
LEMMA PopClosedOk ==
    ASSUME NEW s, Ok(s, {}), NEW z, z = s.c.cur, NEW n \in Nat, n # 0, Len(s.fr[z]) = n + 1,
           NEW e \in Env, s.fr[z][n + 1].env = e,
           NEW u, Ok(u, {}), Follows(u, s), NEW carried, NEW fails \in BOOLEAN,
           NEW v, v = mrb_env_detach(u, e, carried, fails), NEW t, t = [v EXCEPT !.fr[z] = Front(@)]
    PROVE  Ok(t, {})
<1>1. z \in Context /\ u.c.cur = z /\ Typed(u) /\ Typed(s) /\ Shaped(u)
    BY DEF Ok, Owned, Typed, CxtTyped, Follows, Shaped
<1>2. SameEnvs(u, s, z)
    BY <1>1, Constants DEF Follows, Ok, Owned, Runs
<1>3. DOMAIN s.fr[z] = 1 .. n + 1 /\ n + 1 \in 1 .. n + 1
    BY <1>1, SeqFacts DEF Typed
<1>4. Len(u.fr[z]) = n + 1 /\ Holds(u, z, n + 1, e)
  <2>1. DOMAIN u.fr[z] = 1 .. n + 1 /\ IsSeq(u.fr[z])
      BY <1>2, <1>3 DEF SameEnvs
  <2>2. Len(u.fr[z]) \in Nat /\ DOMAIN u.fr[z] = 1 .. Len(u.fr[z])
      BY <2>1, SeqFacts
  <2>3. \A a, b \in Nat : 1 .. a = 1 .. b + 1 => a = b + 1
      OBVIOUS
  <2>4. Len(u.fr[z]) = n + 1
      BY <2>1, <2>2, <2>3
  <2>. QED BY <1>1, <1>2, <1>3, <2>1, <2>4 DEF SameEnvs, Holds
<1>5. /\ Shaped(v) /\ Barriered(v, u) /\ v.fr = u.fr /\ v.blk = u.blk /\ v.sv = u.sv /\ v.c = u.c
      /\ DOMAIN v.env = Env /\ Shut(v.env[e]) /\ \A g \in Env \ {e} : v.env[g] = u.env[g]
    BY <1>1, DetachIs DEF Typed
<1>6. /\ Shaped(t) /\ DOMAIN t.fr = Context /\ t.fr[z] = Front(u.fr[z])
      /\ \A x \in Context \ {z} : t.fr[x] = u.fr[x]
      /\ t.env = v.env /\ t.blk = u.blk /\ t.sv = u.sv /\ t.gc = v.gc /\ t.c = u.c
  <2>1. DOMAIN u.fr = Context
      BY <1>1 DEF Typed
  <2>. QED BY <1>1, <1>5, <2>1 DEF Shaped, StateFields
<1>7. /\ IsSeq(t.fr[z]) /\ DOMAIN t.fr[z] = 1 .. Len(u.fr[z]) - 1
      /\ \A x \in Context : IsSeq(t.fr[x]) /\ \A i \in DOMAIN t.fr[x] : HasEnv(t.fr[x][i])
      /\ \A x, i, g : Holds(t, x, i, g) <=> Holds(u, x, i, g) /\ ~(x = z /\ i = Len(u.fr[z]))
    BY ONLY <1>1, <1>6, PopIs
<1>8. Typed(t)
  <2>1. EnvTyped(v.env[e])
      BY <1>5 DEF Shut, EnvTyped
  <2>2. \A g \in Env : Live(t, g) => EnvTyped(t.env[g])
      BY <1>1, <1>5, <1>6, <2>1 DEF Typed, Live
  <2>. QED BY <1>1, <1>5, <1>6, <1>7, <2>2 DEF Typed, Shaped
<1>9. \A g \in Env \ {e} : \A x, i : Holds(t, x, i, g) <=> Holds(u, x, i, g)
  <2>1. \A g \in Env \ {e} : ~Holds(u, z, Len(u.fr[z]), g)
      BY <1>4 DEF Holds
  <2>. QED BY ONLY <1>7, <2>1
<1>10. \A x, i : ~Holds(t, x, i, e)
    BY <1>4, <1>7 DEF Ok, Owned, OneHolder
<1>11. Runs(t)
  <2>1. 1 \in DOMAIN t.fr[z]
      BY <1>4, <1>7
  <2>2. DOMAIN t.fr[Root] # {} /\ DOMAIN t.fr[t.c.cur] # {}
      BY <1>1, <1>6, <2>1, Constants DEF Ok, Owned, Runs
  <2>3. ASSUME t.c.kind = "none" PROVE DOMAIN t.fr[Fib] = {}
    <3>1. DOMAIN u.fr[Fib] = {} /\ DOMAIN u.fr[z] # {}
        BY <1>1, <1>6, <2>3 DEF Ok, Owned, Runs
    <3>. QED BY <1>6, <3>1, Constants
  <2>. QED BY <2>2, <2>3 DEF Runs
<1>12. FibKept(t)
    BY <1>5, <1>6 DEF Ok, DeadSound, FibKept, Barriered
<1>13. /\ Shut(t.env[e]) /\ \A g \in Env \ {e} : t.env[g] = u.env[g]
       /\ Barriered(t, u) /\ t.c.kind = u.c.kind
  <2>1. t.env = v.env /\ t.gc = v.gc /\ t.c = u.c
      BY <1>6
  <2>2. Barriered(t, u)
    <3>1. Barriered(t, v) /\ Barriered(v, u)
        BY <1>5, <2>1, BarrieredItself
    <3>. QED BY <3>1, BarrieredThrough
  <2>. QED BY ONLY <1>5, <2>1, <2>2
<1>14. PICK X : X = {} /\ Ok(u, X) /\ X \subseteq {e}
    OBVIOUS
<1>. QED BY ONLY <1>8, <1>9, <1>10, <1>11, <1>12, <1>13, <1>14, e \in Env, CloseOne

LEMMA FailuresBoolean == Failures \subseteq BOOLEAN
    BY DEF Failures

LEMMA cipopLands == ASSUME OwnedInv, cipop PROVE Lands
<1>1. PICK s : s = Now
    OBVIOUS
<1>2. Ok(s, {}) /\ Typed(s) /\ s.fr = fr /\ s.c = c
    BY <1>1, NowIs DEF OwnedInv, Ok, Owned
<1>3. PICK z : z = c.cur
    OBVIOUS
<1>4. z \in Context /\ IsSeq(s.fr[z]) /\ z = s.c.cur
    BY <1>2, <1>3 DEF Typed, CxtTyped
<1>5. PICK n \in Nat : n # 0 /\ Len(s.fr[z]) = n + 1
  <2>1. Len(s.fr[z]) \in Nat /\ Len(s.fr[z]) > 1
      BY <1>2, <1>3, <1>4, SeqFacts DEF cipop
  <2>2. \A a \in Nat : a > 1 => a - 1 \in Nat /\ a - 1 # 0 /\ a = a - 1 + 1
      OBVIOUS
  <2>. QED BY <2>1, <2>2
<1>6. PICK e : e = s.fr[z][n + 1].env
    OBVIOUS
<1>7. TopOf(s, c.cur).env = e
    BY <1>3, <1>5, <1>6 DEF TopOf, Last
<1>8. CASE e = NULL
  <2>1. PICK t : t = [s EXCEPT !.fr[z] = Front(@)] /\ Into(t)
      BY <1>1, <1>3, <1>7, <1>8 DEF cipop, Go, Into
  <2>2. Ok(t, {})
      BY <1>2, <1>4, <1>5, <1>6, <1>8, <2>1, PopNullOk
  <2>. QED BY <2>1, <2>2 DEF Lands
<1>9. CASE e # NULL
  <2>1. PICK a \in Adopted(s) : \E u \in MaybeCollected(a.s), fails \in Failures :
                Go([mrb_env_detach(u, e, a.sv, fails) EXCEPT !.fr[z] = Front(@)])
      BY <1>1, <1>3, <1>7, <1>9 DEF cipop
  <2>2. PICK u \in MaybeCollected(a.s), fails \in Failures :
                Go([mrb_env_detach(u, e, a.sv, fails) EXCEPT !.fr[z] = Front(@)])
      BY <2>1
  <2>3. PICK v : v = mrb_env_detach(u, e, a.sv, fails)
      OBVIOUS
  <2>4. PICK t : t = [v EXCEPT !.fr[z] = Front(@)] /\ Into(t)
      BY <2>2, <2>3 DEF Go, Into
  <2>5. Ok(a.s, {}) /\ Follows(a.s, s)
      BY <1>2, AdoptedOk
  <2>6. Ok(u, {}) /\ Follows(u, s)
      BY <2>5, MaybeCollectedOk, FollowsThrough
  <2>7. e \in Env
    <3>1. n + 1 \in DOMAIN s.fr[z]
        BY <1>4, <1>5, SeqFacts
    <3>. QED BY <1>2, <1>4, <1>6, <1>9, <3>1 DEF Typed, HasEnv
  <2>8. fails \in BOOLEAN
      BY FailuresBoolean
  <2>9. Ok(t, {})
      BY ONLY <1>2, <1>4, <1>5, <1>6, <2>3, <2>4, <2>6, <2>7, <2>8, n \in Nat, PopClosedOk
  <2>. QED BY <2>4, <2>9 DEF Lands
<1>. QED BY <1>8, <1>9

-----------------------------------------------------------------------------

LEMMA EnvClearLands == ASSUME OwnedInv, mrb_vm_ci_env_clear PROVE Lands
<1>1. PICK s : s = Now
    OBVIOUS
<1>2. Ok(s, {}) /\ Typed(s) /\ s.fr = fr /\ s.c = c
    BY <1>1, NowIs DEF OwnedInv, Ok, Owned
<1>3. s.c.cur = Root /\ Root \in Context /\ IsSeq(s.fr[Root]) /\ Len(s.fr[Root]) = 1 /\ DOMAIN s.fr[Root] = {1}
  <2>1. s.c.cur = Root /\ Root \in Context /\ IsSeq(s.fr[Root]) /\ Len(s.fr[Root]) = 1
      BY <1>2, Constants DEF mrb_vm_ci_env_clear, Typed
  <2>2. DOMAIN s.fr[Root] = 1 .. 1
      BY <2>1, SeqFacts
  <2>. QED BY <2>1, <2>2
<1>4. PICK e : e = s.fr[Root][1].env
    OBVIOUS
<1>5. TopOf(s, Root).env = e /\ e \in Env \cup {NULL}
    BY <1>2, <1>3, <1>4 DEF TopOf, Last, Typed, HasEnv
<1>6. PICK f : f = Frame(Top, Least(Scope \ Known(Now)), FALSE)
    OBVIOUS
<1>7. HasEnv(f) /\ f.env = NULL
    BY <1>6, FrameHasEnv
<1>8. ASSUME NEW u, Ok(u, {}), Follows(u, s), NEW v, Shaped(v), Barriered(v, u), v.fr = u.fr,
             v.blk = u.blk, v.sv = u.sv, v.c = u.c, DOMAIN v.env = Env, \A g \in Env : Live(v, g) => EnvTyped(v.env[g]),
             NEW t, t = [v EXCEPT !.fr[Root][1] = f]
      PROVE  /\ Typed(t) /\ Runs(t) /\ FibKept(t) /\ t.env = v.env /\ t.gc = v.gc /\ t.c = u.c
             /\ \A x, i, g : Holds(t, x, i, g) <=> IF x = Root /\ i = 1 THEN g = NULL ELSE Holds(u, x, i, g)
             /\ \A i, g : Holds(u, Root, i, g) <=> i = 1 /\ g = e
  <2>1. Typed(u) /\ SameEnvs(u, s, Root)
      BY <1>8 DEF Ok, Owned, Follows
  <2>2. DOMAIN u.fr[Root] = {1} /\ u.fr[Root][1].env = e /\ IsSeq(u.fr[Root])
      BY <1>3, <1>4, <2>1 DEF SameEnvs
  <2>3. PICK q : q = [u.fr[Root] EXCEPT ![1] = f]
      OBVIOUS
  <2>4. DOMAIN q = {1} /\ q[1] = f
      BY <2>2, <2>3
  <2>5. IsSeq(q)
    <3>1. q = [i \in 1 .. 1 |-> f]
      <4>1. u.fr[Root] = [i \in DOMAIN u.fr[Root] |-> u.fr[Root][i]]
          BY <2>2 DEF IsSeq
      <4>. QED BY <2>2, <2>3, <4>1
    <3>2. q \in [1 .. 1 -> {f}]
        BY <3>1
    <3>. QED BY <3>2, IndexedIsSeq
  <2>6. /\ Shaped(t) /\ t.env = v.env /\ t.blk = u.blk /\ t.sv = u.sv /\ t.gc = v.gc /\ t.c = u.c
      BY <1>8 DEF Shaped, StateFields
  <2>7. t.fr = [u.fr EXCEPT ![Root] = q]
      BY <1>8, <2>3 DEF Shaped, StateFields
  <2>8. DOMAIN t.fr = Context /\ t.fr[Root] = q /\ \A x \in Context \ {Root} : t.fr[x] = u.fr[x]
      BY <2>1, <2>7, Constants DEF Typed
  <2>9. Typed(t)
    <3>1. \A x \in Context : IsSeq(t.fr[x]) /\ \A i \in DOMAIN t.fr[x] : HasEnv(t.fr[x][i])
        BY <1>7, <2>1, <2>4, <2>5, <2>8 DEF Typed
    <3>2. \A g \in Env : Live(t, g) => EnvTyped(t.env[g])
        BY <1>8, <2>6 DEF Live
    <3>. QED BY <1>8, <2>1, <2>6, <2>8, <3>1, <3>2 DEF Typed, Shaped
  <2>10. \A i, g : Holds(u, Root, i, g) <=> i = 1 /\ g = e
      BY <1>3, <2>2 DEF Holds
  <2>11. \A x, i, g : Holds(t, x, i, g) <=> IF x = Root /\ i = 1 THEN g = NULL ELSE Holds(u, x, i, g)
      BY <1>3, <1>7, <2>2, <2>4, <2>8 DEF Holds
  <2>12. Runs(t)
      BY <1>3, <1>8, <2>4, <2>6, <2>8, Constants DEF Ok, Owned, Runs, Follows
  <2>13. FibKept(t)
      BY <1>8, <2>6 DEF Ok, DeadSound, FibKept, Barriered
  <2>. QED BY <2>6, <2>9, <2>10, <2>11, <2>12, <2>13
<1>9. CASE e = NULL
  <2>1. PICK t : t = [s EXCEPT !.fr[Root][1] = f] /\ Into(t)
      BY <1>1, <1>5, <1>6, <1>9 DEF mrb_vm_ci_env_clear, Go, Into
  <2>2. /\ Shaped(s) /\ DOMAIN s.env = Env /\ (\A g \in Env : Live(s, g) => EnvTyped(s.env[g]))
        /\ Follows(s, s) /\ Barriered(s, s)
      BY <1>2, FollowsItself, BarrieredItself DEF Typed, Shaped
  <2>3. /\ Typed(t) /\ Runs(t) /\ FibKept(t) /\ t.env = s.env /\ t.gc = s.gc /\ t.c = s.c
        /\ \A x, i, g : Holds(t, x, i, g) <=> IF x = Root /\ i = 1 THEN g = NULL ELSE Holds(s, x, i, g)
        /\ \A i, g : Holds(s, Root, i, g) <=> i = 1 /\ g = e
      BY <1>2, <1>8, <2>1, <2>2
  <2>4. \A g \in Env : \A x, i : Holds(t, x, i, g) <=> Holds(s, x, i, g)
      BY <1>9, <2>3, Constants
  <2>5. Ok(t, {})
      BY ONLY <1>2, <2>3, <2>4, SameHolders, BarrieredItself
  <2>. QED BY <2>1, <2>5 DEF Lands
<1>10. CASE e # NULL
  <2>1. e \in Env
      BY <1>5, <1>10
  <2>2. PICK no : no = FALSE
      OBVIOUS
  <2>3. PICK u \in MaybeCollected(s) : Go([mrb_env_detach(u, e, TopOf(s, Root).sv, no) EXCEPT !.fr[Root][1] = f])
      BY <1>1, <1>5, <1>6, <1>10, <2>2 DEF mrb_vm_ci_env_clear
  <2>4. PICK v : v = mrb_env_detach(u, e, TopOf(s, Root).sv, no)
      OBVIOUS
  <2>5. PICK t : t = [v EXCEPT !.fr[Root][1] = f] /\ Into(t)
      BY <2>3, <2>4 DEF Go, Into
  <2>6. Ok(u, {}) /\ Follows(u, s) /\ Typed(u) /\ Shaped(u) /\ DOMAIN u.env = Env
      BY <1>2, MaybeCollectedOk DEF Ok, Owned, Typed, Shaped
  <2>7. /\ Shaped(v) /\ Barriered(v, u) /\ v.fr = u.fr /\ v.blk = u.blk /\ v.sv = u.sv /\ v.c = u.c
        /\ DOMAIN v.env = Env /\ Shut(v.env[e]) /\ \A g \in Env \ {e} : v.env[g] = u.env[g]
    <3>1. no \in BOOLEAN
        BY <2>2
    <3>. QED BY ONLY <2>1, <2>4, <2>6, <3>1, DetachIs
  <2>8. \A g \in Env : Live(v, g) => EnvTyped(v.env[g])
    <3>1. EnvTyped(v.env[e])
        BY <2>7 DEF Shut, EnvTyped
    <3>. QED BY <2>6, <2>7, <3>1 DEF Typed, Live
  <2>9. /\ Typed(t) /\ Runs(t) /\ FibKept(t) /\ t.env = v.env /\ t.gc = v.gc /\ t.c = u.c
        /\ \A x, i, g : Holds(t, x, i, g) <=> IF x = Root /\ i = 1 THEN g = NULL ELSE Holds(u, x, i, g)
        /\ \A i, g : Holds(u, Root, i, g) <=> i = 1 /\ g = e
      BY <1>8, <2>5, <2>6, <2>7, <2>8
  <2>10. \A g \in Env \ {e} : \A x, i : Holds(t, x, i, g) <=> Holds(u, x, i, g)
      BY <2>9, Constants
  <2>11. \A x, i : ~Holds(t, x, i, e)
    <3>. SUFFICES ASSUME NEW x, NEW i, Holds(t, x, i, e) PROVE FALSE
        OBVIOUS
    <3>1. e # NULL
        BY <2>1, Constants
    <3>2. Holds(u, Root, 1, e) /\ OneHolder(u)
        BY <2>6, <2>9 DEF Ok, Owned
    <3>3. Holds(u, x, i, e) /\ ~(x = Root /\ i = 1)
        BY <2>9, <3>1
    <3>. QED BY ONLY <2>1, <3>2, <3>3 DEF OneHolder
  <2>12. PICK X : X = {} /\ Ok(u, X) /\ X \subseteq {e}
      BY <2>6
  <2>13. /\ Shut(t.env[e]) /\ \A g \in Env \ {e} : t.env[g] = u.env[g]
         /\ Barriered(t, u) /\ t.c.kind = u.c.kind
      BY <2>7, <2>9, BarrieredItself, BarrieredThrough
  <2>14. Ok(t, {})
      BY ONLY <2>1, <2>9, <2>10, <2>11, <2>12, <2>13, CloseOne
  <2>. QED BY <2>5, <2>14 DEF Lands
<1>. QED BY <1>9, <1>10

LEMMA DropBlockLands == ASSUME OwnedInv, DropBlock PROVE Lands
<1>1. PICK s : s = Now
    OBVIOUS
<1>2. Ok(s, {}) /\ Typed(s)
    BY <1>1 DEF OwnedInv, Ok, Owned
<1>3. PICK b, t : t = [s EXCEPT !.blk[b].held = FALSE] /\ Into(t)
    BY <1>1 DEF DropBlock, Go, Into
<1>4. /\ Shaped(t) /\ t.fr = s.fr /\ t.env = s.env /\ DOMAIN t.blk = Block /\ DOMAIN t.sv = Svar
      /\ t.gc = s.gc /\ t.c = s.c
    BY <1>2, <1>3 DEF Shaped, Typed, StateFields
<1>5. Quiet(t, s)
    BY <1>2, <1>4, SameFrames DEF Typed, Shaped, SameCxt
<1>6. Ok(t, {})
    BY <1>2, <1>4, <1>5, QuietOk, BarrieredItself
<1>. QED BY <1>3, <1>6 DEF Lands

LEMMA ResumeLands == ASSUME OwnedInv, Resume PROVE Lands
<1>1. PICK s : s = Now
    OBVIOUS
<1>2. Ok(s, {}) /\ Typed(s) /\ s.fr = fr /\ s.c = c
    BY <1>1, NowIs DEF OwnedInv, Ok, Owned
<1>3. PICK t : t = [s EXCEPT !.c.cur = Fib] /\ Into(t)
    BY <1>1 DEF Resume, Go, Into
<1>4. /\ Shaped(t) /\ t.fr = s.fr /\ t.env = s.env /\ t.blk = s.blk /\ t.sv = s.sv
      /\ t.gc = s.gc /\ t.c = [s.c EXCEPT !.cur = Fib]
    BY <1>2, <1>3 DEF Shaped, Typed, StateFields
<1>5. CxtTyped(t.c) /\ t.c.kind = s.c.kind
    BY <1>2, <1>4, Constants DEF Typed, CxtTyped, CxtFields
<1>6. DOMAIN s.fr[Fib] # {}
    BY <1>2, EmptyDomain, Constants DEF Resume, Typed
<1>7. F \notin s.gc.white
    BY <1>2 DEF Resume, Ok, DeadSound, FibKept
<1>8. FibKept(t)
    BY <1>4, <1>7 DEF FibKept
<1>9. Ok(t, {})
    BY <1>2, <1>4, <1>5, <1>6, <1>8, PlainOk, BarrieredItself DEF Typed
<1>. QED BY <1>3, <1>9 DEF Lands

LEMMA YieldLands == ASSUME OwnedInv, Yield PROVE Lands
<1>1. PICK s : s = Now
    OBVIOUS
<1>2. Ok(s, {}) /\ Typed(s) /\ s.c = c /\ Shaped(s)
    BY <1>1, NowIs DEF OwnedInv, Ok, Owned, Typed, Shaped
<1>3. PICK u : u = mrb_write_barrier(s, F)
    OBVIOUS
<1>4. PICK t : t = [u EXCEPT !.c.cur = Root] /\ Into(t)
    BY <1>1, <1>3 DEF Yield, Go, Into
<1>5. /\ Shaped(u) /\ Barriered(u, s)
      /\ u.fr = s.fr /\ u.env = s.env /\ u.blk = s.blk /\ u.sv = s.sv /\ u.c = s.c
    BY <1>2, <1>3, BarrierIs
<1>6. /\ Shaped(t) /\ t.fr = s.fr /\ t.env = s.env /\ t.blk = s.blk /\ t.sv = s.sv
      /\ t.gc = u.gc /\ t.c = [s.c EXCEPT !.cur = Root]
    BY <1>4, <1>5 DEF Shaped, StateFields
<1>b. Barriered(t, s)
    BY <1>5, <1>6, BarrieredItself, BarrieredThrough
<1>7. CxtTyped(t.c) /\ t.c.kind = s.c.kind /\ t.c.cur = Root
    BY <1>2, <1>6, Constants DEF Typed, CxtTyped, CxtFields
<1>8. F \notin s.gc.white
    BY <1>2, Constants DEF Yield, Ok, DeadSound, FibKept
<1>9. FibKept(t)
    BY <1>b, <1>8 DEF FibKept, Barriered
<1>10. Ok(t, {})
    BY <1>2, <1>b, <1>6, <1>7, <1>9, PlainOk DEF Typed
<1>. QED BY <1>4, <1>10 DEF Lands

LEMMA DropFiberLands == ASSUME OwnedInv, DropFiber PROVE Lands
<1>1. PICK s : s = Now
    OBVIOUS
<1>2. Ok(s, {}) /\ Typed(s)
    BY <1>1 DEF OwnedInv, Ok, Owned
<1>3. PICK t : t = [s EXCEPT !.c.held = FALSE] /\ Into(t)
    BY <1>1 DEF DropFiber, Go, Into
<1>4. /\ Shaped(t) /\ t.fr = s.fr /\ t.env = s.env /\ t.blk = s.blk /\ t.sv = s.sv
      /\ t.gc = s.gc /\ t.c = [s.c EXCEPT !.held = FALSE]
    BY <1>2, <1>3 DEF Shaped, Typed, StateFields
<1>5. CxtTyped(t.c) /\ t.c.kind = s.c.kind /\ t.c.cur = s.c.cur /\ t.c.held = FALSE
    BY <1>2, <1>4 DEF Typed, CxtTyped, CxtFields
<1>6. t.c.cur = Root \/ DOMAIN s.fr[Fib] # {}
    BY <1>2, <1>5, Constants DEF Ok, Owned, Runs, Typed, CxtTyped
<1>7. FibKept(t)
    BY <1>2, <1>4, <1>5 DEF Ok, DeadSound, FibKept
<1>8. Ok(t, {})
    BY <1>2, <1>4, <1>5, <1>6, <1>7, PlainOk, BarrieredItself DEF Typed
<1>. QED BY <1>3, <1>8 DEF Lands

LEMMA StartMarkLands == ASSUME OwnedInv, StartMark PROVE Lands
<1>1. PICK s : s = Now
    OBVIOUS
<1>2. PICK t : t = RootScan(s) /\ Into(t)
    BY <1>1 DEF StartMark, Go, Into
<1>3. Ok(s, {}) /\ s.gc.phase = "idle"
    BY <1>1, NowIs DEF OwnedInv, StartMark
<1>4. Ok(t, {})
    BY <1>2, <1>3, RootScanOk
<1>. QED BY <1>2, <1>4 DEF Lands

LEMMA MarkLands == ASSUME OwnedInv, Mark PROVE Lands
<1>1. PICK s : s = Now
    OBVIOUS
<1>2. PICK r \in gc.gray : Go(MarkOne(s, r))
    BY <1>1 DEF Mark
<1>3. PICK t : t = MarkOne(s, r) /\ Into(t)
    BY <1>2 DEF Go, Into
<1>4. Ok(s, {}) /\ s.gc.phase = "mark" /\ r \in s.gc.gray
    BY <1>1, <1>2, NowIs DEF OwnedInv, Mark
<1>5. Ok(t, {})
    BY <1>3, <1>4, MarkOneOk
<1>. QED BY <1>3, <1>5 DEF Lands

LEMMA FinishMarkLands == ASSUME OwnedInv, FinishMark PROVE Lands
<1>1. PICK s : s = Now
    OBVIOUS
<1>2. PICK t : t = FinalMark(s) /\ Into(t)
    BY <1>1 DEF FinishMark, Go, Into
<1>3. Ok(s, {}) /\ s.gc.phase = "mark"
    BY <1>1, NowIs DEF OwnedInv, FinishMark
<1>4. Ok(t, {})
    BY <1>2, <1>3, FinalMarkOk
<1>. QED BY <1>2, <1>4 DEF Lands

LEMMA SweepLands == ASSUME OwnedInv, Sweep PROVE Lands
<1>1. PICK s : s = Now
    OBVIOUS
<1>2. PICK page, fails, t : fails \in Failures /\ t = SweepPage(s, page, fails) /\ Into(t)
    BY <1>1 DEF Sweep, Go, Into
<1>3. fails \in BOOLEAN
    BY <1>2, FailuresBoolean
<1>4. Ok(s, {}) /\ s.gc.phase = "sweep"
    BY <1>1, NowIs DEF OwnedInv, Sweep
<1>5. Ok(t, {})
    BY <1>2, <1>3, <1>4, SweepPageOk
<1>. QED BY <1>2, <1>5 DEF Lands

LEMMA LeastOf == ASSUME NEW X \in SUBSET Nat, X # {} PROVE Least(X) \in X
    BY LeastMember DEF Least

\* mrb_closure_new(): no frame has the env's cell, and the frame had no env.
LEMMA MakeBlockLands == ASSUME StaleReuse = FALSE, OwnedInv, MakeBlock PROVE Lands
<1>1. PICK s : s = Now
    OBVIOUS
<1>2. Ok(s, {}) /\ Typed(s) /\ s.fr = fr /\ s.c = c /\ s.env = env
    BY <1>1, NowIs DEF OwnedInv, Ok, Owned
<1>3. PICK z : z = s.c.cur
    OBVIOUS
<1>4. z \in Context /\ IsSeq(s.fr[z]) /\ DOMAIN s.fr[z] # {}
    BY <1>2, <1>3 DEF Typed, CxtTyped, Ok, Owned, Runs
<1>5. PICK n : n = Len(s.fr[z])
    OBVIOUS
<1>6. n \in DOMAIN s.fr[z]
  <2>1. n \in Nat /\ DOMAIN s.fr[z] = 1 .. n
      BY <1>4, <1>5, SeqFacts
  <2>. QED BY <1>4, <2>1
<1>7. s.fr[z][n].env = NULL
    BY <1>1, <1>2, <1>3, <1>5 DEF MakeBlock, TopOf, Last
<1>. DEFINE Made(b, e) == [env |-> e, upper |-> TopOf(Now, c.cur).proc, held |-> TRUE,
                           sc |-> TopOf(Now, c.cur).sc, load |-> TopOf(Now, c.cur).load]
<1>. DEFINE cells == {g \in Unused(env) : \A i \in DOMAIN fr[Fib] : fr[Fib][i].env # g}
<1>8. PICK b, e : /\ e = Least(cells) /\ cells # {}
                  /\ Go([Now EXCEPT !.blk[b] = Made(b, e),
                                    !.env[e] = [cxt |-> c.cur, stack |-> TRUE, slot |-> NULL],
                                    !.fr[c.cur][Len(fr[c.cur])].env = e,
                                    !.c.svars = @ \/ (c.cur = Fib /\ c.used)])
    BY DEF MakeBlock
<1>. HIDE DEF Made
<1>9. PICK v : v = [cxt |-> z, stack |-> TRUE, slot |-> NULL]
    OBVIOUS
<1>10. PICK t : /\ t = [s EXCEPT !.blk[b] = Made(b, e), !.env[e] = v, !.fr[z][n].env = e,
                                 !.c.svars = @ \/ (c.cur = Fib /\ c.used)]
                /\ Into(t)
    BY <1>1, <1>2, <1>3, <1>5, <1>8, <1>9 DEF Go, Into
<1>11. e \in Env /\ s.env[e] = Free /\ \A i : ~Holds(s, Fib, i, e)
  <2>1. /\ cells \in SUBSET Nat
        /\ \A g \in cells : g \in Env /\ s.env[g] = Free /\ \A i \in DOMAIN s.fr[Fib] : s.fr[Fib][i].env # g
      BY <1>2, ClosureAssumption DEF Unused, Typed
  <2>. HIDE DEF cells
  <2>2. e \in cells
      BY <1>8, <2>1, LeastOf
  <2>. QED BY <2>1, <2>2 DEF Holds
<1>. HIDE DEF cells
<1>12. PICK q : q = [s.fr[z] EXCEPT ![n].env = e]
    OBVIOUS
<1>13. /\ Shaped(t) /\ DOMAIN t.blk = Block /\ t.env = [s.env EXCEPT ![e] = v] /\ t.sv = s.sv /\ t.gc = s.gc
       /\ t.fr = [s.fr EXCEPT ![z] = q] /\ t.c = [s.c EXCEPT !.svars = @ \/ (c.cur = Fib /\ c.used)]
    BY <1>2, <1>10, <1>12 DEF Shaped, Typed, StateFields
<1>14. SameCxt(t, s)
    BY <1>2, <1>13 DEF SameCxt, Typed, CxtTyped, CxtFields
<1>15. DOMAIN t.env = Env /\ t.env[e] = v /\ \A g \in Env \ {e} : t.env[g] = s.env[g]
    BY <1>2, <1>11, <1>13 DEF Typed
<1>16. DOMAIN t.fr = Context /\ t.fr[z] = q /\ \A x \in Context \ {z} : t.fr[x] = s.fr[x]
    BY <1>2, <1>4, <1>13 DEF Typed
<1>17. \A i \in DOMAIN s.fr[z] : HasEnv(s.fr[z][i])
    BY <1>2, <1>4 DEF Typed
<1>18. DOMAIN q = DOMAIN s.fr[z] /\ HasEnv(q[n]) /\ q[n].env = e /\ \A i \in DOMAIN s.fr[z] \ {n} : q[i] = s.fr[z][i]
    BY <1>6, <1>11, <1>12, <1>17 DEF HasEnv
<1>19. IsSeq(q)
  <2>1. s.fr[z] = [i \in DOMAIN s.fr[z] |-> s.fr[z][i]]
      BY <1>4 DEF IsSeq
  <2>2. q = [i \in DOMAIN s.fr[z] |-> q[i]]
      BY <1>12, <2>1
  <2>3. q \in [DOMAIN s.fr[z] -> {q[i] : i \in DOMAIN s.fr[z]}]
      BY <2>2
  <2>. QED BY <1>4, <2>3, SeqLike, Zenon
<1>20. v # Free /\ EnvTyped(v) /\ v.cxt = z /\ v.slot = NULL
  <2>1. DOMAIN v = EnvFields /\ v.cxt = z /\ v.slot = NULL /\ v.stack = TRUE
      BY <1>9 DEF EnvFields
  <2>. QED BY <1>4, <2>1, States DEF EnvTyped
<1>21. Typed(t)
  <2>1. ASSUME NEW x \in Context PROVE IsSeq(t.fr[x]) /\ \A i \in DOMAIN t.fr[x] : HasEnv(t.fr[x][i])
      BY <1>2, <1>16, <1>17, <1>18, <1>19 DEF Typed
  <2>2. \A g \in Env : Live(t, g) => EnvTyped(t.env[g])
      BY <1>2, <1>15, <1>20 DEF Typed, Live
  <2>. QED BY <1>2, <1>13, <1>14, <1>15, <1>16, <2>1, <2>2 DEF Typed, Shaped, SameCxt
<1>22. \A x, i : ~Holds(s, x, i, e)
    BY <1>2, <1>11 DEF Ok, Owned, HeldMade
<1>a. DeadOf(t) = DeadOf(s)
    BY <1>13 DEF DeadOf
<1>23. \A g \in Env \ {e} : \A x, i : Holds(t, x, i, g) <=> Holds(s, x, i, g)
  <2>. SUFFICES ASSUME NEW g \in Env \ {e}, NEW x, NEW i PROVE Holds(t, x, i, g) <=> Holds(s, x, i, g)
      OBVIOUS
  <2>1. CASE x = z /\ i = n
      BY <1>7, <1>16, <1>18, <2>1, Constants DEF Holds
  <2>2. CASE x = z /\ i # n
      BY <1>16, <1>18, <2>2 DEF Holds
  <2>3. CASE x # z
      BY <1>16, <2>3 DEF Holds
  <2>. QED BY <2>1, <2>2, <2>3
<1>24. \A x, i : Holds(t, x, i, e) <=> x = z /\ i = n
  <2>. SUFFICES ASSUME NEW x, NEW i PROVE Holds(t, x, i, e) <=> x = z /\ i = n
      OBVIOUS
  <2>1. CASE x = z /\ i = n
      BY <1>4, <1>6, <1>16, <1>18, <2>1 DEF Holds
  <2>2. CASE x = z /\ i # n
      BY <1>16, <1>18, <1>22, <2>2 DEF Holds
  <2>3. CASE x # z
      BY <1>16, <1>22, <2>3 DEF Holds
  <2>. QED BY <2>1, <2>2, <2>3
<1>25. \A g \in Env \ {e} : Live(t, g) <=> Live(s, g)
    BY <1>15 DEF Live
<1>26. OnFrames(t, {})
  <2>. SUFFICES ASSUME NEW g \in Env, Live(t, g), E(g) \notin DeadOf(t), t.env[g].cxt # NULL
                PROVE  t.env[g].slot = NULL /\ \E i : Holds(t, t.env[g].cxt, i, g)
      BY DEF OnFrames
  <2>1. CASE g = e
      BY <1>15, <1>20, <1>24, <2>1
  <2>2. CASE g # e
      BY <1>2, <1>a, <1>15, <1>23, <1>25, <2>2 DEF Ok, Owned, OnFrames
  <2>. QED BY <2>1, <2>2
<1>27. Closed(t)
  <2>. SUFFICES ASSUME NEW g \in Env, Live(t, g), t.env[g].cxt = NULL
                PROVE  (t.env[g].slot # NULL => t.env[g].stack = TRUE) /\ \A x, i : ~Holds(t, x, i, g)
      BY DEF Closed
  <2>1. g # e
      BY <1>4, <1>15, <1>20, Constants
  <2>. QED BY <1>2, <1>15, <1>23, <1>25, <2>1 DEF Ok, Owned, Closed
<1>28. OneHolder(t)
  <2>. SUFFICES ASSUME NEW g \in Env, NEW x, NEW i, NEW y, NEW j, Holds(t, x, i, g), Holds(t, y, j, g)
                PROVE  x = y /\ i = j
      BY DEF OneHolder
  <2>1. CASE g = e
      BY <1>24, <2>1
  <2>2. CASE g # e
      BY <1>2, <1>23, <2>2 DEF Ok, Owned, OneHolder
  <2>. QED BY <2>1, <2>2
<1>29. HeldMade(t)
    BY <1>2, <1>a, <1>15, <1>20, <1>23 DEF Ok, Owned, HeldMade
<1>30. Runs(t)
    BY <1>2, <1>3, <1>4, <1>14, <1>16, <1>18, Constants DEF Ok, Owned, Runs, SameCxt
<1>31. E(e) \notin s.gc.white
    BY <1>2, <1>11 DEF Ok, DeadSound, DeadMade
<1>32. DeadMade(t) /\ WhiteCells(t) /\ Disjoint(t)
    BY <1>2, <1>13, <1>15, <1>20 DEF Ok, DeadSound, DeadMade, WhiteCells, Disjoint
<1>33. TaskKept(t)
    BY <1>2, <1>13, <1>14, <1>23, <1>31 DEF Ok, DeadSound, TaskKept, SameCxt
<1>34. FibKept(t)
    BY <1>2, <1>13, <1>14 DEF Ok, DeadSound, FibKept, SameCxt
<1>b. HeldKept(t)
  <2>. SUFFICES ASSUME NEW g \in Env, NEW x, NEW i, Holds(t, x, i, g), E(g) \in DeadOf(t)
                PROVE  x = Fib /\ F \in DeadOf(t)
      BY DEF HeldKept
  <2>1. g # e
      BY <1>a, <1>31 DEF DeadOf
  <2>. QED BY <1>2, <1>a, <1>23, <2>1 DEF Ok, DeadSound, HeldKept
<1>c. Shaded(t)
    BY <1>2, <1>13, <1>23, <1>31 DEF Ok, DeadSound, Shaded
<1>35. Ok(t, {})
    BY <1>b, <1>c, <1>21, <1>26, <1>27, <1>28, <1>29, <1>30, <1>32, <1>33, <1>34 DEF Ok, Owned, DeadSound
<1>. QED BY <1>10, <1>35 DEF Lands

LEMMA OneFrame == ASSUME NEW f PROVE IsSeq(<<f>>) /\ DOMAIN <<f>> = {1} /\ <<f>>[1] = f
<1>1. DOMAIN <<f>> = {1} /\ <<f>>[1] = f
    OBVIOUS
<1>2. <<f>> = [i \in 1 .. 1 |-> f]
    OBVIOUS
<1>3. [i \in 1 .. 1 |-> f] \in [1 .. 1 -> {f}]
    OBVIOUS
<1>4. IsSeq([i \in 1 .. 1 |-> f])
    BY <1>3, IndexedIsSeq
<1>. QED BY <1>1, <1>2, <1>4

LEMMA NewFiberLands == ASSUME OwnedInv, NewFiber PROVE Lands
<1>1. PICK s : s = Now
    OBVIOUS
<1>2. Ok(s, {}) /\ Typed(s) /\ s.c = c
    BY <1>1, NowIs DEF OwnedInv, Ok, Owned
<1>a. PICK b \in Callable(Now), kind \in Kinds : Go([Now EXCEPT !.fr[Fib] = <<Frame(b, blk[b].sc, FALSE)>>,
                                             !.c = [@ EXCEPT !.kind = kind, !.held = TRUE]])
    BY DEF NewFiber
<1>b. PICK f : f = Frame(b, blk[b].sc, FALSE)
    OBVIOUS
<1>3. HasEnv(f) /\ f.env = NULL
    BY <1>b, FrameHasEnv
<1>c. PICK t : t = [s EXCEPT !.fr[Fib] = <<f>>, !.c = [@ EXCEPT !.kind = kind, !.held = TRUE]] /\ Into(t)
    BY <1>1, <1>a, <1>b DEF Go, Into
<1>4. s.c.kind = "none" /\ s.c.cur = Root
    BY <1>2 DEF NewFiber
<1>5. DOMAIN s.fr[Fib] = {} /\ F \notin s.gc.white
    BY <1>2, <1>4 DEF Ok, Owned, Runs, DeadSound, FibKept
<1>6. /\ Shaped(t) /\ t.fr = [s.fr EXCEPT ![Fib] = <<f>>] /\ t.env = s.env /\ t.blk = s.blk /\ t.sv = s.sv
      /\ t.gc = s.gc /\ t.c = [s.c EXCEPT !.kind = kind, !.held = TRUE]
    BY <1>2, <1>c DEF Shaped, Typed, StateFields
<1>7. CxtTyped(t.c) /\ t.c.kind = kind /\ kind # "none" /\ t.c.cur = Root
    BY <1>2, <1>4, <1>6, ClosureAssumption DEF Typed, CxtTyped, CxtFields
<1>8. DOMAIN t.fr = Context /\ t.fr[Fib] = <<f>> /\ \A x \in Context \ {Fib} : t.fr[x] = s.fr[x]
    BY <1>2, <1>6, Constants DEF Typed
<1>9. IsSeq(<<f>>) /\ DOMAIN <<f>> = {1} /\ <<f>>[1] = f
    BY OneFrame
<1>10. Typed(t)
  <2>1. ASSUME NEW x \in Context PROVE IsSeq(t.fr[x]) /\ \A i \in DOMAIN t.fr[x] : HasEnv(t.fr[x][i])
    <3>1. CASE x = Fib
        BY <1>3, <1>8, <1>9, <3>1
    <3>2. CASE x # Fib
        BY <1>2, <1>8, <3>2 DEF Typed
    <3>. QED BY <3>1, <3>2
  <2>2. \A g \in Env : Live(t, g) => EnvTyped(t.env[g])
      BY <1>2, <1>6 DEF Typed, Live
  <2>. QED BY <1>2, <1>6, <1>7, <1>8, <2>1, <2>2 DEF Typed, Shaped
<1>11. \A e \in Env : \A x, i : Holds(t, x, i, e) <=> Holds(s, x, i, e)
  <2>. SUFFICES ASSUME NEW e \in Env, NEW x, NEW i PROVE Holds(t, x, i, e) <=> Holds(s, x, i, e)
      OBVIOUS
  <2>1. CASE x = Fib
    <3>1. ~Holds(s, x, i, e)
        BY <1>5, <2>1 DEF Holds
    <3>2. ~Holds(t, x, i, e)
        BY <1>3, <1>8, <1>9, <2>1, Constants DEF Holds
    <3>. QED BY <3>1, <3>2
  <2>2. CASE x # Fib
      BY <1>8, <2>2 DEF Holds
  <2>. QED BY <2>1, <2>2
<1>12. Runs(t)
    BY <1>2, <1>7, <1>8, Constants DEF Ok, Owned, Runs
<1>13. FibKept(t)
    BY <1>5, <1>6 DEF FibKept
<1>14. Ok(t, {})
    BY <1>2, <1>5, <1>6, <1>10, <1>11, <1>12, <1>13, SameHolders, BarrieredItself
<1>. QED BY <1>c, <1>14 DEF Lands

\* The frame of a fiber that ends goes, and leaves its env, if it has one, to itself.
LEMMA LeaveOk ==
    ASSUME NEW s, Ok(s, {}), s.c.cur = Fib, s.c.kind = "fiber", Len(s.fr[Fib]) = 1,
           NEW e, e = s.fr[Fib][1].env, NEW t, t = [mrb_free_context(s) EXCEPT !.c.cur = Root]
    PROVE  /\ Ok(t, {e}) /\ \A x, i : x # Root => \A g : ~Holds(t, x, i, g)
           /\ e = NULL => Ok(t, {})
           /\ e # NULL => e \in Env /\ \A x, i : ~Holds(t, x, i, e)
           /\ t.gc = s.gc
<1>1. Typed(s) /\ Shaped(s) /\ IsSeq(s.fr[Fib]) /\ Fib \in Context
    BY Constants DEF Ok, Owned, Typed, Shaped
<1>2. DOMAIN s.fr[Fib] = {1}
  <2>1. DOMAIN s.fr[Fib] = 1 .. 1
      BY <1>1, SeqFacts
  <2>. QED BY <2>1
<1>3. e \in Env \cup {NULL}
    BY <1>1, <1>2 DEF Typed, HasEnv
<1>4. PICK u : u = mrb_free_context(s)
    OBVIOUS
<1>5. /\ Shaped(u) /\ u.gc = s.gc /\ u.blk = s.blk /\ u.env = s.env /\ u.sv = s.sv
      /\ DOMAIN u.fr = Context /\ u.fr[Root] = s.fr[Root] /\ u.fr[Fib] = << >>
      /\ CxtTyped(u.c) /\ u.c.cur = s.c.cur /\ u.c.kind = s.c.kind /\ u.c.held = FALSE
    BY <1>1, <1>4, FreeContextIs DEF Typed
<1>6. /\ Shaped(t) /\ t.gc = s.gc /\ t.blk = s.blk /\ t.env = s.env /\ t.sv = s.sv
      /\ t.fr = u.fr /\ t.c = [u.c EXCEPT !.cur = Root]
    BY <1>4, <1>5 DEF Shaped, StateFields
<1>7. CxtTyped(t.c) /\ t.c.cur = Root /\ t.c.kind = "fiber"
    BY <1>5, <1>6, Constants DEF CxtTyped, CxtFields
<1>8. \A x, i, g : Holds(t, x, i, g) <=> x = Root /\ Holds(s, Root, i, g)
    BY <1>5, <1>6, EmptyIsSeq, Constants DEF Holds
<1>9. \A i, g : Holds(s, Fib, i, g) <=> i = 1 /\ g = e
    BY <1>1, <1>2 DEF Holds
<1>10. Typed(t)
  <2>1. ASSUME NEW x \in Context PROVE IsSeq(t.fr[x]) /\ \A i \in DOMAIN t.fr[x] : HasEnv(t.fr[x][i])
    <3>1. CASE x = Root
        BY <1>1, <1>5, <1>6, <3>1 DEF Typed
    <3>2. CASE x = Fib
        BY <1>5, <1>6, <3>2, EmptyIsSeq
    <3>. QED BY <3>1, <3>2, Constants
  <2>2. \A g \in Env : Live(t, g) => EnvTyped(t.env[g])
      BY <1>1, <1>6 DEF Typed, Live
  <2>. QED BY <1>1, <1>5, <1>6, <1>7, <2>1, <2>2 DEF Typed, Shaped
<1>11. \A g : Live(t, g) <=> Live(s, g)
    BY <1>6 DEF Live
<1>a. DeadOf(t) = DeadOf(s)
    BY <1>6 DEF DeadOf
<1>12. OnFrames(t, {e})
  <2>. SUFFICES ASSUME NEW g \in Env \ {e}, Live(t, g), E(g) \notin DeadOf(t), t.env[g].cxt # NULL
                PROVE  t.env[g].slot = NULL /\ \E i : Holds(t, t.env[g].cxt, i, g)
      BY DEF OnFrames
  <2>1. s.env[g].slot = NULL /\ \E i : Holds(s, s.env[g].cxt, i, g)
      BY <1>a, <1>6, <1>11 DEF Ok, Owned, OnFrames
  <2>2. s.env[g].cxt = Root
      BY <1>9, <2>1, Constants DEF Holds
  <2>. QED BY <1>6, <1>8, <2>1, <2>2
<1>13. Closed(t)
    BY <1>6, <1>8, <1>11 DEF Ok, Owned, Closed
<1>14. OneHolder(t) /\ HeldMade(t)
    BY <1>a, <1>6, <1>8 DEF Ok, Owned, OneHolder, HeldMade
<1>15. Runs(t)
    BY <1>5, <1>6, <1>7 DEF Ok, Owned, Runs
<1>16. DeadMade(t) /\ TaskKept(t) /\ WhiteCells(t)
    BY <1>6, <1>7, <1>8 DEF Ok, DeadSound, DeadMade, TaskKept, WhiteCells
<1>17. FibKept(t)
    BY <1>6, Constants DEF Ok, DeadSound, FibKept
<1>b. HeldKept(t) /\ Disjoint(t) /\ Shaded(t)
    BY <1>a, <1>6, <1>8, Constants DEF Ok, DeadSound, HeldKept, Disjoint, Shaded
<1>18. Ok(t, {e})
    BY <1>b, <1>10, <1>12, <1>13, <1>14, <1>15, <1>16, <1>17 DEF Ok, Owned, DeadSound
<1>19. e = NULL => Ok(t, {})
    BY <1>b, <1>10, <1>12, <1>13, <1>14, <1>15, <1>16, <1>17, Constants DEF Ok, Owned, DeadSound, OnFrames
<1>20. e # NULL => e \in Env /\ \A x, i : ~Holds(t, x, i, e)
  <2>1. e \in Env => \A i : ~Holds(s, Root, i, e)
    <3>1. Holds(s, Fib, 1, e)
        BY <1>9
    <3>2. OneHolder(s)
        BY DEF Ok, Owned
    <3>. QED BY ONLY <3>1, <3>2, Constants DEF OneHolder
  <2>. QED BY <1>3, <1>8, <2>1
<1>. QED BY <1>6, <1>8, <1>18, <1>19, <1>20

LEMMA TerminateLands == ASSUME UnmarkedEnd = FALSE, OwnedInv, fiber_terminate PROVE Lands
<1>1. PICK s : s = Now
    OBVIOUS
<1>2. Ok(s, {}) /\ Typed(s) /\ s.fr = fr /\ s.c = c /\ s.gc = gc
    BY <1>1, NowIs DEF OwnedInv, Ok, Owned
<1>3. s.c.cur = Fib /\ Len(s.fr[Fib]) = 1 /\ s.c.kind = "fiber"
    BY <1>2 DEF fiber_terminate
<1>4. PICK e : e = s.fr[Fib][1].env
    OBVIOUS
<1>5. PICK r : r = [mrb_free_context(s) EXCEPT !.c.cur = Root]
    OBVIOUS
<1>6. /\ Ok(r, {e}) /\ \A x, i : x # Root => \A g : ~Holds(r, x, i, g)
      /\ e = NULL => Ok(r, {})
      /\ e # NULL => e \in Env /\ \A x, i : ~Holds(r, x, i, e)
      /\ r.gc = s.gc
    BY <1>2, <1>3, <1>4, <1>5, LeaveOk
<1>7. CASE e = NULL
  <2>1. PICK t : t = r /\ Into(t)
      BY <1>1, <1>2, <1>4, <1>5, <1>7 DEF fiber_terminate, Go, Into
  <2>. QED BY <1>6, <1>7, <2>1 DEF Lands
<1>8. CASE e # NULL
  <2>1. PICK no : no = FALSE
      OBVIOUS
  <2>2. PICK u \in MaybeCollected(mrb_write_barrier(r, E(e))) :
            Go(IF mrb_object_dead_p(u, e) THEN u ELSE mrb_env_detach(u, e, NULL, no))
      BY <1>1, <1>2, <1>4, <1>5, <1>8, <2>1 DEF fiber_terminate
  <2>3. PICK t : t = (IF mrb_object_dead_p(u, e) THEN u ELSE mrb_env_detach(u, e, NULL, no)) /\ Into(t)
      BY <2>2 DEF Go, Into
  <2>4. PICK b : b = mrb_write_barrier(r, E(e))
      OBVIOUS
  <2>5. Ok(b, {e}) /\ Follows(b, r) /\ b.gc.white = s.gc.white
      BY <1>6, <2>4, BarrierQuiet, QuietOk DEF Ok, Owned, Barriered
  <2>6. Ok(u, {e}) /\ Follows(u, b) /\ (u = b \/ u.gc.white = {})
      BY <2>2, <2>4, <2>5, MaybeCollectedOk
  <2>a. E(e) \notin s.gc.white
      BY <1>2, <1>4, <1>8 DEF fiber_terminate, EnvRef
  <2>b. mrb_object_dead_p(u, e) <=> u.env[e] = Free
      BY <2>5, <2>6, <2>a DEF mrb_object_dead_p
  <2>7. e \in Env /\ \A x, i : ~Holds(u, x, i, e)
      BY <1>6, <1>8, <2>5, <2>6, FollowsHolds
  <2>8. CASE u.env[e] = Free
    <3>1. OnFrames(u, {})
        BY <2>6, <2>8 DEF Ok, Owned, OnFrames, Live
    <3>2. t = u
        BY <2>3, <2>b, <2>8
    <3>3. Ok(u, {})
        BY <2>6, <3>1 DEF Ok, Owned
    <3>. QED BY <2>3, <3>2, <3>3 DEF Lands
  <2>9. CASE u.env[e] # Free
    <3>1. t = mrb_env_detach(u, e, NULL, no)
        BY <2>3, <2>b, <2>9
    <3>2. Typed(u) /\ Shaped(u) /\ DOMAIN u.env = Env
        BY <2>6 DEF Ok, Owned, Typed, Shaped
    <3>3. /\ Shaped(t) /\ Barriered(t, u) /\ t.fr = u.fr /\ t.blk = u.blk /\ t.sv = u.sv /\ t.c = u.c
          /\ DOMAIN t.env = Env /\ Shut(t.env[e]) /\ \A g \in Env \ {e} : t.env[g] = u.env[g]
      <4>1. no \in BOOLEAN
          BY <2>1
      <4>. QED BY ONLY <2>7, <3>1, <3>2, <4>1, DetachIs
    <3>4. Typed(t)
      <4>1. EnvTyped(t.env[e])
          BY <3>3 DEF Shut, EnvTyped
      <4>2. \A g \in Env : Live(t, g) => EnvTyped(t.env[g])
          BY <3>2, <3>3, <4>1 DEF Typed, Live
      <4>. QED BY ONLY <3>2, <3>3, <4>2 DEF Typed, Shaped
    <3>5. \A x, i, g : Holds(t, x, i, g) <=> Holds(u, x, i, g)
        BY <3>3 DEF Holds
    <3>6. Runs(t) /\ FibKept(t)
        BY ONLY <2>6, <3>3 DEF Ok, Owned, DeadSound, Runs, FibKept, Barriered
    <3>7. PICK X : X = {e} /\ Ok(u, X) /\ X \subseteq {e}
        BY <2>6
    <3>8. /\ t.c.kind = u.c.kind /\ \A x, i : ~Holds(t, x, i, e)
          /\ \A g \in Env \ {e} : \A x, i : Holds(t, x, i, g) <=> Holds(u, x, i, g)
        BY ONLY <2>7, <3>3, <3>5
    <3>9. Ok(t, {})
        BY ONLY <2>7, <3>3, <3>4, <3>6, <3>7, <3>8, CloseOne
    <3>. QED BY <2>3, <3>9 DEF Lands
  <2>. QED BY <2>8, <2>9
<1>. QED BY <1>7, <1>8

LEMMA EndTaskLands == ASSUME OwnedInv, EndTask PROVE Lands
<1>1. PICK s : s = Now
    OBVIOUS
<1>2. Ok(s, {}) /\ Typed(s) /\ s.fr = fr /\ s.c = c /\ s.c.kind = "task"
    BY <1>1, NowIs DEF OwnedInv, Ok, Owned, EndTask
<1>3. PICK yes : yes = TRUE
    OBVIOUS
<1>4. PICK fails \in Failures : Go([mrb_free_context(mrb_env_detach_all(s, yes, fails)) EXCEPT !.c.cur = Root])
    BY <1>1, <1>3 DEF EndTask
<1>5. PICK r : r = mrb_env_detach_all(s, yes, fails)
    OBVIOUS
<1>6. PICK u : u = mrb_free_context(r)
    OBVIOUS
<1>7. PICK t : t = [u EXCEPT !.c.cur = Root] /\ Into(t)
    BY <1>4, <1>5, <1>6 DEF Go, Into
<1>8. fails \in BOOLEAN
    BY FailuresBoolean
<1>9. DetachedUpTo(r, s, 0)
    BY ONLY <1>2, <1>5, <1>8, DetachAllIs
<1>a. /\ Shaped(r) /\ Barriered(r, s) /\ r.fr = s.fr /\ r.blk = s.blk /\ r.sv = s.sv /\ r.c = s.c
      /\ DOMAIN r.env = Env
    BY ONLY <1>9 DEF DetachedUpTo
<1>10. /\ Shaped(u) /\ u.gc = r.gc /\ u.blk = r.blk /\ u.env = r.env /\ u.sv = r.sv
       /\ DOMAIN u.fr = Context /\ u.fr[Root] = r.fr[Root] /\ u.fr[Fib] = << >>
       /\ CxtTyped(u.c) /\ u.c.cur = r.c.cur /\ u.c.kind = r.c.kind /\ u.c.held = FALSE
    BY ONLY <1>2, <1>6, <1>a, FreeContextIs DEF Typed
<1>11. /\ Shaped(t) /\ t.gc = r.gc /\ t.blk = s.blk /\ t.env = r.env /\ t.sv = s.sv
       /\ t.fr = u.fr /\ t.c = [u.c EXCEPT !.cur = Root]
    BY ONLY <1>7, <1>a, <1>10 DEF Shaped, StateFields
<1>12. CxtTyped(t.c) /\ t.c.cur = Root
    BY ONLY <1>10, <1>11, Constants DEF CxtTyped, CxtFields
<1>13. SameEnvs(t, s, Root)
    BY ONLY <1>2, <1>a, <1>10, <1>11, Constants DEF SameEnvs, Typed, HasEnv
<1>14. F \notin s.gc.white /\ Barriered(t, s)
    BY <1>2, <1>a, <1>11, BarrieredItself, BarrieredThrough DEF Ok, DeadSound, FibKept
<1>15. FibKept(t) /\ Disjoint(t) /\ t.gc.white = s.gc.white /\ DeadOf(t) = DeadOf(s)
    BY <1>2, <1>14, BarrieredDead DEF Ok, DeadSound, FibKept, Barriered
<1>16. \A e \in Env : \A i : Holds(s, Fib, i, e) => Shut(t.env[e])
  <2>. SUFFICES ASSUME NEW e \in Env, NEW i, Holds(s, Fib, i, e) PROVE Shut(t.env[e])
      OBVIOUS
  <2>1. IsSeq(s.fr[Fib]) /\ i \in DOMAIN s.fr[Fib]
      BY <1>2, Constants DEF Typed, Holds
  <2>2. i > 0
      BY <2>1, SeqFacts
  <2>3. E(e) \notin s.gc.white
      BY <1>2 DEF Ok, DeadSound, TaskKept
  <2>4. Live(s, e)
      BY <1>2, <1>14 DEF Ok, Owned, HeldMade, Live, DeadOf
  <2>. QED BY ONLY <1>9, <1>11, <2>2, <2>3, <2>4, e \in Env, Holds(s, Fib, i, e) DEF DetachedUpTo
<1>17. /\ \A e \in Env : t.env[e] = s.env[e] \/ Shut(t.env[e])
       /\ \A e \in Env : (\A i : ~Holds(s, Fib, i, e)) => t.env[e] = s.env[e]
       /\ \A e \in Env : t.env[e] = Free => s.env[e] = Free
  <2>1. \A v : Shut(v) => v # Free
      BY States DEF Shut
  <2>. QED BY ONLY <1>9, <1>11, <2>1 DEF DetachedUpTo
<1>c. /\ DOMAIN t.fr = Context /\ t.fr[Fib] = << >> /\ DOMAIN t.blk = Block /\ DOMAIN t.env = Env /\ DOMAIN t.sv = Svar
    BY ONLY <1>2, <1>a, <1>10, <1>11 DEF Typed
<1>18. Ok(t, {})
    BY ONLY <1>2, <1>11, <1>12, <1>13, <1>15, <1>16, <1>17, <1>c, GoneOwned
<1>. QED BY <1>7, <1>18 DEF Lands

-----------------------------------------------------------------------------
(* The theorem.                                                            *)

LEMMA LandsOwned == ASSUME Lands PROVE OwnedInv'
<1>1. PICK t : Ok(t, {}) /\ Into(t)
    BY DEF Lands
<1>2. PICK u : u = Now'
    OBVIOUS
<1>3. u.fr = t.fr /\ u.blk = t.blk /\ u.env = t.env /\ u.sv = t.sv /\ u.c = t.c /\ u.gc = t.gc /\ DOMAIN u = StateFields
    BY <1>1, <1>2 DEF Now, Into, StateFields
<1>4. Typed(t)
    BY <1>1 DEF Ok, Owned
<1>5. Quiet(u, t)
    BY <1>3, <1>4, SameFrames DEF Typed, SameCxt
<1>6. Ok(u, {})
    BY <1>1, <1>3, <1>5, QuietOk, BarrieredItself
<1>. QED BY <1>2, <1>6 DEF OwnedInv

LEMMA InitOwned == Init => OwnedInv
<1>. SUFFICES ASSUME Init PROVE OwnedInv
    OBVIOUS
<1>1. PICK s : s = Now
    OBVIOUS
<1>2. s.fr = fr /\ s.blk = blk /\ s.env = env /\ s.sv = sv /\ s.c = c /\ s.gc = gc /\ DOMAIN s = StateFields
    BY <1>1 DEF Now, StateFields
<1>3. PICK f : f = Frame(Top, TopScope, FALSE)
    OBVIOUS
<1>4. HasEnv(f) /\ f.env = NULL
    BY <1>3, FrameHasEnv
<1>5. DOMAIN s.fr = Context /\ s.fr[Root] = <<f>> /\ s.fr[Fib] = << >>
    BY <1>2, <1>3, Constants DEF Init
<1>6. /\ DOMAIN s.blk = Block /\ DOMAIN s.env = Env /\ DOMAIN s.sv = Svar
      /\ \A e \in Env : s.env[e] = Free
      /\ GcTyped(s.gc) /\ s.gc.white = {} /\ s.gc.phase = "idle"
    BY <1>2 DEF Init, GcTyped, GcFields
<1>7. CxtTyped(s.c) /\ s.c.cur = Root /\ s.c.kind = "none"
    BY <1>2, Constants DEF Init, CxtTyped, CxtFields
<1>8. IsSeq(<<f>>) /\ DOMAIN <<f>> = {1} /\ <<f>>[1] = f
    BY OneFrame
<1>9. \A e \in Env : ~Live(s, e)
    BY <1>6 DEF Live
<1>10. \A x \in Context : IsSeq(s.fr[x]) /\ \A i \in DOMAIN s.fr[x] : HasEnv(s.fr[x][i])
    BY <1>4, <1>5, <1>8, EmptyIsSeq, Constants
<1>11. Typed(s)
    BY <1>2, <1>5, <1>6, <1>7, <1>9, <1>10 DEF Typed
<1>12. \A e \in Env : \A x, i : ~Holds(s, x, i, e)
    BY <1>4, <1>5, <1>8, EmptyIsSeq, Constants DEF Holds
<1>13. OnFrames(s, {}) /\ Closed(s) /\ OneHolder(s) /\ HeldMade(s)
    BY <1>9, <1>12 DEF OnFrames, Closed, OneHolder, HeldMade
<1>14. Runs(s)
    BY <1>5, <1>7, <1>8, EmptyIsSeq DEF Runs
<1>15. DeadSound(s)
    BY <1>6 DEF DeadSound, DeadMade, TaskKept, FibKept, HeldKept, WhiteCells, Disjoint, Shaded, DeadOf
<1>16. Ok(s, {})
    BY <1>11, <1>13, <1>14, <1>15 DEF Ok, Owned
<1>. QED BY <1>1, <1>16 DEF OwnedInv

LEMMA NextOwned ==
    ASSUME StaleReuse = FALSE, UnmarkedEnd = FALSE PROVE OwnedInv /\ [Next]_closureVars => OwnedInv'
<1>. SUFFICES ASSUME OwnedInv, [Next]_closureVars PROVE OwnedInv'
    OBVIOUS
<1>1. CASE UNCHANGED closureVars
  <2>1. PICK t : t = Now
      OBVIOUS
  <2>2. Into(t)
      BY <1>1, <2>1, NowIs DEF closureVars, Into
  <2>3. Lands
      BY <2>1, <2>2 DEF Lands, OwnedInv
  <2>. QED BY <2>3, LandsOwned
<1>2. CASE Next
  <2>1. CASE mrb_vm_svar_set
      BY <2>1, SvarSetLands, LandsOwned
  <2>2. CASE CallMethod
      BY <2>2, CallMethodLands, LandsOwned
  <2>3. CASE CallBlock
      BY <2>3, CallBlockLands, LandsOwned
  <2>4. CASE RunLoad
      BY <2>4, RunLoadLands, LandsOwned
  <2>5. CASE cipop
      BY <2>5, cipopLands, LandsOwned
  <2>6. CASE mrb_vm_ci_env_clear
      BY <2>6, EnvClearLands, LandsOwned
  <2>7. CASE MakeBlock
      BY <2>7, MakeBlockLands, LandsOwned
  <2>8. CASE DropBlock
      BY <2>8, DropBlockLands, LandsOwned
  <2>9. CASE NewFiber
      BY <2>9, NewFiberLands, LandsOwned
  <2>10. CASE Resume
      BY <2>10, ResumeLands, LandsOwned
  <2>11. CASE Yield
      BY <2>11, YieldLands, LandsOwned
  <2>12. CASE DropFiber
      BY <2>12, DropFiberLands, LandsOwned
  <2>13. CASE fiber_terminate
      BY <2>13, TerminateLands, LandsOwned
  <2>14. CASE EndTask
      BY <2>14, EndTaskLands, LandsOwned
  <2>15. CASE StartMark
      BY <2>15, StartMarkLands, LandsOwned
  <2>16. CASE FinishMark
      BY <2>16, FinishMarkLands, LandsOwned
  <2>17. CASE Sweep
      BY <2>17, SweepLands, LandsOwned
  <2>18. CASE Mark
      BY <2>18, MarkLands, LandsOwned
  <2>. QED BY <1>2, <2>1, <2>2, <2>3, <2>4, <2>5, <2>6, <2>7, <2>8, <2>9, <2>10, <2>11, <2>12, <2>13, <2>14,
              <2>15, <2>16, <2>17, <2>18 DEF Next
<1>. QED BY <1>1, <1>2

LEMMA OwnedInvImplies == OwnedInv => EnvOwned
<1>. SUFFICES ASSUME OwnedInv, NEW e \in {x \in InUse(env) : E(x) \notin Dead},
                     NEW contexts, contexts = {Root, IF F \in Dead THEN env[e].cxt ELSE Fib} \ {NULL},
                     NEW at, at = UNION {{<<x, i>> : i \in {j \in DOMAIN fr[x] : fr[x][j].env = e}} : x \in contexts}
              PROVE  IF Onstack(Now, e) THEN /\ Cardinality(at) = 1 /\ \A y \in at : y[1] = env[e].cxt
                                             /\ env[e].slot = NULL
                     ELSE at = {} /\ (env[e].slot # NULL => env[e].stack)
    BY DEF EnvOwned
<1>1. PICK s : s = Now
    OBVIOUS
<1>2. Ok(s, {}) /\ Typed(s) /\ s.fr = fr /\ s.env = env /\ s.gc = gc
    BY <1>1, NowIs DEF OwnedInv, Ok, Owned
<1>3. e \in Env /\ Live(s, e) /\ E(e) \notin DeadOf(s)
    BY <1>2 DEF InUse, Typed, Live, Dead, DeadOf
<1>a. /\ contexts \subseteq Context
      /\ s.env[e].cxt # NULL => s.env[e].cxt \in contexts
    BY <1>2, <1>3, Constants DEF Typed, EnvTyped
<1>4. \A x, i : <<x, i>> \in at <=> x \in contexts /\ Holds(s, x, i, e)
    BY <1>2, <1>a DEF Holds
<1>5. \A y \in at : \E x, i : y = <<x, i>>
    OBVIOUS
<1>6. CASE s.env[e].cxt # NULL
  <2>1. PICK i : s.env[e].slot = NULL /\ Holds(s, s.env[e].cxt, i, e)
      BY <1>2, <1>3, <1>6 DEF Ok, Owned, OnFrames
  <2>2. at = {<<s.env[e].cxt, i>>}
      BY <1>2, <1>3, <1>a, <1>4, <1>5, <1>6, <2>1 DEF Ok, Owned, OneHolder
  <2>3. Cardinality(at) = 1
      BY <2>2, FS_Singleton
  <2>. QED BY <1>1, <1>2, <1>6, <2>1, <2>2, <2>3 DEF Onstack
<1>7. CASE s.env[e].cxt = NULL
  <2>1. (s.env[e].slot # NULL => s.env[e].stack = TRUE) /\ \A x, i : ~Holds(s, x, i, e)
      BY <1>2, <1>3, <1>7 DEF Ok, Owned, Closed
  <2>2. at = {}
      BY <1>4, <1>5, <2>1
  <2>. QED BY <1>1, <1>2, <1>7, <2>1, <2>2 DEF Onstack
<1>. QED BY <1>6, <1>7

\* Whatever program runs and wherever in its marking and sweeping the collector
\* is, an env that is not dead and on the stack is the env of exactly one frame,
\* on the context it names, and a closed env is held by none: no return, end of a
\* fiber or a task, sweep of an abandoned fiber (src/vm.c cipop(), fiber_terminate(),
\* mrb_env_detach_all(), src/gc.c obj_free()) leaves one behind that still points
\* into a stack that is gone, with or without memory to close it.  Two situations
\* are left out: the cell of an env that a dead fiber still names is reused before
\* the fiber is swept (run closure_recycled), and a fiber ends while its env is
\* yet to be marked.
THEOREM EnvsOwned == ASSUME StaleReuse = FALSE, UnmarkedEnd = FALSE PROVE Spec => []EnvOwned
<1>1. Init => OwnedInv
    BY InitOwned
<1>2. OwnedInv /\ [Next]_closureVars => OwnedInv'
    BY NextOwned
<1>3. OwnedInv => EnvOwned
    BY OwnedInvImplies
<1>. QED BY <1>1, <1>2, <1>3, PTL DEF Spec
=============================================================================
